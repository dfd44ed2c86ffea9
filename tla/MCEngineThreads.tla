--------------------------- MODULE MCEngineThreads ---------------------------
(***************************************************************************)
(* EngineThreads for TLC: the calls are those of the script, all made by   *)
(* the render thread.                                                      *)
(***************************************************************************)
EXTENDS EngineThreads

MCThread == {"render"}
MCSlot   == {"logic", "editor", "network", "sound"}
MCCaller == [s \in MCSlot |-> MCThread]
BreakCall == {"empty", "try_load_editor", "show_window", "finalize_thread_usage"}
LoopCall  == {"empty", "create_device", "initialize_editor_thread_ids", "enable",
              "logic_clear_resources", "network_clear_resources",
              "sound_clear_resources", "editor_clear_resources",
              "delete_processed_orders", "thread_dispatch_callbacks",
              "finalize_logic_modules", "destroy_network", "destroy_sound",
              "unload_editor", "finalize_thread_usage", "destroy_device"}
MCCall    == [fn : BreakCall, break : {TRUE}] \cup [fn : LoopCall, break : {FALSE}]
=============================================================================
