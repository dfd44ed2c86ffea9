-------------------------- MODULE EngineWorldsProofs --------------------------
(***************************************************************************)
(* The worlds of the engine outlive the threads that use them, and nothing *)
(* is left behind when the core is finalized, in the game and the editor.  *)
(* The proof goes along the script: which call can be on its way to a      *)
(* thread when the render thread is at a statement, and what has been      *)
(* created and destroyed by then.  From where the threads are when they    *)
(* are called it follows too that the engine does not deadlock.            *)
(***************************************************************************)
EXTENDS EngineThreadsProofs

-----------------------------------------------------------------------------
(* The script, statement by statement                                      *)

(* how: a call that is only made, that breaks the loop of process, that is *)
(* waited for, or both                                                     *)
CallTo(to, fn, how) ==
    [do |-> "call", to |-> to, fn |-> fn, break |-> how \in {"breaks", "both"},
     wait |-> how \in {"waits", "both"}, remote_only |-> FALSE]
RemoteCallTo(to, fn, how) ==
    [do |-> "call", to |-> to, fn |-> fn, break |-> how \in {"breaks", "both"},
     wait |-> how \in {"waits", "both"}, remote_only |-> TRUE]
WaitFor(t)  == [do |-> "wait", to |-> t]
SpawnOf(t)  == [do |-> "spawn", to |-> t]
LocalOf(fn) == [do |-> "local", fn |-> fn]

(* The statements of the editor alone, in the parts of the script.         *)
ed == IF Editor THEN 1 ELSE 0

(* Where the parts of the destructor start.                                *)
clear_at    == run_at + 8
dispatch_at == clear_at + 10 + 2 * ed
finalize_at == dispatch_at + 11

LEMMA StatementsAre ==
    /\ \A t \in Place, fn \in Function : \A how :
          CallTo(t, fn, how) \in Statement /\ RemoteCallTo(t, fn, how) \in Statement
    /\ \A t \in Place : WaitFor(t) \in Statement /\ SpawnOf(t) \in Statement
    /\ \A fn \in Function : LocalOf(fn) \in Statement
BY DEF Statement, CallTo, RemoteCallTo, WaitFor, SpawnOf, LocalOf

(* What the script says                                                    *)
StartSays ==
    /\ script[1] = LocalOf("initialize_core")
    /\ Editor => script[2] = SpawnOf("editor")
    /\ Editor => script[3] = CallTo("editor", "try_load_editor", "breaks")
    /\ script[2 + 2 * ed] = WaitFor("editor")
    /\ script[3 + 2 * ed] = CallTo("editor", "create_device", "waits")
    /\ script[4 + 2 * ed] = LocalOf("create_render")
    /\ script[5 + 2 * ed] = SpawnOf("network")
    /\ script[6 + 2 * ed] = SpawnOf("sound")
    /\ script[7 + 2 * ed] = CallTo("sound", "empty", "both")
    /\ script[8 + 2 * ed] = LocalOf("draw_frame")
    /\ script[9 + 2 * ed] = SpawnOf("logic")
    /\ script[10 + 2 * ed] = WaitFor("editor")
    /\ script[11 + 2 * ed] = WaitFor("logic")
    /\ Editor => script[14] = CallTo("editor", "initialize_editor_thread_ids", "waits")
    /\ script[12 + 3 * ed] = CallTo("editor", "show_window", "both")
    /\ script[13 + 3 * ed] = CallTo("logic", "enable", "waits")
    /\ script[run_at] = LocalOf("run")

BarrierSays ==
    /\ script[run_at + 1] = CallTo("logic", "empty", "calls")
    /\ script[run_at + 2] = CallTo("network", "empty", "calls")
    /\ script[run_at + 3] = CallTo("sound", "empty", "calls")
    /\ script[run_at + 4] = CallTo("editor", "empty", "calls")
    /\ script[run_at + 5] = WaitFor("logic")
    /\ script[run_at + 6] = WaitFor("network")
    /\ script[run_at + 7] = WaitFor("sound")
    /\ script[run_at + 8] = WaitFor("editor")

ClearSays ==
    /\ script[clear_at + 1] = CallTo("logic", "logic_clear_resources", "calls")
    /\ script[clear_at + 2] = CallTo("network", "network_clear_resources", "calls")
    /\ script[clear_at + 3] = CallTo("sound", "sound_clear_resources", "calls")
    /\ Editor => script[clear_at + 4] = CallTo("editor", "editor_clear_resources", "calls")
    /\ script[clear_at + 4 + ed] = LocalOf("render_clear_resources")
    /\ script[clear_at + 5 + ed] = WaitFor("logic")
    /\ script[clear_at + 6 + ed] = WaitFor("network")
    /\ script[clear_at + 7 + ed] = WaitFor("sound")
    /\ script[clear_at + 8 + ed] = WaitFor("editor")
    /\ script[clear_at + 9 + ed] = LocalOf("purge_orders")
    /\ Editor => script[clear_at + 11] = CallTo("editor", "delete_processed_orders", "calls")
    /\ script[clear_at + 10 + 2 * ed] = CallTo("logic", "delete_processed_orders", "calls")

DispatchSays ==
    /\ script[dispatch_at + 1] = LocalOf("dispatching")
    /\ script[dispatch_at + 2] = RemoteCallTo("logic", "thread_dispatch_callbacks", "calls")
    /\ script[dispatch_at + 3] = RemoteCallTo("network", "thread_dispatch_callbacks", "calls")
    /\ script[dispatch_at + 4] = RemoteCallTo("sound", "thread_dispatch_callbacks", "calls")
    /\ script[dispatch_at + 5] = RemoteCallTo("editor", "thread_dispatch_callbacks", "calls")
    /\ script[dispatch_at + 6] = LocalOf("wait_and_dispatch_callbacks")
    /\ script[dispatch_at + 7] = LocalOf("dispatched")
    /\ script[dispatch_at + 8] = WaitFor("logic")
    /\ script[dispatch_at + 9] = WaitFor("network")
    /\ script[dispatch_at + 10] = WaitFor("sound")
    /\ script[dispatch_at + 11] = WaitFor("editor")

FinalizeSays ==
    /\ script[finalize_at + 1] = CallTo("logic", "finalize_logic_modules", "calls")
    /\ script[finalize_at + 2] = RemoteCallTo("logic", "finalize_thread_usage", "breaks")
    /\ script[finalize_at + 3] = CallTo("network", "destroy_network", "calls")
    /\ script[finalize_at + 4] = RemoteCallTo("network", "finalize_thread_usage", "breaks")
    /\ script[finalize_at + 5] = CallTo("sound", "destroy_sound", "calls")
    /\ script[finalize_at + 6] = RemoteCallTo("sound", "finalize_thread_usage", "breaks")
    /\ Editor => script[finalize_at + 7] = CallTo("editor", "unload_editor", "calls")
    /\ Editor => script[finalize_at + 8] = RemoteCallTo("editor", "finalize_thread_usage", "waits")
    /\ script[finalize_at + 7 + 2 * ed] = WaitFor("logic")
    /\ script[finalize_at + 8 + 2 * ed] = WaitFor("network")
    /\ script[finalize_at + 9 + 2 * ed] = WaitFor("sound")
    /\ script[finalize_at + 10 + 2 * ed] = WaitFor("editor")
    /\ script[finalize_at + 11 + 2 * ed] = LocalOf("wait_and_dispatch_callbacks")
    /\ script[finalize_at + 12 + 2 * ed] = CallTo("editor", "destroy_device", "waits")
    /\ script[finalize_at + 13 + 2 * ed] = LocalOf("destroy_render")
    /\ script[finalize_at + 14 + 2 * ed] = RemoteCallTo("editor", "empty", "both")
    /\ script[finalize_at + 15 + 2 * ed] = LocalOf("finalize_core")

LEMMA ScriptSays ==
    /\ ed \in 0..1 /\ run_at = 14 + 3 * ed /\ Len(script) = finalize_at + 15 + 2 * ed
    /\ StartSays /\ BarrierSays /\ ClearSays /\ DispatchSays /\ FinalizeSays
<1> DEFINE i1 == LocalOf("initialize_core")
           i2 == SpawnOf("editor")
           i3 == CallTo("editor", "try_load_editor", "breaks")
           i4 == WaitFor("editor")
           i5 == CallTo("editor", "create_device", "waits")
           i6 == LocalOf("create_render")
           i7 == SpawnOf("network")
           i8 == SpawnOf("sound")
           i9 == CallTo("sound", "empty", "both")
           i10 == LocalOf("draw_frame")
           i11 == SpawnOf("logic")
           i12 == WaitFor("editor")
           i13 == WaitFor("logic")
           i14 == CallTo("editor", "initialize_editor_thread_ids", "waits")
           i15 == CallTo("editor", "show_window", "both")
           i16 == CallTo("logic", "enable", "waits")
           r == LocalOf("run")
           b1 == CallTo("logic", "empty", "calls")
           b2 == CallTo("network", "empty", "calls")
           b3 == CallTo("sound", "empty", "calls")
           b4 == CallTo("editor", "empty", "calls")
           b5 == WaitFor("logic")
           b6 == WaitFor("network")
           b7 == WaitFor("sound")
           b8 == WaitFor("editor")
           c1 == CallTo("logic", "logic_clear_resources", "calls")
           c2 == CallTo("network", "network_clear_resources", "calls")
           c3 == CallTo("sound", "sound_clear_resources", "calls")
           c4 == CallTo("editor", "editor_clear_resources", "calls")
           c5 == LocalOf("render_clear_resources")
           c6 == WaitFor("logic")
           c7 == WaitFor("network")
           c8 == WaitFor("sound")
           c9 == WaitFor("editor")
           c10 == LocalOf("purge_orders")
           c11 == CallTo("editor", "delete_processed_orders", "calls")
           c12 == CallTo("logic", "delete_processed_orders", "calls")
           d1 == LocalOf("dispatching")
           d2 == RemoteCallTo("logic", "thread_dispatch_callbacks", "calls")
           d3 == RemoteCallTo("network", "thread_dispatch_callbacks", "calls")
           d4 == RemoteCallTo("sound", "thread_dispatch_callbacks", "calls")
           d5 == RemoteCallTo("editor", "thread_dispatch_callbacks", "calls")
           d6 == LocalOf("wait_and_dispatch_callbacks")
           d7 == LocalOf("dispatched")
           d8 == WaitFor("logic")
           d9 == WaitFor("network")
           d10 == WaitFor("sound")
           d11 == WaitFor("editor")
           f1 == CallTo("logic", "finalize_logic_modules", "calls")
           f2 == RemoteCallTo("logic", "finalize_thread_usage", "breaks")
           f3 == CallTo("network", "destroy_network", "calls")
           f4 == RemoteCallTo("network", "finalize_thread_usage", "breaks")
           f5 == CallTo("sound", "destroy_sound", "calls")
           f6 == RemoteCallTo("sound", "finalize_thread_usage", "breaks")
           f7 == CallTo("editor", "unload_editor", "calls")
           f8 == RemoteCallTo("editor", "finalize_thread_usage", "waits")
           f9 == WaitFor("logic")
           f10 == WaitFor("network")
           f11 == WaitFor("sound")
           f12 == WaitFor("editor")
           f13 == LocalOf("wait_and_dispatch_callbacks")
           f14 == CallTo("editor", "destroy_device", "waits")
           f15 == LocalOf("destroy_render")
           f16 == RemoteCallTo("editor", "empty", "both")
           f17 == LocalOf("finalize_core")
           gameStarts == << i1 >> \o << >> \o << i4 >> \o << i5 >> \o << i6 >>
                         \o << i7 >> \o << i8 >> \o << i9 >> \o (<< i10 >> \o << i11 >>)
                         \o << i12 >> \o << i13 >> \o << >> \o << i15 >> \o << i16 >>
           editorStarts == << i1 >> \o (<< i2 >> \o << i3 >>) \o << i4 >> \o << i5 >>
                           \o << i6 >> \o << i7 >> \o << i8 >> \o << i9 >> \o (<< i10 >>
                           \o << i11 >>) \o << i12 >> \o << i13 >> \o (<< i14 >>)
                           \o << i15 >> \o << i16 >>
           gameClears == (<< c1 >> \o << c2 >> \o << c3 >>) \o << >> \o << c5 >>
                         \o (<< c6 >> \o << c7 >> \o << c8 >> \o << c9 >>) \o << c10 >>
                         \o << >> \o << c12 >>
           editorClears == (<< c1 >> \o << c2 >> \o << c3 >>) \o (<< c4 >>) \o << c5 >>
                           \o (<< c6 >> \o << c7 >> \o << c8 >> \o << c9 >>)
                           \o << c10 >> \o (<< c11 >>) \o << c12 >>
           gameFinalizes == (<< f1 >> \o << f2 >>) \o (<< f3 >> \o << f4 >>)
                            \o (<< f5 >> \o << f6 >>) \o << >> \o (<< f9 >> \o << f10 >>
                            \o << f11 >> \o << f12 >>) \o << f13 >> \o << f14 >>
                            \o << f15 >> \o << f16 >> \o << f17 >>
           editorFinalizes == (<< f1 >> \o << f2 >>) \o (<< f3 >> \o << f4 >>)
                              \o (<< f5 >> \o << f6 >>) \o (<< f7 >> \o << f8 >>)
                              \o (<< f9 >> \o << f10 >> \o << f11 >> \o << f12 >>)
                              \o << f13 >> \o << f14 >> \o << f15 >> \o << f16 >>
                              \o << f17 >>
           synchronizes == (<< b1 >> \o << b2 >> \o << b3 >>) \o << b4 >> \o (<< b5 >>
                           \o << b6 >> \o << b7 >> \o << b8 >>)
           dispatches == << d1 >> \o << d2 >> \o << d3 >> \o << d4 >> \o << d5 >>
                         \o << d6 >> \o << d7 >> \o (<< d8 >> \o << d9 >> \o << d10 >>
                         \o << d11 >>)
           game == gameStarts \o << r >> \o synchronizes \o gameClears \o dispatches
                   \o gameFinalizes
           editor == editorStarts \o << r >> \o synchronizes \o editorClears \o dispatches
                     \o editorFinalizes
<1>1. /\ i1 \in Statement /\ i2 \in Statement /\ i3 \in Statement /\ i4 \in Statement
      /\ i5 \in Statement /\ i6 \in Statement /\ i7 \in Statement /\ i8 \in Statement
      /\ i9 \in Statement /\ i10 \in Statement /\ i11 \in Statement /\ i12 \in Statement
      /\ i13 \in Statement /\ i14 \in Statement /\ i15 \in Statement
      /\ i16 \in Statement /\ r \in Statement /\ b1 \in Statement /\ b2 \in Statement
      /\ b3 \in Statement /\ b4 \in Statement /\ b5 \in Statement /\ b6 \in Statement
      /\ b7 \in Statement /\ b8 \in Statement /\ c1 \in Statement /\ c2 \in Statement
      /\ c3 \in Statement /\ c4 \in Statement /\ c5 \in Statement /\ c6 \in Statement
      /\ c7 \in Statement /\ c8 \in Statement /\ c9 \in Statement /\ c10 \in Statement
      /\ c11 \in Statement /\ c12 \in Statement /\ d1 \in Statement /\ d2 \in Statement
      /\ d3 \in Statement /\ d4 \in Statement /\ d5 \in Statement /\ d6 \in Statement
      /\ d7 \in Statement /\ d8 \in Statement /\ d9 \in Statement /\ d10 \in Statement
      /\ d11 \in Statement /\ f1 \in Statement /\ f2 \in Statement /\ f3 \in Statement
      /\ f4 \in Statement /\ f5 \in Statement /\ f6 \in Statement /\ f7 \in Statement
      /\ f8 \in Statement /\ f9 \in Statement /\ f10 \in Statement /\ f11 \in Statement
      /\ f12 \in Statement /\ f13 \in Statement /\ f14 \in Statement
      /\ f15 \in Statement /\ f16 \in Statement /\ f17 \in Statement
  BY StatementsAre DEF Place, Function
<1>2. \A t, fn :
        /\ Run(t, fn, continue_process_loop, dont_wait_for_completion) = << CallTo(t, fn, "calls") >>
        /\ Run(t, fn, break_process_loop, dont_wait_for_completion) = << CallTo(t, fn, "breaks") >>
        /\ Run(t, fn, continue_process_loop, wait_for_completion) = << CallTo(t, fn, "waits") >>
        /\ Run(t, fn, break_process_loop, wait_for_completion) = << CallTo(t, fn, "both") >>
        /\ RunRemoteOnly(t, fn, continue_process_loop, dont_wait_for_completion)
              = << RemoteCallTo(t, fn, "calls") >>
        /\ RunRemoteOnly(t, fn, break_process_loop, dont_wait_for_completion)
              = << RemoteCallTo(t, fn, "breaks") >>
        /\ RunRemoteOnly(t, fn, continue_process_loop, wait_for_completion)
              = << RemoteCallTo(t, fn, "waits") >>
        /\ RunRemoteOnly(t, fn, break_process_loop, wait_for_completion)
              = << RemoteCallTo(t, fn, "both") >>
  <2>1. /\ "calls" \notin {"breaks", "both"} /\ "waits" \notin {"breaks", "both"}
        /\ "calls" \notin {"waits", "both"} /\ "breaks" \notin {"waits", "both"}
        /\ "breaks" \in {"breaks", "both"} /\ "waits" \in {"waits", "both"}
        /\ "both" \in {"breaks", "both"} /\ "both" \in {"waits", "both"}
    OBVIOUS
  <2>2. /\ ("calls" \in {"breaks", "both"}) = FALSE /\ ("waits" \in {"breaks", "both"}) = FALSE
        /\ ("calls" \in {"waits", "both"}) = FALSE /\ ("breaks" \in {"waits", "both"}) = FALSE
        /\ ("breaks" \in {"breaks", "both"}) = TRUE /\ ("waits" \in {"waits", "both"}) = TRUE
        /\ ("both" \in {"breaks", "both"}) = TRUE /\ ("both" \in {"waits", "both"}) = TRUE
    BY <2>1
  <2> QED BY <2>2, Zenon DEF continue_process_loop, break_process_loop, wait_for_completion,
         dont_wait_for_completion, Run, RunRemoteOnly, CallTo, RemoteCallTo
<1>3. /\ \A t : Wait(t) = << WaitFor(t) >> /\ Spawn(t) = << SpawnOf(t) >>
      /\ \A fn : Local(fn) = << LocalOf(fn) >>
  BY DEF Wait, Spawn, Local, WaitFor, SpawnOf, LocalOf
<1>4. barrier = synchronizes /\ dispatch_callbacks = dispatches
  BY <1>2, <1>3 DEF barrier, dispatch_callbacks, OnAll, WaitAll, DispatchOn
<1>5. /\ Editor => initialize = editorStarts
      /\ ~Editor => initialize = gameStarts
  BY <1>2, <1>3 DEF initialize, initialize_logic, If
<1>6. /\ Editor => clear_resources = editorClears /\ finalize = editorFinalizes
      /\ ~Editor => clear_resources = gameClears /\ finalize = gameFinalizes
  BY <1>2, <1>3 DEF clear_resources, finalize, OnAll, WaitAll, Finalize, If
<1>7. (Editor => script = editor) /\ (~Editor => script = game)
  <2> HIDE DEF synchronizes, dispatches, editorStarts, gameStarts, editorClears, gameClears,
               editorFinalizes, gameFinalizes
  <2> QED BY <1>3, <1>4, <1>5, <1>6 DEF script
<1> HIDE DEF i1, i2, i3, i4, i5, i6, i7, i8, i9, i10, i11, i12, i13, i14, i15, i16,
            r, b1, b2, b3, b4, b5, b6, b7, b8, c1, c2, c3, c4, c5, c6, c7, c8, c9,
            c10, c11, c12, d1, d2, d3, d4, d5, d6, d7, d8, d9, d10, d11, f1, f2, f3,
            f4, f5, f6, f7, f8, f9, f10, f11, f12, f13, f14, f15, f16, f17
<1>8. Len(editorStarts) = 16 /\ Len(gameStarts) = 13
  BY <1>1
<1>9. /\ Len(editor) = 65 /\ editor[1] = i1 /\ editor[2] = i2 /\ editor[3] = i3
      /\ editor[4] = i4 /\ editor[5] = i5 /\ editor[6] = i6 /\ editor[7] = i7
      /\ editor[8] = i8 /\ editor[9] = i9 /\ editor[10] = i10 /\ editor[11] = i11
      /\ editor[12] = i12 /\ editor[13] = i13 /\ editor[14] = i14 /\ editor[15] = i15
      /\ editor[16] = i16 /\ editor[17] = r /\ editor[18] = b1 /\ editor[19] = b2
      /\ editor[20] = b3 /\ editor[21] = b4 /\ editor[22] = b5 /\ editor[23] = b6
      /\ editor[24] = b7 /\ editor[25] = b8 /\ editor[26] = c1 /\ editor[27] = c2
      /\ editor[28] = c3 /\ editor[29] = c4 /\ editor[30] = c5 /\ editor[31] = c6
      /\ editor[32] = c7 /\ editor[33] = c8 /\ editor[34] = c9 /\ editor[35] = c10
      /\ editor[36] = c11 /\ editor[37] = c12 /\ editor[38] = d1 /\ editor[39] = d2
      /\ editor[40] = d3 /\ editor[41] = d4 /\ editor[42] = d5 /\ editor[43] = d6
      /\ editor[44] = d7 /\ editor[45] = d8 /\ editor[46] = d9 /\ editor[47] = d10
      /\ editor[48] = d11 /\ editor[49] = f1 /\ editor[50] = f2 /\ editor[51] = f3
      /\ editor[52] = f4 /\ editor[53] = f5 /\ editor[54] = f6 /\ editor[55] = f7
      /\ editor[56] = f8 /\ editor[57] = f9 /\ editor[58] = f10 /\ editor[59] = f11
      /\ editor[60] = f12 /\ editor[61] = f13 /\ editor[62] = f14 /\ editor[63] = f15
      /\ editor[64] = f16 /\ editor[65] = f17
  <2>1. /\ Len(editor) = 65 /\ editor[1] = i1 /\ editor[2] = i2 /\ editor[3] = i3
        /\ editor[4] = i4 /\ editor[5] = i5 /\ editor[6] = i6 /\ editor[7] = i7
        /\ editor[8] = i8 /\ editor[9] = i9 /\ editor[10] = i10 /\ editor[11] = i11
        /\ editor[12] = i12 /\ editor[13] = i13
    BY <1>1, SMTT(30)
  <2>2. /\ editor[14] = i14 /\ editor[15] = i15 /\ editor[16] = i16 /\ editor[17] = r
        /\ editor[18] = b1 /\ editor[19] = b2 /\ editor[20] = b3 /\ editor[21] = b4
        /\ editor[22] = b5 /\ editor[23] = b6 /\ editor[24] = b7 /\ editor[25] = b8
        /\ editor[26] = c1 /\ editor[27] = c2
    BY <1>1, SMTT(30)
  <2>3. /\ editor[28] = c3 /\ editor[29] = c4 /\ editor[30] = c5 /\ editor[31] = c6
        /\ editor[32] = c7 /\ editor[33] = c8 /\ editor[34] = c9 /\ editor[35] = c10
        /\ editor[36] = c11 /\ editor[37] = c12 /\ editor[38] = d1 /\ editor[39] = d2
        /\ editor[40] = d3 /\ editor[41] = d4
    BY <1>1, SMTT(30)
  <2>4. /\ editor[42] = d5 /\ editor[43] = d6 /\ editor[44] = d7 /\ editor[45] = d8
        /\ editor[46] = d9 /\ editor[47] = d10 /\ editor[48] = d11 /\ editor[49] = f1
        /\ editor[50] = f2 /\ editor[51] = f3 /\ editor[52] = f4 /\ editor[53] = f5
        /\ editor[54] = f6 /\ editor[55] = f7
    BY <1>1, SMTT(30)
  <2>5. /\ editor[56] = f8 /\ editor[57] = f9 /\ editor[58] = f10 /\ editor[59] = f11
        /\ editor[60] = f12 /\ editor[61] = f13 /\ editor[62] = f14 /\ editor[63] = f15
        /\ editor[64] = f16 /\ editor[65] = f17
    BY <1>1, SMTT(30)
  <2> HIDE DEF editor
  <2> QED BY <2>1, <2>2, <2>3, <2>4, <2>5
<1>10. /\ Len(game) = 58 /\ game[1] = i1 /\ game[2] = i4 /\ game[3] = i5 /\ game[4] = i6
      /\ game[5] = i7 /\ game[6] = i8 /\ game[7] = i9 /\ game[8] = i10 /\ game[9] = i11
      /\ game[10] = i12 /\ game[11] = i13 /\ game[12] = i15 /\ game[13] = i16
      /\ game[14] = r /\ game[15] = b1 /\ game[16] = b2 /\ game[17] = b3
      /\ game[18] = b4 /\ game[19] = b5 /\ game[20] = b6 /\ game[21] = b7
      /\ game[22] = b8 /\ game[23] = c1 /\ game[24] = c2 /\ game[25] = c3
      /\ game[26] = c5 /\ game[27] = c6 /\ game[28] = c7 /\ game[29] = c8
      /\ game[30] = c9 /\ game[31] = c10 /\ game[32] = c12 /\ game[33] = d1
      /\ game[34] = d2 /\ game[35] = d3 /\ game[36] = d4 /\ game[37] = d5
      /\ game[38] = d6 /\ game[39] = d7 /\ game[40] = d8 /\ game[41] = d9
      /\ game[42] = d10 /\ game[43] = d11 /\ game[44] = f1 /\ game[45] = f2
      /\ game[46] = f3 /\ game[47] = f4 /\ game[48] = f5 /\ game[49] = f6
      /\ game[50] = f9 /\ game[51] = f10 /\ game[52] = f11 /\ game[53] = f12
      /\ game[54] = f13 /\ game[55] = f14 /\ game[56] = f15 /\ game[57] = f16
      /\ game[58] = f17
  <2>1. /\ Len(game) = 58 /\ game[1] = i1 /\ game[2] = i4 /\ game[3] = i5 /\ game[4] = i6
        /\ game[5] = i7 /\ game[6] = i8 /\ game[7] = i9 /\ game[8] = i10 /\ game[9] = i11
        /\ game[10] = i12 /\ game[11] = i13
    BY <1>1, SMTT(30)
  <2>2. /\ game[12] = i15 /\ game[13] = i16 /\ game[14] = r /\ game[15] = b1
        /\ game[16] = b2 /\ game[17] = b3 /\ game[18] = b4 /\ game[19] = b5
        /\ game[20] = b6 /\ game[21] = b7 /\ game[22] = b8 /\ game[23] = c1
    BY <1>1, SMTT(30)
  <2>3. /\ game[24] = c2 /\ game[25] = c3 /\ game[26] = c5 /\ game[27] = c6
        /\ game[28] = c7 /\ game[29] = c8 /\ game[30] = c9 /\ game[31] = c10
        /\ game[32] = c12 /\ game[33] = d1 /\ game[34] = d2 /\ game[35] = d3
    BY <1>1, SMTT(30)
  <2>4. /\ game[36] = d4 /\ game[37] = d5 /\ game[38] = d6 /\ game[39] = d7
        /\ game[40] = d8 /\ game[41] = d9 /\ game[42] = d10 /\ game[43] = d11
        /\ game[44] = f1 /\ game[45] = f2 /\ game[46] = f3 /\ game[47] = f4
    BY <1>1, SMTT(30)
  <2>5. /\ game[48] = f5 /\ game[49] = f6 /\ game[50] = f9 /\ game[51] = f10
        /\ game[52] = f11 /\ game[53] = f12 /\ game[54] = f13 /\ game[55] = f14
        /\ game[56] = f15 /\ game[57] = f16 /\ game[58] = f17
    BY <1>1, SMTT(30)
  <2> HIDE DEF game
  <2> QED BY <2>1, <2>2, <2>3, <2>4, <2>5
<1> HIDE DEF editorStarts, editor, gameStarts, game, synchronizes, dispatches,
            editorClears, gameClears, editorFinalizes, gameFinalizes
<1>11. CASE Editor
  <2>0. ed = 1
    BY <1>11 DEF ed
  <2>1. run_at = 17
    <3>1. initialize = editorStarts
      BY <1>5, <1>11
    <3>2. Len(editorStarts) = 16
      BY <1>8
    <3> QED BY <3>1, <3>2 DEF run_at
  <2>2. clear_at = 25 /\ dispatch_at = 37 /\ finalize_at = 48
    BY <2>0, <2>1 DEF clear_at, dispatch_at, finalize_at
  <2>3. script = editor
    BY <1>7, <1>11
  <2> USE DEF i1, i2, i3, i4, i5, i6, i7, i8, i9, i10, i11, i12, i13, i14, i15, i16,
              r, b1, b2, b3, b4, b5, b6, b7, b8, c1, c2, c3, c4, c5, c6, c7, c8, c9,
              c10, c11, c12, d1, d2, d3, d4, d5, d6, d7, d8, d9, d10, d11, f1, f2,
              f3, f4, f5, f6, f7, f8, f9, f10, f11, f12, f13, f14, f15, f16, f17
  <2>4. StartSays
    BY <1>9, <1>11, <2>0, <2>1, <2>2, <2>3 DEF StartSays
  <2>5. BarrierSays
    BY <1>9, <1>11, <2>0, <2>1, <2>2, <2>3 DEF BarrierSays
  <2>6. ClearSays
    BY <1>9, <1>11, <2>0, <2>1, <2>2, <2>3 DEF ClearSays
  <2>7. DispatchSays
    BY <1>9, <1>11, <2>0, <2>1, <2>2, <2>3 DEF DispatchSays
  <2>8. FinalizeSays
    BY <1>9, <1>11, <2>0, <2>1, <2>2, <2>3 DEF FinalizeSays
  <2>9. Len(script) = finalize_at + 15 + 2 * ed
    BY <1>9, <2>0, <2>2, <2>3
  <2> QED BY <2>0, <2>1, <2>4, <2>5, <2>6, <2>7, <2>8, <2>9
<1>12. CASE ~Editor
  <2>0. ed = 0
    BY <1>12 DEF ed
  <2>1. run_at = 14
    <3>1. initialize = gameStarts
      BY <1>5, <1>12
    <3>2. Len(gameStarts) = 13
      BY <1>8
    <3> QED BY <3>1, <3>2 DEF run_at
  <2>2. clear_at = 22 /\ dispatch_at = 32 /\ finalize_at = 43
    BY <2>0, <2>1 DEF clear_at, dispatch_at, finalize_at
  <2>3. script = game
    BY <1>7, <1>12
  <2> USE DEF i1, i2, i3, i4, i5, i6, i7, i8, i9, i10, i11, i12, i13, i14, i15, i16,
              r, b1, b2, b3, b4, b5, b6, b7, b8, c1, c2, c3, c4, c5, c6, c7, c8, c9,
              c10, c11, c12, d1, d2, d3, d4, d5, d6, d7, d8, d9, d10, d11, f1, f2,
              f3, f4, f5, f6, f7, f8, f9, f10, f11, f12, f13, f14, f15, f16, f17
  <2>4. StartSays
    BY <1>10, <1>12, <2>0, <2>1, <2>2, <2>3 DEF StartSays
  <2>5. BarrierSays
    BY <1>10, <1>12, <2>0, <2>1, <2>2, <2>3 DEF BarrierSays
  <2>6. ClearSays
    BY <1>10, <1>12, <2>0, <2>1, <2>2, <2>3 DEF ClearSays
  <2>7. DispatchSays
    BY <1>10, <1>12, <2>0, <2>1, <2>2, <2>3 DEF DispatchSays
  <2>8. FinalizeSays
    BY <1>10, <1>12, <2>0, <2>1, <2>2, <2>3 DEF FinalizeSays
  <2>9. Len(script) = finalize_at + 15 + 2 * ed
    BY <1>10, <2>0, <2>2, <2>3
  <2> QED BY <2>0, <2>1, <2>4, <2>5, <2>6, <2>7, <2>8, <2>9
<1> QED BY <1>11, <1>12

(* What the statements are                                                 *)
LEMMA Kinds ==
    \A to, fn, how :
       /\ CallTo(to, fn, how).do = "call" /\ RemoteCallTo(to, fn, how).do = "call"
       /\ WaitFor(to).do = "wait" /\ SpawnOf(to).do = "spawn" /\ LocalOf(fn).do = "local"
BY DEF CallTo, RemoteCallTo, WaitFor, SpawnOf, LocalOf

(* The statement i of the script is x: what x is, if it is a call, and if  *)
(* it is something the render thread does itself.                          *)
CallsOfStart(i, x) ==
    \/ Editor /\ i = 3 /\ x = CallTo("editor", "try_load_editor", "breaks")
    \/ i = 3 + 2 * ed /\ x = CallTo("editor", "create_device", "waits")
    \/ i = 7 + 2 * ed /\ x = CallTo("sound", "empty", "both")
    \/ Editor /\ i = 14 /\ x = CallTo("editor", "initialize_editor_thread_ids", "waits")
    \/ i = 12 + 3 * ed /\ x = CallTo("editor", "show_window", "both")
    \/ i = 13 + 3 * ed /\ x = CallTo("logic", "enable", "waits")
LocalsOfStart(i, x) ==
    \/ i = 1 /\ x = LocalOf("initialize_core")
    \/ i = 4 + 2 * ed /\ x = LocalOf("create_render")
    \/ i = 8 + 2 * ed /\ x = LocalOf("draw_frame")
    \/ i = run_at /\ x = LocalOf("run")
CallsOfBarrier(i, x) ==
    \/ i = run_at + 1 /\ x = CallTo("logic", "empty", "calls")
    \/ i = run_at + 2 /\ x = CallTo("network", "empty", "calls")
    \/ i = run_at + 3 /\ x = CallTo("sound", "empty", "calls")
    \/ i = run_at + 4 /\ x = CallTo("editor", "empty", "calls")
CallsOfClear(i, x) ==
    \/ i = clear_at + 1 /\ x = CallTo("logic", "logic_clear_resources", "calls")
    \/ i = clear_at + 2 /\ x = CallTo("network", "network_clear_resources", "calls")
    \/ i = clear_at + 3 /\ x = CallTo("sound", "sound_clear_resources", "calls")
    \/ Editor /\ i = clear_at + 4 /\ x = CallTo("editor", "editor_clear_resources", "calls")
    \/ Editor /\ i = clear_at + 11 /\ x = CallTo("editor", "delete_processed_orders", "calls")
    \/ i = clear_at + 10 + 2 * ed /\ x = CallTo("logic", "delete_processed_orders", "calls")
LocalsOfClear(i, x) ==
    \/ i = clear_at + 4 + ed /\ x = LocalOf("render_clear_resources")
    \/ i = clear_at + 9 + ed /\ x = LocalOf("purge_orders")
CallsOfDispatch(i, x) ==
    \/ i = dispatch_at + 2 /\ x = RemoteCallTo("logic", "thread_dispatch_callbacks", "calls")
    \/ i = dispatch_at + 3 /\ x = RemoteCallTo("network", "thread_dispatch_callbacks", "calls")
    \/ i = dispatch_at + 4 /\ x = RemoteCallTo("sound", "thread_dispatch_callbacks", "calls")
    \/ i = dispatch_at + 5 /\ x = RemoteCallTo("editor", "thread_dispatch_callbacks", "calls")
LocalsOfDispatch(i, x) ==
    \/ i = dispatch_at + 1 /\ x = LocalOf("dispatching")
    \/ i = dispatch_at + 6 /\ x = LocalOf("wait_and_dispatch_callbacks")
    \/ i = dispatch_at + 7 /\ x = LocalOf("dispatched")
CallsOfFinalize(i, x) ==
    \/ i = finalize_at + 1 /\ x = CallTo("logic", "finalize_logic_modules", "calls")
    \/ i = finalize_at + 2 /\ x = RemoteCallTo("logic", "finalize_thread_usage", "breaks")
    \/ i = finalize_at + 3 /\ x = CallTo("network", "destroy_network", "calls")
    \/ i = finalize_at + 4 /\ x = RemoteCallTo("network", "finalize_thread_usage", "breaks")
    \/ i = finalize_at + 5 /\ x = CallTo("sound", "destroy_sound", "calls")
    \/ i = finalize_at + 6 /\ x = RemoteCallTo("sound", "finalize_thread_usage", "breaks")
    \/ Editor /\ i = finalize_at + 7 /\ x = CallTo("editor", "unload_editor", "calls")
    \/ Editor /\ i = finalize_at + 8 /\ x = RemoteCallTo("editor", "finalize_thread_usage", "waits")
    \/ i = finalize_at + 12 + 2 * ed /\ x = CallTo("editor", "destroy_device", "waits")
    \/ i = finalize_at + 14 + 2 * ed /\ x = RemoteCallTo("editor", "empty", "both")
LocalsOfFinalize(i, x) ==
    \/ i = finalize_at + 11 + 2 * ed /\ x = LocalOf("wait_and_dispatch_callbacks")
    \/ i = finalize_at + 13 + 2 * ed /\ x = LocalOf("destroy_render")
    \/ i = finalize_at + 15 + 2 * ed /\ x = LocalOf("finalize_core")

LEMMA StatementAt ==
    ASSUME NEW i \in 1..Len(script)
    PROVE  /\ script[i].do = "call" =>
              \/ CallsOfStart(i, script[i]) \/ CallsOfBarrier(i, script[i])
              \/ CallsOfClear(i, script[i]) \/ CallsOfDispatch(i, script[i])
              \/ CallsOfFinalize(i, script[i])
           /\ script[i].do = "local" =>
              \/ LocalsOfStart(i, script[i]) \/ LocalsOfClear(i, script[i])
              \/ LocalsOfDispatch(i, script[i]) \/ LocalsOfFinalize(i, script[i])
<1>0. /\ ed \in 0..1 /\ (Editor <=> ed = 1) /\ run_at = 14 + 3 * ed
      /\ Len(script) = finalize_at + 15 + 2 * ed
  BY ScriptSays, EngineThreadsAssumption DEF ed
<1>1. CASE i \in 1..run_at
  <2>1. \/ i = 1 \/ (Editor /\ i = 2) \/ (Editor /\ i = 3) \/ i = 2 + 2 * ed
        \/ i = 3 + 2 * ed \/ i = 4 + 2 * ed \/ i = 5 + 2 * ed \/ i = 6 + 2 * ed
        \/ i = 7 + 2 * ed \/ i = 8 + 2 * ed \/ i = 9 + 2 * ed \/ i = 10 + 2 * ed
        \/ i = 11 + 2 * ed \/ (Editor /\ i = 14) \/ i = 12 + 3 * ed \/ i = 13 + 3 * ed
        \/ i = run_at
    BY <1>0, <1>1 DEF clear_at, dispatch_at, finalize_at
  <2>2. script[i].do = "call" => CallsOfStart(i, script[i])
    BY <2>1, ScriptSays, Kinds, SMTT(60) DEF StartSays, CallsOfStart
  <2>3. script[i].do = "local" => LocalsOfStart(i, script[i])
    BY <2>1, ScriptSays, Kinds, SMTT(60) DEF StartSays, LocalsOfStart
  <2> QED BY <2>2, <2>3
<1>2. CASE i \in run_at + 1..clear_at
  <2>1. \/ i = run_at + 1 \/ i = run_at + 2 \/ i = run_at + 3 \/ i = run_at + 4
        \/ i = run_at + 5 \/ i = run_at + 6 \/ i = run_at + 7 \/ i = run_at + 8
    BY <1>0, <1>2 DEF clear_at, dispatch_at, finalize_at
  <2>2. script[i].do = "call" => CallsOfBarrier(i, script[i])
    BY <2>1, ScriptSays, Kinds, SMTT(60) DEF BarrierSays, CallsOfBarrier
  <2>3. script[i].do # "local"
    BY <2>1, ScriptSays, Kinds DEF BarrierSays
  <2> QED BY <2>2, <2>3
<1>3. CASE i \in clear_at + 1..dispatch_at
  <2>1. \/ i = clear_at + 1 \/ i = clear_at + 2 \/ i = clear_at + 3
        \/ (Editor /\ i = clear_at + 4) \/ i = clear_at + 4 + ed
        \/ i = clear_at + 5 + ed \/ i = clear_at + 6 + ed \/ i = clear_at + 7 + ed
        \/ i = clear_at + 8 + ed \/ i = clear_at + 9 + ed
        \/ (Editor /\ i = clear_at + 11) \/ i = clear_at + 10 + 2 * ed
    BY <1>0, <1>3 DEF clear_at, dispatch_at, finalize_at
  <2>2. script[i].do = "call" => CallsOfClear(i, script[i])
    BY <2>1, ScriptSays, Kinds, SMTT(60) DEF ClearSays, CallsOfClear
  <2>3. script[i].do = "local" => LocalsOfClear(i, script[i])
    BY <2>1, ScriptSays, Kinds, SMTT(60) DEF ClearSays, LocalsOfClear
  <2> QED BY <2>2, <2>3
<1>4. CASE i \in dispatch_at + 1..finalize_at
  <2>1. \/ i = dispatch_at + 1 \/ i = dispatch_at + 2 \/ i = dispatch_at + 3
        \/ i = dispatch_at + 4 \/ i = dispatch_at + 5 \/ i = dispatch_at + 6
        \/ i = dispatch_at + 7 \/ i = dispatch_at + 8 \/ i = dispatch_at + 9
        \/ i = dispatch_at + 10 \/ i = dispatch_at + 11
    BY <1>0, <1>4 DEF clear_at, dispatch_at, finalize_at
  <2>2. script[i].do = "call" => CallsOfDispatch(i, script[i])
    BY <2>1, ScriptSays, Kinds, SMTT(60) DEF DispatchSays, CallsOfDispatch
  <2>3. script[i].do = "local" => LocalsOfDispatch(i, script[i])
    BY <2>1, ScriptSays, Kinds, SMTT(60) DEF DispatchSays, LocalsOfDispatch
  <2> QED BY <2>2, <2>3
<1>5. CASE i \in finalize_at + 1..Len(script)
  <2>1. \/ i = finalize_at + 1 \/ i = finalize_at + 2 \/ i = finalize_at + 3
        \/ i = finalize_at + 4 \/ i = finalize_at + 5 \/ i = finalize_at + 6
        \/ (Editor /\ i = finalize_at + 7) \/ (Editor /\ i = finalize_at + 8)
        \/ i = finalize_at + 7 + 2 * ed \/ i = finalize_at + 8 + 2 * ed
        \/ i = finalize_at + 9 + 2 * ed \/ i = finalize_at + 10 + 2 * ed
        \/ i = finalize_at + 11 + 2 * ed \/ i = finalize_at + 12 + 2 * ed
        \/ i = finalize_at + 13 + 2 * ed \/ i = finalize_at + 14 + 2 * ed
        \/ i = finalize_at + 15 + 2 * ed
    BY <1>0, <1>5 DEF clear_at, dispatch_at, finalize_at
  <2>2. CASE \/ i = finalize_at + 1 \/ i = finalize_at + 2 \/ i = finalize_at + 3
             \/ i = finalize_at + 4 \/ i = finalize_at + 5 \/ i = finalize_at + 6
    <3>1. script[i].do = "call" /\ CallsOfFinalize(i, script[i])
      BY <2>2, ScriptSays, Kinds, SMTT(60) DEF FinalizeSays, CallsOfFinalize
    <3> QED BY <3>1
  <2>3. CASE (Editor /\ i = finalize_at + 7) \/ (Editor /\ i = finalize_at + 8)
    <3>1. script[i].do = "call" /\ CallsOfFinalize(i, script[i])
      BY <2>3, ScriptSays, Kinds, SMTT(60) DEF FinalizeSays, CallsOfFinalize
    <3> QED BY <3>1
  <2>4. CASE \/ i = finalize_at + 7 + 2 * ed \/ i = finalize_at + 8 + 2 * ed
             \/ i = finalize_at + 9 + 2 * ed \/ i = finalize_at + 10 + 2 * ed
    <3>1. script[i].do = "wait"
      BY <2>4, ScriptSays, Kinds, SMTT(60) DEF FinalizeSays
    <3> QED BY <3>1
  <2>5. CASE i = finalize_at + 12 + 2 * ed \/ i = finalize_at + 14 + 2 * ed
    <3>1. script[i].do = "call" /\ CallsOfFinalize(i, script[i])
      BY <2>5, ScriptSays, Kinds, SMTT(60) DEF FinalizeSays, CallsOfFinalize
    <3> QED BY <3>1
  <2>6. CASE \/ i = finalize_at + 11 + 2 * ed \/ i = finalize_at + 13 + 2 * ed
             \/ i = finalize_at + 15 + 2 * ed
    <3>1. script[i].do = "local" /\ LocalsOfFinalize(i, script[i])
      BY <2>6, ScriptSays, Kinds, SMTT(60) DEF FinalizeSays, LocalsOfFinalize
    <3> QED BY <3>1
  <2> QED BY <2>1, <2>2, <2>3, <2>4, <2>5, <2>6
<1>6. \/ i \in 1..run_at
      \/ i \in run_at + 1..clear_at
      \/ i \in clear_at + 1..dispatch_at
      \/ i \in dispatch_at + 1..finalize_at
      \/ i \in finalize_at + 1..Len(script)
  BY <1>0 DEF clear_at, dispatch_at, finalize_at
<1> QED BY <1>1, <1>2, <1>3, <1>4, <1>5, <1>6

-----------------------------------------------------------------------------
(* Which call is on its way to a thread                                    *)

CallAt(t, i) == i \in 1..Len(script) /\ script[i].do = "call" /\ script[i].to = t
CallOf(i) == [fn |-> script[i].fn, break |-> script[i].break]

(* A call that is under way is that of the statement before the next one.  *)
CallerIsAt ==
    calling["render"] # Idle =>
       /\ calling["render"].to \in Spawned
       /\ CallAt(calling["render"].to, step - 1)
       /\ calling["render"].call = CallOf(step - 1)
       /\ calling["render"].wait = script[step - 1].wait

(* The slot of t has been filled by the call of statement i: since then t  *)
(* has not been waited for, nor called again but by the call that now waits*)
(* for the slot.                                                           *)
FilledAt(t, i) ==
    /\ i < step /\ CallAt(t, i) /\ m_callback[t] = CallOf(i)
    /\ i = step - 1 => ~Posting(t)
    /\ script[i].wait => i = step - 1 /\ calling["render"] # Idle
    /\ \A k \in i + 1..step - 1 :
          script[k] # WaitFor(t) /\ (CallAt(t, k) => k = step - 1 /\ Posting(t))
Filled == \A t \in Spawned : m_pending[t] => \E i \in 1..Len(script) : FilledAt(t, i)

(* The call of statement i has been made and t is still to execute it.     *)
Open(t, i) == \/ Posting(t) /\ i = step - 1
              \/ m_pending[t] /\ serving[t].at # "answer" /\ FilledAt(t, i)

LEMMA Fields ==
    \A to, fn, how :
       /\ CallTo(to, fn, how).do = "call" /\ RemoteCallTo(to, fn, how).do = "call"
       /\ CallTo(to, fn, how).to = to /\ RemoteCallTo(to, fn, how).to = to
       /\ CallTo(to, fn, how).fn = fn /\ RemoteCallTo(to, fn, how).fn = fn
       /\ ~CallTo(to, fn, how).remote_only /\ RemoteCallTo(to, fn, how).remote_only
       /\ WaitFor(to).do = "wait" /\ WaitFor(to).to = to
       /\ SpawnOf(to).do = "spawn" /\ SpawnOf(to).to = to
       /\ LocalOf(fn).do = "local" /\ LocalOf(fn).fn = fn
BY DEF CallTo, RemoteCallTo, WaitFor, SpawnOf, LocalOf

LEMMA Manners ==
    \A to, fn :
       /\ ~CallTo(to, fn, "calls").break /\ ~CallTo(to, fn, "calls").wait
       /\ CallTo(to, fn, "breaks").break /\ ~CallTo(to, fn, "breaks").wait
       /\ ~CallTo(to, fn, "waits").break /\ CallTo(to, fn, "waits").wait
       /\ CallTo(to, fn, "both").break /\ CallTo(to, fn, "both").wait
       /\ ~RemoteCallTo(to, fn, "calls").break /\ ~RemoteCallTo(to, fn, "calls").wait
       /\ RemoteCallTo(to, fn, "breaks").break /\ ~RemoteCallTo(to, fn, "breaks").wait
       /\ ~RemoteCallTo(to, fn, "waits").break /\ RemoteCallTo(to, fn, "waits").wait
       /\ RemoteCallTo(to, fn, "both").break /\ RemoteCallTo(to, fn, "both").wait
BY DEF CallTo, RemoteCallTo

(* The call of statement i to t, which is fn, is executed before the render*)
(* thread gets past the statement last.                                    *)
IsFor(t, i, to, at_, fn, last) == t = to /\ i = at_ /\ script[i].fn = fn /\ step <= last

WhileStarting(t, i) ==
    \/ Editor /\ IsFor(t, i, "editor", 3, "try_load_editor", 4) /\ script[i].break
    \/ IsFor(t, i, "editor", 3 + 2 * ed, "create_device", 4 + 2 * ed) /\ ~script[i].break
    \/ IsFor(t, i, "sound", 7 + 2 * ed, "empty", 8 + 2 * ed) /\ script[i].break
    \/ Editor /\ IsFor(t, i, "editor", 14, "initialize_editor_thread_ids", 15) /\ ~script[i].break
    \/ IsFor(t, i, "editor", 12 + 3 * ed, "show_window", 13 + 3 * ed) /\ script[i].break
    \/ IsFor(t, i, "logic", 13 + 3 * ed, "enable", run_at) /\ ~script[i].break
WhileSynchronizing(t, i) ==
    /\ ~script[i].break
    /\ \/ IsFor(t, i, "logic", run_at + 1, "empty", run_at + 5)
       \/ IsFor(t, i, "network", run_at + 2, "empty", run_at + 6)
       \/ IsFor(t, i, "sound", run_at + 3, "empty", run_at + 7)
       \/ IsFor(t, i, "editor", run_at + 4, "empty", run_at + 8)
WhileClearing(t, i) ==
    /\ ~script[i].break
    /\ \/ IsFor(t, i, "logic", clear_at + 1, "logic_clear_resources", clear_at + 5 + ed)
       \/ IsFor(t, i, "network", clear_at + 2, "network_clear_resources", clear_at + 6 + ed)
       \/ IsFor(t, i, "sound", clear_at + 3, "sound_clear_resources", clear_at + 7 + ed)
       \/ Editor /\ IsFor(t, i, "editor", clear_at + 4, "editor_clear_resources", clear_at + 8 + ed)
       \/ Editor /\ IsFor(t, i, "editor", clear_at + 11, "delete_processed_orders", dispatch_at + 6)
       \/ IsFor(t, i, "logic", clear_at + 10 + 2 * ed, "delete_processed_orders", dispatch_at + 3)
WhileDispatching(t, i) ==
    /\ ~script[i].break
    /\ \/ IsFor(t, i, "logic", dispatch_at + 2, "thread_dispatch_callbacks", dispatch_at + 8)
       \/ IsFor(t, i, "network", dispatch_at + 3, "thread_dispatch_callbacks", dispatch_at + 9)
       \/ IsFor(t, i, "sound", dispatch_at + 4, "thread_dispatch_callbacks", dispatch_at + 10)
       \/ IsFor(t, i, "editor", dispatch_at + 5, "thread_dispatch_callbacks", dispatch_at + 11)
WhileFinalizing(t, i) ==
    \/ IsFor(t, i, "logic", finalize_at + 1, "finalize_logic_modules", finalize_at + 3)
    \/ IsFor(t, i, "logic", finalize_at + 2, "finalize_thread_usage", finalize_at + 7 + 2 * ed)
    \/ IsFor(t, i, "network", finalize_at + 3, "destroy_network", finalize_at + 5)
    \/ IsFor(t, i, "network", finalize_at + 4, "finalize_thread_usage", finalize_at + 8 + 2 * ed)
    \/ IsFor(t, i, "sound", finalize_at + 5, "destroy_sound", finalize_at + 7)
    \/ IsFor(t, i, "sound", finalize_at + 6, "finalize_thread_usage", finalize_at + 9 + 2 * ed)
    \/ Editor /\ IsFor(t, i, "editor", finalize_at + 7, "unload_editor", finalize_at + 9)
    \/ Editor /\ IsFor(t, i, "editor", finalize_at + 8, "finalize_thread_usage", finalize_at + 9)
    \/ IsFor(t, i, "editor", finalize_at + 12 + 2 * ed, "destroy_device", finalize_at + 13 + 2 * ed)
    \/ IsFor(t, i, "editor", finalize_at + 14 + 2 * ed, "empty", finalize_at + 15 + 2 * ed)

LEMMA Parts ==
    /\ ed \in 0..1 /\ (Editor <=> ed = 1) /\ run_at = 14 + 3 * ed
    /\ clear_at = run_at + 8 /\ dispatch_at = clear_at + 10 + 2 * ed
    /\ finalize_at = dispatch_at + 11
    /\ Len(script) = finalize_at + 15 + 2 * ed /\ End = finalize_at + 16 + 2 * ed
BY ScriptSays, EngineThreadsAssumption DEF ed, clear_at, dispatch_at, finalize_at, End

(* The numbers of the statements, in the editor and in the game            *)
LEMMA Numbers ==
    \/ /\ Editor /\ ed = 1 /\ run_at = 17 /\ clear_at = 25 /\ dispatch_at = 37
       /\ finalize_at = 48 /\ Len(script) = 65 /\ End = 66
    \/ /\ ~Editor /\ ed = 0 /\ run_at = 14 /\ clear_at = 22 /\ dispatch_at = 32
       /\ finalize_at = 43 /\ Len(script) = 58 /\ End = 59
<1>1. CASE Editor
  BY <1>1, Parts
<1>2. CASE ~Editor
  <2>1. ed = 0
    BY <1>2, Parts
  <2> QED BY <1>2, <2>1, Parts
<1> QED BY <1>1, <1>2

(* How they follow one another                                             *)
LEMMA Bounds ==
    /\ ed \in Nat /\ run_at \in Nat /\ clear_at \in Nat /\ dispatch_at \in Nat
    /\ finalize_at \in Nat /\ Len(script) \in Nat /\ End \in Nat
    /\ 4 < run_at /\ 3 + 2 * ed < run_at /\ 8 + 2 * ed < run_at /\ 12 + 3 * ed < run_at
    /\ run_at < clear_at /\ clear_at < dispatch_at
    /\ dispatch_at < finalize_at /\ run_at < finalize_at /\ End = finalize_at + 16 + 2 * ed
<1>1. ed \in Nat /\ run_at = 14 + 3 * ed
  BY Parts
<1>2. /\ run_at \in Nat /\ 4 < run_at /\ 3 + 2 * ed < run_at /\ 8 + 2 * ed < run_at
      /\ 12 + 3 * ed < run_at
  BY <1>1
<1>3. clear_at \in Nat /\ run_at < clear_at
  BY <1>2, Parts
<1>4. dispatch_at \in Nat /\ clear_at < dispatch_at
  BY <1>1, <1>3, Parts
<1>5. finalize_at \in Nat /\ dispatch_at < finalize_at
  BY <1>4, Parts
<1>6. Len(script) \in Nat /\ End \in Nat
  BY <1>1, <1>5, Parts
<1>7. run_at < finalize_at
  BY <1>2, <1>3, <1>4, <1>5
<1> QED BY <1>1, <1>2, <1>3, <1>4, <1>5, <1>6, <1>7, Parts

LEMMA Order ==
    /\ ed \in 0..1 /\ run_at \in Nat /\ Len(script) \in Nat
    /\ clear_at = run_at + 8 /\ dispatch_at = clear_at + 10 + 2 * ed
    /\ finalize_at = dispatch_at + 11 /\ Len(script) = finalize_at + 15 + 2 * ed
BY Bounds, Parts

LEMMA InTime ==
    ASSUME Types, NEW t \in Spawned, NEW i, FilledAt(t, i)
    PROVE  /\ i \in 1..Len(script) /\ i < step /\ step \in Nat
           /\ \/ WhileStarting(t, i) \/ WhileSynchronizing(t, i) \/ WhileClearing(t, i)
              \/ WhileDispatching(t, i) \/ WhileFinalizing(t, i)
<1>0. /\ i \in 1..Len(script) /\ i < step /\ step \in 1..End /\ step \in Nat /\ i \in Nat
      /\ script[i].do = "call" /\ script[i].to = t
      /\ script[i].wait => step = i + 1
  BY Parts DEF FilledAt, CallAt, Types
<1>w. ASSUME NEW n \in Nat, i < n, n \in 1..Len(script), script[n] = WaitFor(t)
      PROVE  step <= n
  BY <1>0, <1>w DEF FilledAt
<1>c. ASSUME NEW n \in Nat, i < n, n \in 1..Len(script), script[n].do = "call", script[n].to = t
      PROVE  step <= n + 1
  BY <1>0, <1>c DEF FilledAt, CallAt
<1>1. CASE CallsOfStart(i, script[i])
  <2>1. CASE Editor /\ i = 3 /\ script[i] = CallTo("editor", "try_load_editor", "breaks")
    <3>1. script[4] = WaitFor("editor")
      BY <2>1, Parts, ScriptSays DEF StartSays
    <3>2. t = "editor" /\ script[i].fn = "try_load_editor" /\ script[i].break
      BY <1>0, <2>1, Fields, Manners
    <3>3. i < 4 /\ 4 \in 1..Len(script) /\ 4 \in Nat
      BY <1>0, <2>1, Parts
    <3>4. step <= 4
      BY <1>w, <3>1, <3>2, <3>3
    <3> QED BY <1>0, <2>1, <3>2, <3>4 DEF WhileStarting, IsFor
  <2>2. CASE i = 3 + 2 * ed /\ script[i] = CallTo("editor", "create_device", "waits")
    <3>1. t = "editor" /\ step = i + 1
      BY <1>0, <2>2, Fields, Manners
    <3> QED BY <1>0, <2>2, <3>1, Parts, Fields, Manners DEF WhileStarting, IsFor
  <2>3. CASE i = 7 + 2 * ed /\ script[i] = CallTo("sound", "empty", "both")
    BY <1>0, <2>3, Parts, Fields, Manners DEF WhileStarting, IsFor
  <2>4. CASE Editor /\ i = 14 /\ script[i] = CallTo("editor", "initialize_editor_thread_ids", "waits")
    BY <1>0, <2>4, Parts, Fields, Manners DEF WhileStarting, IsFor
  <2>5. CASE i = 12 + 3 * ed /\ script[i] = CallTo("editor", "show_window", "both")
    BY <1>0, <2>5, Parts, Fields, Manners DEF WhileStarting, IsFor
  <2>6. CASE i = 13 + 3 * ed /\ script[i] = CallTo("logic", "enable", "waits")
    BY <1>0, <2>6, Parts, Fields, Manners DEF WhileStarting, IsFor
  <2> QED BY <1>1, <2>1, <2>2, <2>3, <2>4, <2>5, <2>6 DEF CallsOfStart
<1>2. CASE CallsOfBarrier(i, script[i])
  <2>1. CASE i = run_at + 1 /\ script[i] = CallTo("logic", "empty", "calls")
    <3>1. script[run_at + 5] = WaitFor("logic")
      BY <2>1, Parts, ScriptSays DEF BarrierSays
    <3>2. t = "logic" /\ script[i].fn = "empty" /\ ~script[i].break
      BY <1>0, <2>1, Fields, Manners
    <3>3. i < run_at + 5 /\ run_at + 5 \in 1..Len(script) /\ run_at + 5 \in Nat
      BY <1>0, <2>1, Order
    <3>4. step <= run_at + 5
      BY <1>w, <3>1, <3>2, <3>3
    <3> QED BY <1>0, <2>1, <3>2, <3>4 DEF WhileSynchronizing, IsFor
  <2>2. CASE i = run_at + 2 /\ script[i] = CallTo("network", "empty", "calls")
    <3>1. script[run_at + 6] = WaitFor("network")
      BY <2>2, Parts, ScriptSays DEF BarrierSays
    <3>2. t = "network" /\ script[i].fn = "empty" /\ ~script[i].break
      BY <1>0, <2>2, Fields, Manners
    <3>3. i < run_at + 6 /\ run_at + 6 \in 1..Len(script) /\ run_at + 6 \in Nat
      BY <1>0, <2>2, Order
    <3>4. step <= run_at + 6
      BY <1>w, <3>1, <3>2, <3>3
    <3> QED BY <1>0, <2>2, <3>2, <3>4 DEF WhileSynchronizing, IsFor
  <2>3. CASE i = run_at + 3 /\ script[i] = CallTo("sound", "empty", "calls")
    <3>1. script[run_at + 7] = WaitFor("sound")
      BY <2>3, Parts, ScriptSays DEF BarrierSays
    <3>2. t = "sound" /\ script[i].fn = "empty" /\ ~script[i].break
      BY <1>0, <2>3, Fields, Manners
    <3>3. i < run_at + 7 /\ run_at + 7 \in 1..Len(script) /\ run_at + 7 \in Nat
      BY <1>0, <2>3, Order
    <3>4. step <= run_at + 7
      BY <1>w, <3>1, <3>2, <3>3
    <3> QED BY <1>0, <2>3, <3>2, <3>4 DEF WhileSynchronizing, IsFor
  <2>4. CASE i = run_at + 4 /\ script[i] = CallTo("editor", "empty", "calls")
    <3>1. script[run_at + 8] = WaitFor("editor")
      BY <2>4, Parts, ScriptSays DEF BarrierSays
    <3>2. t = "editor" /\ script[i].fn = "empty" /\ ~script[i].break
      BY <1>0, <2>4, Fields, Manners
    <3>3. i < run_at + 8 /\ run_at + 8 \in 1..Len(script) /\ run_at + 8 \in Nat
      BY <1>0, <2>4, Order
    <3>4. step <= run_at + 8
      BY <1>w, <3>1, <3>2, <3>3
    <3> QED BY <1>0, <2>4, <3>2, <3>4 DEF WhileSynchronizing, IsFor
  <2> QED BY <1>2, <2>1, <2>2, <2>3, <2>4 DEF CallsOfBarrier
<1>3. CASE CallsOfClear(i, script[i])
  <2>1. CASE i = clear_at + 1 /\ script[i] = CallTo("logic", "logic_clear_resources", "calls")
    <3>1. script[clear_at + 5 + ed] = WaitFor("logic")
      BY <2>1, Parts, ScriptSays DEF ClearSays
    <3>2. t = "logic" /\ script[i].fn = "logic_clear_resources" /\ ~script[i].break
      BY <1>0, <2>1, Fields, Manners
    <3>3. i < clear_at + 5 + ed /\ clear_at + 5 + ed \in 1..Len(script) /\ clear_at + 5 + ed \in Nat
      BY <1>0, <2>1, Order
    <3>4. step <= clear_at + 5 + ed
      BY <1>w, <3>1, <3>2, <3>3
    <3> QED BY <1>0, <2>1, <3>2, <3>4 DEF WhileClearing, IsFor
  <2>2. CASE i = clear_at + 2 /\ script[i] = CallTo("network", "network_clear_resources", "calls")
    <3>1. script[clear_at + 6 + ed] = WaitFor("network")
      BY <2>2, Parts, ScriptSays DEF ClearSays
    <3>2. t = "network" /\ script[i].fn = "network_clear_resources" /\ ~script[i].break
      BY <1>0, <2>2, Fields, Manners
    <3>3. i < clear_at + 6 + ed /\ clear_at + 6 + ed \in 1..Len(script) /\ clear_at + 6 + ed \in Nat
      BY <1>0, <2>2, Order
    <3>4. step <= clear_at + 6 + ed
      BY <1>w, <3>1, <3>2, <3>3
    <3> QED BY <1>0, <2>2, <3>2, <3>4 DEF WhileClearing, IsFor
  <2>3. CASE i = clear_at + 3 /\ script[i] = CallTo("sound", "sound_clear_resources", "calls")
    <3>1. script[clear_at + 7 + ed] = WaitFor("sound")
      BY <2>3, Parts, ScriptSays DEF ClearSays
    <3>2. t = "sound" /\ script[i].fn = "sound_clear_resources" /\ ~script[i].break
      BY <1>0, <2>3, Fields, Manners
    <3>3. i < clear_at + 7 + ed /\ clear_at + 7 + ed \in 1..Len(script) /\ clear_at + 7 + ed \in Nat
      BY <1>0, <2>3, Order
    <3>4. step <= clear_at + 7 + ed
      BY <1>w, <3>1, <3>2, <3>3
    <3> QED BY <1>0, <2>3, <3>2, <3>4 DEF WhileClearing, IsFor
  <2>4. CASE Editor /\ i = clear_at + 4 /\ script[i] = CallTo("editor", "editor_clear_resources", "calls")
    <3>1. script[clear_at + 8 + ed] = WaitFor("editor")
      BY <2>4, Parts, ScriptSays DEF ClearSays
    <3>2. t = "editor" /\ script[i].fn = "editor_clear_resources" /\ ~script[i].break
      BY <1>0, <2>4, Fields, Manners
    <3>3. i < clear_at + 8 + ed /\ clear_at + 8 + ed \in 1..Len(script) /\ clear_at + 8 + ed \in Nat
      BY <1>0, <2>4, Order
    <3>4. step <= clear_at + 8 + ed
      BY <1>w, <3>1, <3>2, <3>3
    <3> QED BY <1>0, <2>4, <3>2, <3>4 DEF WhileClearing, IsFor
  <2>5. CASE Editor /\ i = clear_at + 11 /\ script[i] = CallTo("editor", "delete_processed_orders", "calls")
    <3>1. script[dispatch_at + 5] = RemoteCallTo("editor", "thread_dispatch_callbacks", "calls")
      BY <2>5, Parts, ScriptSays DEF DispatchSays
    <3>2. t = "editor" /\ script[i].fn = "delete_processed_orders" /\ ~script[i].break
      BY <1>0, <2>5, Fields, Manners
    <3>3. i < dispatch_at + 5 /\ dispatch_at + 5 \in 1..Len(script) /\ dispatch_at + 5 \in Nat
      BY <1>0, <2>5, Order
    <3>4. step <= dispatch_at + 5 + 1
      BY <1>c, <3>1, <3>2, <3>3, Fields
    <3>5. step <= dispatch_at + 6
      BY <1>0, <3>3, <3>4, Parts
    <3> QED BY <1>0, <2>5, <3>2, <3>5 DEF WhileClearing, IsFor
  <2>6. CASE i = clear_at + 10 + 2 * ed /\ script[i] = CallTo("logic", "delete_processed_orders", "calls")
    <3>1. script[dispatch_at + 2] = RemoteCallTo("logic", "thread_dispatch_callbacks", "calls")
      BY <2>6, Parts, ScriptSays DEF DispatchSays
    <3>2. t = "logic" /\ script[i].fn = "delete_processed_orders" /\ ~script[i].break
      BY <1>0, <2>6, Fields, Manners
    <3>3. i < dispatch_at + 2 /\ dispatch_at + 2 \in 1..Len(script) /\ dispatch_at + 2 \in Nat
      BY <1>0, <2>6, Order
    <3>4. step <= dispatch_at + 2 + 1
      BY <1>c, <3>1, <3>2, <3>3, Fields
    <3>5. step <= dispatch_at + 3
      BY <1>0, <3>3, <3>4, Parts
    <3> QED BY <1>0, <2>6, <3>2, <3>5 DEF WhileClearing, IsFor
  <2> QED BY <1>3, <2>1, <2>2, <2>3, <2>4, <2>5, <2>6 DEF CallsOfClear
<1>4. CASE CallsOfDispatch(i, script[i])
  <2>1. CASE i = dispatch_at + 2 /\ script[i] = RemoteCallTo("logic", "thread_dispatch_callbacks", "calls")
    <3>1. script[dispatch_at + 8] = WaitFor("logic")
      BY <2>1, Parts, ScriptSays DEF DispatchSays
    <3>2. t = "logic" /\ script[i].fn = "thread_dispatch_callbacks" /\ ~script[i].break
      BY <1>0, <2>1, Fields, Manners
    <3>3. i < dispatch_at + 8 /\ dispatch_at + 8 \in 1..Len(script) /\ dispatch_at + 8 \in Nat
      BY <1>0, <2>1, Order
    <3>4. step <= dispatch_at + 8
      BY <1>w, <3>1, <3>2, <3>3
    <3> QED BY <1>0, <2>1, <3>2, <3>4 DEF WhileDispatching, IsFor
  <2>2. CASE i = dispatch_at + 3 /\ script[i] = RemoteCallTo("network", "thread_dispatch_callbacks", "calls")
    <3>1. script[dispatch_at + 9] = WaitFor("network")
      BY <2>2, Parts, ScriptSays DEF DispatchSays
    <3>2. t = "network" /\ script[i].fn = "thread_dispatch_callbacks" /\ ~script[i].break
      BY <1>0, <2>2, Fields, Manners
    <3>3. i < dispatch_at + 9 /\ dispatch_at + 9 \in 1..Len(script) /\ dispatch_at + 9 \in Nat
      BY <1>0, <2>2, Order
    <3>4. step <= dispatch_at + 9
      BY <1>w, <3>1, <3>2, <3>3
    <3> QED BY <1>0, <2>2, <3>2, <3>4 DEF WhileDispatching, IsFor
  <2>3. CASE i = dispatch_at + 4 /\ script[i] = RemoteCallTo("sound", "thread_dispatch_callbacks", "calls")
    <3>1. script[dispatch_at + 10] = WaitFor("sound")
      BY <2>3, Parts, ScriptSays DEF DispatchSays
    <3>2. t = "sound" /\ script[i].fn = "thread_dispatch_callbacks" /\ ~script[i].break
      BY <1>0, <2>3, Fields, Manners
    <3>3. i < dispatch_at + 10 /\ dispatch_at + 10 \in 1..Len(script) /\ dispatch_at + 10 \in Nat
      BY <1>0, <2>3, Order
    <3>4. step <= dispatch_at + 10
      BY <1>w, <3>1, <3>2, <3>3
    <3> QED BY <1>0, <2>3, <3>2, <3>4 DEF WhileDispatching, IsFor
  <2>4. CASE i = dispatch_at + 5 /\ script[i] = RemoteCallTo("editor", "thread_dispatch_callbacks", "calls")
    <3>1. script[dispatch_at + 11] = WaitFor("editor")
      BY <2>4, Parts, ScriptSays DEF DispatchSays
    <3>2. t = "editor" /\ script[i].fn = "thread_dispatch_callbacks" /\ ~script[i].break
      BY <1>0, <2>4, Fields, Manners
    <3>3. i < dispatch_at + 11 /\ dispatch_at + 11 \in 1..Len(script) /\ dispatch_at + 11 \in Nat
      BY <1>0, <2>4, Order
    <3>4. step <= dispatch_at + 11
      BY <1>w, <3>1, <3>2, <3>3
    <3> QED BY <1>0, <2>4, <3>2, <3>4 DEF WhileDispatching, IsFor
  <2> QED BY <1>4, <2>1, <2>2, <2>3, <2>4 DEF CallsOfDispatch
<1>5. CASE CallsOfFinalize(i, script[i])
  <2>1. CASE i = finalize_at + 1 /\ script[i] = CallTo("logic", "finalize_logic_modules", "calls")
    <3>1. script[finalize_at + 2] = RemoteCallTo("logic", "finalize_thread_usage", "breaks")
      BY <2>1, Parts, ScriptSays DEF FinalizeSays
    <3>2. t = "logic" /\ script[i].fn = "finalize_logic_modules" /\ ~script[i].break
      BY <1>0, <2>1, Fields, Manners
    <3>3. i < finalize_at + 2 /\ finalize_at + 2 \in 1..Len(script) /\ finalize_at + 2 \in Nat
      BY <1>0, <2>1, Order
    <3>4. step <= finalize_at + 2 + 1
      BY <1>c, <3>1, <3>2, <3>3, Fields
    <3>5. step <= finalize_at + 3
      BY <1>0, <3>3, <3>4, Parts
    <3> QED BY <1>0, <2>1, <3>2, <3>5 DEF WhileFinalizing, IsFor
  <2>2. CASE i = finalize_at + 2 /\ script[i] = RemoteCallTo("logic", "finalize_thread_usage", "breaks")
    <3>1. script[finalize_at + 7 + 2 * ed] = WaitFor("logic")
      BY <2>2, Parts, ScriptSays DEF FinalizeSays
    <3>2. t = "logic" /\ script[i].fn = "finalize_thread_usage" /\ script[i].break
      BY <1>0, <2>2, Fields, Manners
    <3>3. i < finalize_at + 7 + 2 * ed /\ finalize_at + 7 + 2 * ed \in 1..Len(script) /\ finalize_at + 7 + 2 * ed \in Nat
      BY <1>0, <2>2, Order
    <3>4. step <= finalize_at + 7 + 2 * ed
      BY <1>w, <3>1, <3>2, <3>3
    <3> QED BY <1>0, <2>2, <3>2, <3>4 DEF WhileFinalizing, IsFor
  <2>3. CASE i = finalize_at + 3 /\ script[i] = CallTo("network", "destroy_network", "calls")
    <3>1. script[finalize_at + 4] = RemoteCallTo("network", "finalize_thread_usage", "breaks")
      BY <2>3, Parts, ScriptSays DEF FinalizeSays
    <3>2. t = "network" /\ script[i].fn = "destroy_network" /\ ~script[i].break
      BY <1>0, <2>3, Fields, Manners
    <3>3. i < finalize_at + 4 /\ finalize_at + 4 \in 1..Len(script) /\ finalize_at + 4 \in Nat
      BY <1>0, <2>3, Order
    <3>4. step <= finalize_at + 4 + 1
      BY <1>c, <3>1, <3>2, <3>3, Fields
    <3>5. step <= finalize_at + 5
      BY <1>0, <3>3, <3>4, Parts
    <3> QED BY <1>0, <2>3, <3>2, <3>5 DEF WhileFinalizing, IsFor
  <2>4. CASE i = finalize_at + 4 /\ script[i] = RemoteCallTo("network", "finalize_thread_usage", "breaks")
    <3>1. script[finalize_at + 8 + 2 * ed] = WaitFor("network")
      BY <2>4, Parts, ScriptSays DEF FinalizeSays
    <3>2. t = "network" /\ script[i].fn = "finalize_thread_usage" /\ script[i].break
      BY <1>0, <2>4, Fields, Manners
    <3>3. i < finalize_at + 8 + 2 * ed /\ finalize_at + 8 + 2 * ed \in 1..Len(script) /\ finalize_at + 8 + 2 * ed \in Nat
      BY <1>0, <2>4, Order
    <3>4. step <= finalize_at + 8 + 2 * ed
      BY <1>w, <3>1, <3>2, <3>3
    <3> QED BY <1>0, <2>4, <3>2, <3>4 DEF WhileFinalizing, IsFor
  <2>5. CASE i = finalize_at + 5 /\ script[i] = CallTo("sound", "destroy_sound", "calls")
    <3>1. script[finalize_at + 6] = RemoteCallTo("sound", "finalize_thread_usage", "breaks")
      BY <2>5, Parts, ScriptSays DEF FinalizeSays
    <3>2. t = "sound" /\ script[i].fn = "destroy_sound" /\ ~script[i].break
      BY <1>0, <2>5, Fields, Manners
    <3>3. i < finalize_at + 6 /\ finalize_at + 6 \in 1..Len(script) /\ finalize_at + 6 \in Nat
      BY <1>0, <2>5, Order
    <3>4. step <= finalize_at + 6 + 1
      BY <1>c, <3>1, <3>2, <3>3, Fields
    <3>5. step <= finalize_at + 7
      BY <1>0, <3>3, <3>4, Parts
    <3> QED BY <1>0, <2>5, <3>2, <3>5 DEF WhileFinalizing, IsFor
  <2>6. CASE i = finalize_at + 6 /\ script[i] = RemoteCallTo("sound", "finalize_thread_usage", "breaks")
    <3>1. script[finalize_at + 9 + 2 * ed] = WaitFor("sound")
      BY <2>6, Parts, ScriptSays DEF FinalizeSays
    <3>2. t = "sound" /\ script[i].fn = "finalize_thread_usage" /\ script[i].break
      BY <1>0, <2>6, Fields, Manners
    <3>3. i < finalize_at + 9 + 2 * ed /\ finalize_at + 9 + 2 * ed \in 1..Len(script) /\ finalize_at + 9 + 2 * ed \in Nat
      BY <1>0, <2>6, Order
    <3>4. step <= finalize_at + 9 + 2 * ed
      BY <1>w, <3>1, <3>2, <3>3
    <3> QED BY <1>0, <2>6, <3>2, <3>4 DEF WhileFinalizing, IsFor
  <2>7. CASE Editor /\ i = finalize_at + 7 /\ script[i] = CallTo("editor", "unload_editor", "calls")
    <3>1. script[finalize_at + 8] = RemoteCallTo("editor", "finalize_thread_usage", "waits")
      BY <2>7, Parts, ScriptSays DEF FinalizeSays
    <3>2. t = "editor" /\ script[i].fn = "unload_editor" /\ ~script[i].break
      BY <1>0, <2>7, Fields, Manners
    <3>3. i < finalize_at + 8 /\ finalize_at + 8 \in 1..Len(script) /\ finalize_at + 8 \in Nat
      BY <1>0, <2>7, Order
    <3>4. step <= finalize_at + 8 + 1
      BY <1>c, <3>1, <3>2, <3>3, Fields
    <3>5. step <= finalize_at + 9
      BY <1>0, <3>3, <3>4, Parts
    <3> QED BY <1>0, <2>7, <3>2, <3>5 DEF WhileFinalizing, IsFor
  <2>8. CASE Editor /\ i = finalize_at + 8 /\ script[i] = RemoteCallTo("editor", "finalize_thread_usage", "waits")
    BY <1>0, <2>8, Parts, Fields, Manners DEF WhileFinalizing, IsFor
  <2>9. CASE i = finalize_at + 12 + 2 * ed /\ script[i] = CallTo("editor", "destroy_device", "waits")
    BY <1>0, <2>9, Parts, Fields, Manners DEF WhileFinalizing, IsFor
  <2>10. CASE i = finalize_at + 14 + 2 * ed /\ script[i] = RemoteCallTo("editor", "empty", "both")
    BY <1>0, <2>10, Parts, Fields, Manners DEF WhileFinalizing, IsFor
  <2> QED BY <1>5, <2>1, <2>2, <2>3, <2>4, <2>5, <2>6, <2>7, <2>8, <2>9, <2>10 DEF CallsOfFinalize
<1> QED BY <1>0, <1>1, <1>2, <1>3, <1>4, <1>5, StatementAt

(* What the functions need, create and destroy                             *)
NeedRender == {"initialize_editor_thread_ids", "draw_frame", "run", "render_clear_resources",
               "purge_orders", "delete_processed_orders", "destroy_device", "destroy_render",
               "initialize_logic_modules", "finalize_logic_modules", "unload_editor"}
NeedSound == {"initialize_logic_modules", "finalize_logic_modules", "sound_clear_resources",
              "destroy_sound", "editor_clear_resources"}
LEMMA FunctionsDo ==
    \A fn :
      /\ Needs(fn) \subseteq {"core", "render", "logic", "network", "sound", "editor"}
      /\ fn = "initialize_core" => Needs(fn) = {}
      /\ "render" \in Needs(fn) => fn \in NeedRender
      /\ "logic" \in Needs(fn) =>
            fn \in {"enable", "logic_clear_resources", "finalize_logic_modules"}
      /\ "network" \in Needs(fn) => fn \in {"network_clear_resources", "destroy_network"}
      /\ "sound" \in Needs(fn) => fn \in NeedSound
      /\ "editor" \in Needs(fn) => fn \in {"editor_clear_resources", "unload_editor"}
      /\ Creates(fn) = IF fn = "initialize_core" THEN {"core"}
                       ELSE IF fn = "try_load_editor" THEN {"editor"}
                       ELSE IF fn = "create_render" THEN {"render"}
                       ELSE IF fn = "initialize_logic_modules" THEN {"logic"} ELSE {}
      /\ Destroys(fn) = IF fn = "finalize_logic_modules" THEN {"logic"}
                        ELSE IF fn = "destroy_network" THEN {"network"}
                        ELSE IF fn = "destroy_sound" THEN {"sound"}
                        ELSE IF fn = "unload_editor" THEN {"editor"}
                        ELSE IF fn = "destroy_render" THEN {"render"}
                        ELSE IF fn = "finalize_core" THEN {"core"} ELSE {}
<1> TAKE fn
<1>1. /\ Needs(fn) \subseteq {"core", "render", "logic", "network", "sound", "editor"}
      /\ fn = "initialize_core" => Needs(fn) = {}
  BY DEF Needs
<1>2. /\ "render" \in Needs(fn) => fn \in NeedRender
      /\ "sound" \in Needs(fn) => fn \in NeedSound
  BY DEF Needs, NeedRender, NeedSound
<1>3. /\ "logic" \in Needs(fn) =>
            fn \in {"enable", "logic_clear_resources", "finalize_logic_modules"}
      /\ "network" \in Needs(fn) => fn \in {"network_clear_resources", "destroy_network"}
      /\ "editor" \in Needs(fn) => fn \in {"editor_clear_resources", "unload_editor"}
  BY DEF Needs
<1> QED BY <1>1, <1>2, <1>3 DEF Creates, Destroys

(* The first call of sound and editor, and the last use of the worlds.     *)
first_at(t) == IF t = "editor" THEN 3 ELSE 7 + 2 * ed
destroys_at == [logic |-> finalize_at + 1, network |-> finalize_at + 3,
                sound |-> finalize_at + 5, editor |-> finalize_at + 7]

(* When a call may be executed, and what it does.                          *)
LEMMA WhenExecuted ==
    ASSUME Types, NEW t \in Spawned, NEW i, FilledAt(t, i)
    PROVE  /\ 2 < i /\ step < End
           /\ t = "logic" => 12 + 3 * ed < i
           /\ t \in {"sound", "editor"} => first_at(t) <= i
           /\ script[i].break => \/ t = "sound" /\ i = 7 + 2 * ed
                                 \/ t = "editor" /\ i \in {3, 15}
                                 \/ i > finalize_at
<1>0. i \in Nat /\ step \in Nat /\ (t = "editor" => Editor)
  BY InTime, Numbers DEF Spawned
<1>1. CASE WhileStarting(t, i)
  BY <1>0, <1>1, Numbers DEF WhileStarting, IsFor, first_at
<1>2. CASE WhileSynchronizing(t, i)
  BY <1>0, <1>2, Numbers DEF WhileSynchronizing, IsFor, first_at
<1>3. CASE WhileClearing(t, i)
  BY <1>0, <1>3, Numbers DEF WhileClearing, IsFor, first_at
<1>4. CASE WhileDispatching(t, i)
  BY <1>0, <1>4, Numbers DEF WhileDispatching, IsFor, first_at
<1>5. CASE WhileFinalizing(t, i)
  BY <1>0, <1>5, Numbers DEF WhileFinalizing, IsFor, first_at
<1> QED BY <1>1, <1>2, <1>3, <1>4, <1>5, InTime

LEMMA WhatIsExecuted ==
    ASSUME Types, NEW t \in Spawned, NEW i, FilledAt(t, i)
    PROVE  /\ script[i].fn = "try_load_editor" <=> t = "editor" /\ i = 3
           /\ script[i].fn = "finalize_logic_modules" <=> t = "logic" /\ i = destroys_at[t]
           /\ script[i].fn = "destroy_network" <=> t = "network" /\ i = destroys_at[t]
           /\ script[i].fn = "destroy_sound" <=> t = "sound" /\ i = destroys_at[t]
           /\ script[i].fn = "unload_editor" <=> t = "editor" /\ i = destroys_at[t]
           /\ script[i].fn \notin {"initialize_core", "create_render", "initialize_logic_modules",
                                   "destroy_render", "finalize_core"}
           /\ i = destroys_at[t] => step <= finalize_at + 9
<1>0. i \in Nat /\ step \in Nat /\ (t = "editor" => Editor) /\ t \in {"logic", "network", "sound", "editor"}
  BY InTime, Numbers, SpawnedArePlaces DEF Spawned, Place
<1>d. /\ destroys_at["logic"] = finalize_at + 1 /\ destroys_at["network"] = finalize_at + 3
      /\ destroys_at["sound"] = finalize_at + 5 /\ destroys_at["editor"] = finalize_at + 7
  BY DEF destroys_at
<1>1. CASE WhileStarting(t, i)
  BY <1>0, <1>1, <1>d, Numbers DEF WhileStarting, IsFor
<1>2. CASE WhileSynchronizing(t, i)
  BY <1>0, <1>2, <1>d, Numbers DEF WhileSynchronizing, IsFor
<1>3. CASE WhileClearing(t, i)
  BY <1>0, <1>3, <1>d, Numbers DEF WhileClearing, IsFor
<1>4. CASE WhileDispatching(t, i)
  BY <1>0, <1>4, <1>d, Numbers DEF WhileDispatching, IsFor
<1>5. CASE WhileFinalizing(t, i)
  BY <1>0, <1>5, <1>d, Numbers DEF WhileFinalizing, IsFor
<1> QED BY <1>1, <1>2, <1>3, <1>4, <1>5, InTime

LEMMA WhenNeeded ==
    ASSUME Types, NEW t \in Spawned, NEW i, FilledAt(t, i)
    PROVE  /\ script[i].fn \in NeedRender =>
                 4 + 2 * ed < step /\ step <= finalize_at + 13 + 2 * ed
           /\ script[i].fn \in NeedSound =>
                 \/ t = "sound" /\ i <= destroys_at[t]
                 \/ t # "sound" /\ 9 + 2 * ed < step /\ step <= finalize_at + 5
           /\ script[i].fn \in {"enable", "logic_clear_resources", "finalize_logic_modules"} =>
                 t = "logic" /\ i <= destroys_at[t]
           /\ script[i].fn \in {"network_clear_resources", "destroy_network"} =>
                 t = "network" /\ i <= destroys_at[t]
           /\ script[i].fn \in {"editor_clear_resources", "unload_editor"} =>
                 t = "editor" /\ 3 < i /\ i <= destroys_at[t]
<1>0. i \in Nat /\ i < step /\ step \in Nat /\ (t = "editor" => Editor) /\ t \in {"logic", "network", "sound", "editor"}
  BY InTime, Numbers, SpawnedArePlaces DEF Spawned, Place
<1>d. /\ destroys_at["logic"] = finalize_at + 1 /\ destroys_at["network"] = finalize_at + 3
      /\ destroys_at["sound"] = finalize_at + 5 /\ destroys_at["editor"] = finalize_at + 7
  BY DEF destroys_at
<1>1. CASE WhileStarting(t, i)
  <2>1. (Editor /\ i = 14 /\ step <= 15) \/ script[i].fn \notin NeedRender
    BY <1>1 DEF WhileStarting, IsFor, NeedRender
  <2>2. script[i].fn \notin NeedSound
    BY <1>1 DEF WhileStarting, IsFor, NeedSound
<2> QED BY <1>0, <1>1, <1>d, <2>1, <2>2, Numbers DEF WhileStarting, IsFor
<1>2. CASE WhileSynchronizing(t, i)
  BY <1>0, <1>2, <1>d, Numbers DEF WhileSynchronizing, IsFor, NeedRender, NeedSound
<1>3. CASE WhileClearing(t, i)
  <2>1. 4 + 2 * ed < step /\ step <= finalize_at + 13 + 2 * ed
    BY <1>0, <1>3, Numbers DEF WhileClearing, IsFor
  <2>2. \/ script[i].fn \notin NeedSound
        \/ t = "sound" /\ i <= destroys_at[t]
        \/ t # "sound" /\ step <= finalize_at + 5 /\ clear_at < i
    BY <1>0, <1>3, <1>d, Numbers DEF WhileClearing, IsFor, NeedSound
<2> QED BY <1>0, <1>3, <1>d, <2>1, <2>2, Numbers DEF WhileClearing, IsFor
<1>4. CASE WhileDispatching(t, i)
  BY <1>0, <1>4, <1>d, Numbers DEF WhileDispatching, IsFor, NeedRender, NeedSound
<1>5. CASE WhileFinalizing(t, i)
  <2>1. finalize_at < step /\ (step <= finalize_at + 13 + 2 * ed \/ script[i].fn = "empty")
    BY <1>0, <1>5, Numbers DEF WhileFinalizing, IsFor
  <2>2. \/ script[i].fn \notin NeedSound
        \/ t = "sound" /\ i <= destroys_at[t]
        \/ t # "sound" /\ step <= finalize_at + 5
    BY <1>0, <1>5, <1>d, Numbers DEF WhileFinalizing, IsFor, NeedSound
  <2>3. "empty" \notin NeedRender
    BY DEF NeedRender
<2> QED BY <1>0, <1>5, <1>d, <2>1, <2>2, <2>3, Numbers DEF WhileFinalizing, IsFor
<1> QED BY <1>1, <1>2, <1>3, <1>4, <1>5, InTime

-----------------------------------------------------------------------------
(* How calls are made and answered                                         *)

(* The steps of the render thread, as far as calls are concerned           *)
Begins == /\ calling["render"] = Idle /\ step' = step + 1
          /\ script[step].to \in Spawned /\ CallAt(script[step].to, step)
          /\ RunStarts("render", script[step].to, CallOf(step), script[step].wait)
GoesPast == /\ calling["render"] = Idle /\ step' = step + 1 /\ UNCHANGED rpcVars
            /\ step \in 1..Len(script)
            /\ \A t \in Spawned : /\ CallAt(t, step) => script[step].fn = "enable"
                                  /\ script[step] = WaitFor(t) => ~m_pending[t]

LEMMA RenderGoes ==
    ASSUME Types, Render
    PROVE  \/ RenderProceeds /\ step' = step
           \/ Begins
           \/ GoesPast
           \/ UNCHANGED <<rpcVars, step>>
<1>1. CASE step' # step
  <2>1. /\ step' = step + 1 /\ step \in 1..Len(script) /\ calling["render"] = Idle
        /\ \A t \in Spawned : script[step] = [do |-> "wait", to |-> t] => ~m_pending[t]
    BY <1>1, Proceeding
  <2>2. CASE RenderCalls
    <3>1. script[step].do = "call" /\ script[step].to \in Spawned
      BY <2>2 DEF RenderCalls, RenderIsAt, InPlace
    <3>2. CASE IsMade(script[step])
      BY <2>1, <2>2, <3>1, <3>2 DEF RenderCalls, Begins, CallAt, CallOf
    <3>3. CASE ~IsMade(script[step])
      <4>1. script[step].fn = "enable" /\ UNCHANGED rpcVars
        BY <2>2, <3>3 DEF RenderCalls, IsMade
      <4> QED BY <2>1, <4>1 DEF GoesPast, WaitFor
    <3> QED BY <3>2, <3>3
  <2>3. CASE ~RenderCalls
    <3>1. UNCHANGED rpcVars
      BY <1>1, <2>3 DEF Render, RenderProceeds, RenderCallsInPlace, RenderWaits, RenderSpawns,
              RenderPerforms, RenderDraws, RenderLeavesRun, RenderSetsDispatched,
              RenderDispatches, RenderLooks, RenderHasDispatched, Dispatches, Looks, engine, manager
    <3>2. script[step].do = "call" => script[step].to \notin Spawned
      BY <1>1, <2>3 DEF Render, RenderProceeds, RenderCallsInPlace, RenderWaits, RenderSpawns,
              RenderPerforms, RenderDraws, RenderLeavesRun, RenderSetsDispatched, InPlace,
              RenderDispatches, RenderLooks, RenderHasDispatched, Dispatches, Looks, engine, manager, RenderIsAt, RenderIsAtLocal
    <3> QED BY <2>1, <3>1, <3>2 DEF GoesPast, CallAt, WaitFor
  <2> QED BY <2>2, <2>3
<1>2. CASE step' = step
  <2>1. step \in Nat
    BY Numbers DEF Types
  <2> QED BY <1>2, <2>1 DEF Render, RenderCalls, RenderCallsInPlace, RenderWaits, RenderSpawns,
              RenderPerforms, RenderDraws, RenderLeavesRun, RenderSetsDispatched, NextStep,
              RenderDispatches, RenderLooks, RenderHasDispatched, Dispatches, Looks
<1> QED BY <1>1, <1>2

LEMMA OneFilling ==
    ASSUME Types, NEW t, NEW i, NEW j, FilledAt(t, i), FilledAt(t, j)
    PROVE  i = j
<1>1. i \in Nat /\ j \in Nat /\ step \in Nat
  BY Numbers DEF FilledAt, CallAt, Types
<1>2. ASSUME NEW k \in Nat, NEW l \in Nat, FilledAt(t, k), FilledAt(t, l) PROVE ~(k < l)
  BY <1>1, <1>2 DEF FilledAt
<1> QED BY <1>1, <1>2

(* The only call that may not be made is the first one of the logic.       *)
LEMMA Enabling ==
    ASSUME NEW t \in Spawned, NEW i, CallAt(t, i), script[i].fn = "enable"
    PROVE  t = "logic" /\ i = 13 + 3 * ed
<1>1. CASE CallsOfStart(i, script[i])
  BY <1>1, Fields DEF CallsOfStart, CallAt
<1>2. CASE CallsOfBarrier(i, script[i])
  BY <1>2, Fields DEF CallsOfBarrier, CallAt
<1>3. CASE CallsOfClear(i, script[i])
  BY <1>3, Fields DEF CallsOfClear, CallAt
<1>4. CASE CallsOfDispatch(i, script[i])
  BY <1>4, Fields DEF CallsOfDispatch, CallAt
<1>5. CASE CallsOfFinalize(i, script[i])
  BY <1>5, Fields DEF CallsOfFinalize, CallAt
<1> QED BY <1>1, <1>2, <1>3, <1>4, <1>5, StatementAt DEF CallAt

(* What is in a slot stays there, and the call under way gets there.       *)
CallsAreKept ==
    /\ CallerIsAt'
    /\ \A t \in Spawned, i \in 1..Len(script) :
          m_pending[t] /\ FilledAt(t, i) => m_pending'[t] /\ FilledAt(t, i)'
    /\ \A t \in Spawned : m_pending'[t] =>
          m_pending[t] \/ (Posting(t) /\ step' = step /\ FilledAt(t, step - 1)')
    /\ \A t \in Spawned :
          \/ Posting(t)' /\ Posting(t) /\ step' = step
          \/ ~Posting(t)' /\ ~Posting(t)
          \/ ~Posting(t)' /\ Posting(t) /\ step' = step /\ m_pending'[t] /\ ~m_pending[t]
          \/ Posting(t)' /\ ~Posting(t) /\ step' = step + 1 /\ CallAt(t, step)

LEMMA GoingOn ==
    ASSUME RpcInv, RpcInv', ScriptAssumption, Types, CallerIsAt,
           RunWaits("render") \/ RunAsserts("render") \/ RunStores("render"), step' = step
    PROVE  CallsAreKept
<1>0. "render" \in Thread /\ RpcTypeOK /\ \A t \in Spawned : t \in Slot
  BY SpawnedArePlaces DEF RpcInv, ScriptAssumption, Place
<1>1. PICK from \in {"wait", "assert", "store"}, to \in {"assert", "store", "post", "failed"} :
            GoOn("render", from, to) /\ m_pending' = m_pending
  BY DEF RunWaits, RunAsserts, RunStores, slots
<1>2. /\ calling["render"] \in Calling /\ calling["render"].at = from /\ calling["render"] # Idle
      /\ calling'["render"].at = to /\ calling'["render"].to = calling["render"].to
      /\ calling'["render"].call = calling["render"].call /\ calling'["render"] # Idle
      /\ calling'["render"] = [calling["render"] EXCEPT !.at = to]
  <2>1. /\ calling["render"].at = from /\ calling["render"] \in {Idle} \cup Calling
        /\ calling' = [calling EXCEPT !["render"] = [calling["render"] EXCEPT !.at = to]]
    BY <1>0, <1>1 DEF GoOn, RpcTypeOK
  <2>2. calling["render"] # Idle /\ calling["render"] \in Calling
    BY <2>1 DEF Idle
  <2>3. calling'["render"] = [calling["render"] EXCEPT !.at = to]
    BY <1>0, <2>1 DEF RpcTypeOK
  <2> QED BY <2>1, <2>2, <2>3 DEF Calling, Idle
<1>3. calling'["render"].wait = calling["render"].wait
  BY <1>2 DEF Calling
<1>4. to # "failed"
  BY <1>0, <1>2 DEF RpcInv, CallerOwnsSlot
<1>5. \A t \in Spawned : Posting(t)' <=> Posting(t)
  BY <1>2, <1>4 DEF Posting
<1>6. \A t \in Spawned : m_pending[t] => m_callback'[t] = m_callback[t]
  <2>1. CASE RunStores("render")
    <3>1. ~m_pending[calling["render"].to]
      BY <1>0, <1>2, <2>1 DEF RpcInv, CallerOwnsSlot, RunStores, GoOn
    <3> QED BY <1>0, <2>1, <3>1 DEF RunStores, RpcTypeOK
  <2>2. CASE ~RunStores("render")
    BY <2>2 DEF RunWaits, RunAsserts, slots
  <2> QED BY <2>1, <2>2
<1>7. CallerIsAt'
  BY <1>2, <1>3 DEF CallerIsAt, CallAt, CallOf
<1>8. \A t \in Spawned, i \in 1..Len(script) :
          m_pending[t] /\ FilledAt(t, i) => m_pending'[t] /\ FilledAt(t, i)'
  BY <1>1, <1>2, <1>5, <1>6 DEF FilledAt, CallAt, CallOf
<1> QED BY <1>1, <1>5, <1>7, <1>8 DEF CallsAreKept

LEMMA PostingEnds ==
    ASSUME RpcInv, RpcInv', ScriptAssumption, Types, CallerIsAt, RunPosts("render"), step' = step
    PROVE  CallsAreKept
<1>0. "render" \in Thread /\ RpcTypeOK /\ \A t \in Spawned : t \in Slot
  BY SpawnedArePlaces DEF RpcInv, ScriptAssumption, Place
<1>p. calling["render"] # Idle /\ calling["render"].to \in Spawned
  BY <1>0, CallingCases DEF RunPosts, CallerIsAt
<1> PICK s \in Spawned : s = calling["render"].to
  BY <1>p
<1>1. /\ calling["render"] \in Calling /\ calling["render"].at = "post" /\ calling["render"] # Idle
      /\ m_pending' = [m_pending EXCEPT ![s] = TRUE]
      /\ calling' = [calling EXCEPT !["render"] =
                     IF calling["render"].wait THEN [calling["render"] EXCEPT !.at = "complete"] ELSE Idle]
      /\ m_callback' = m_callback
  BY <1>0, CallingCases DEF RunPosts
<1>2. /\ s \in Spawned /\ CallAt(s, step - 1) /\ calling["render"].call = CallOf(step - 1)
      /\ calling["render"].wait = script[step - 1].wait
  BY <1>1 DEF CallerIsAt
<1>3. ~m_pending[s] /\ m_callback[s] = CallOf(step - 1)
  BY <1>0, <1>1, <1>2 DEF RpcInv, CallerOwnsSlot
<1>4. IF calling["render"].wait
      THEN /\ calling'["render"].at = "complete" /\ calling'["render"] # Idle
           /\ calling'["render"].to = s /\ calling'["render"].call = calling["render"].call
           /\ calling'["render"].wait = calling["render"].wait
      ELSE calling'["render"] = Idle /\ calling'["render"].at = "idle"
  BY <1>0, <1>1 DEF RpcTypeOK, Calling, Idle
<1>5. /\ \A t \in Spawned : ~Posting(t)' /\ (Posting(t) <=> t = s)
      /\ m_pending'[s] /\ \A t \in Spawned \ {s} : m_pending'[t] = m_pending[t]
  BY <1>0, <1>1, <1>2, <1>4 DEF Posting, RpcTypeOK
<1>6. CallerIsAt'
  BY <1>1, <1>2, <1>4 DEF CallerIsAt, CallAt, CallOf
<1>7. ASSUME NEW t \in Spawned, NEW i \in 1..Len(script), m_pending[t], FilledAt(t, i)
      PROVE  m_pending'[t] /\ FilledAt(t, i)'
  <2>1. t # s /\ m_pending'[t] /\ step \in Nat /\ i \in Nat
    BY <1>3, <1>5, <1>7, Numbers DEF Types
  <2>2. ~script[i].wait
    BY <1>2, <1>7, <2>1 DEF FilledAt, CallAt
  <2>3. \A k \in i + 1..step - 1 : ~CallAt(t, k)
    BY <1>5, <1>7, <2>1 DEF FilledAt
  <2> QED BY <1>1, <1>5, <1>7, <2>1, <2>2, <2>3 DEF FilledAt, CallAt, CallOf
<1>8. FilledAt(s, step - 1)'
  <2>1. step \in Nat /\ (step - 1) + 1..step - 1 = {}
    BY Numbers DEF Types
  <2> QED BY <1>1, <1>2, <1>3, <1>4, <1>5, <2>1 DEF FilledAt, CallAt, CallOf
<1> QED BY <1>1, <1>2, <1>3, <1>5, <1>6, <1>7, <1>8 DEF CallsAreKept

LEMMA Completing ==
    ASSUME RpcInv, ScriptAssumption, Types, CallerIsAt, RunCompletes("render"), step' = step
    PROVE  CallsAreKept
<1>0. "render" \in Thread /\ RpcTypeOK
  BY DEF RpcInv, ScriptAssumption
<1>1. /\ calling["render"].at = "complete" /\ calling["render"] # Idle
      /\ ~m_pending[calling["render"].to] /\ calling'["render"] = Idle
      /\ UNCHANGED <<m_pending, m_callback>>
  BY <1>0, CallingCases DEF RunCompletes, slots, RpcTypeOK
<1>2. CallAt(calling["render"].to, step - 1)
  BY <1>1 DEF CallerIsAt
<1>3. \A t : ~Posting(t) /\ ~Posting(t)'
  BY <1>1 DEF Posting, Idle
<1>4. ASSUME NEW t \in Spawned, NEW i \in 1..Len(script), m_pending[t], FilledAt(t, i)
      PROVE  FilledAt(t, i)'
  <2>1. ~script[i].wait
    BY <1>1, <1>2, <1>4 DEF FilledAt, CallAt
  <2> QED BY <1>1, <1>3, <1>4, <2>1 DEF FilledAt, CallAt, CallOf
<1> QED BY <1>1, <1>3, <1>4 DEF CallsAreKept, CallerIsAt

LEMMA Beginning ==
    ASSUME RpcTypeOK, ScriptAssumption, Types, Begins
    PROVE  CallsAreKept
<1> DEFINE s == script[step].to
<1>0. "render" \in Thread /\ step \in Nat
  BY Numbers DEF ScriptAssumption, Types
<1>1. /\ calling["render"] = Idle /\ step' = step + 1 /\ s \in Spawned /\ CallAt(s, step)
      /\ calling'["render"] = [at |-> "wait", to |-> s, call |-> CallOf(step),
                               wait |-> script[step].wait]
      /\ UNCHANGED <<m_pending, m_callback>>
  BY <1>0 DEF Begins, RunStarts, slots, RpcTypeOK
<1>2. calling'["render"].at = "wait" /\ calling'["render"] # Idle
      /\ \A t : ~Posting(t) /\ (Posting(t)' <=> t = s)
  BY <1>1 DEF Posting, Idle
<1>3. CallerIsAt'
  BY <1>0, <1>1 DEF CallerIsAt, CallAt, CallOf
<1>4. ASSUME NEW t \in Spawned, NEW i \in 1..Len(script), m_pending[t], FilledAt(t, i)
      PROVE  FilledAt(t, i)'
  <2>1. /\ i < step /\ i \in Nat /\ CallAt(t, i) /\ m_callback[t] = CallOf(i) /\ ~script[i].wait
        /\ \A k \in i + 1..step - 1 : script[k] # WaitFor(t) /\ ~CallAt(t, k)
    BY <1>1, <1>2, <1>4 DEF FilledAt
  <2>2. script[step] # WaitFor(t) /\ (CallAt(t, step) => t = s)
    BY <1>1, Fields DEF CallAt
  <2>3. \A k \in i + 1..step : k = step \/ k \in i + 1..step - 1
    BY <1>0, <2>1
  <2>4. step + 1 - 1 = step
    BY <1>0
  <2> QED BY <1>0, <1>1, <1>2, <2>1, <2>2, <2>3, <2>4 DEF FilledAt, CallAt, CallOf
<1> QED BY <1>1, <1>2, <1>3, <1>4 DEF CallsAreKept

LEMMA GoingPast ==
    ASSUME Types, GoesPast
    PROVE  CallsAreKept
<1>0. step \in Nat
  BY Numbers DEF Types
<1>1. /\ calling["render"] = Idle /\ step' = step + 1
      /\ UNCHANGED <<calling, m_pending, m_callback>> /\ \A t : ~Posting(t) /\ ~Posting(t)'
  BY DEF GoesPast, rpcVars, slots, Posting, Idle
<1>2. ASSUME NEW t \in Spawned, NEW i \in 1..Len(script), m_pending[t], FilledAt(t, i)
      PROVE  FilledAt(t, i)'
  <2>1. /\ i < step /\ i \in Nat /\ CallAt(t, i) /\ m_callback[t] = CallOf(i) /\ ~script[i].wait
        /\ \A k \in i + 1..step - 1 : script[k] # WaitFor(t) /\ ~CallAt(t, k)
    BY <1>1, <1>2 DEF FilledAt
  <2>2. script[step] # WaitFor(t)
    BY <1>2 DEF GoesPast
  <2>3. ~CallAt(t, step)
    <3>1. SUFFICES ASSUME CallAt(t, step) PROVE FALSE
      OBVIOUS
    <3>2. t = "logic" /\ step = 13 + 3 * ed
      BY <3>1, Enabling DEF GoesPast
    <3>3. 12 + 3 * ed < i
      BY <1>2, <3>2, WhenExecuted
    <3> QED BY <2>1, <3>2, <3>3, Numbers
  <2>4. \A k \in i + 1..step : k = step \/ k \in i + 1..step - 1
    BY <1>0, <2>1
  <2>5. step + 1 - 1 = step
    BY <1>0
  <2> QED BY <1>0, <1>1, <2>1, <2>2, <2>3, <2>4, <2>5 DEF FilledAt, CallAt, CallOf
<1> QED BY <1>1, <1>2 DEF CallsAreKept, CallerIsAt

LEMMA RenderKeepsCalls ==
    ASSUME RpcInv, RpcInv', ScriptAssumption, Types, CallerIsAt, Render
    PROVE  CallsAreKept
<1>1. CASE RenderProceeds /\ step' = step
  BY <1>1, GoingOn, PostingEnds, Completing DEF RenderProceeds, RunProceeds
<1>2. CASE Begins
  BY <1>2, Beginning DEF RpcInv
<1>3. CASE GoesPast
  BY <1>3, GoingPast
<1>4. CASE UNCHANGED <<rpcVars, step>>
  BY <1>4 DEF rpcVars, slots, CallsAreKept, CallerIsAt, FilledAt, CallAt, CallOf, Posting
<1> QED BY <1>1, <1>2, <1>3, <1>4, RenderGoes

LEMMA OneFillingNext ==
    ASSUME step' \in Nat, NEW t, NEW i, NEW j, FilledAt(t, i)', FilledAt(t, j)'
    PROVE  i = j
<1>1. i \in Nat /\ j \in Nat
  BY DEF FilledAt, CallAt
<1>2. ASSUME NEW k \in Nat, NEW l \in Nat, FilledAt(t, k)', FilledAt(t, l)', k < l PROVE FALSE
  <2>1. l < step' /\ (l = step' - 1 => ~Posting(t)')
    BY <1>2 DEF FilledAt
  <2>2. CallAt(t, l)
    BY <1>2 DEF FilledAt, CallAt
  <2>3. l \in k + 1..step' - 1
    <3>1. PICK n \in Nat : n = step'
      OBVIOUS
    <3>2. k < l /\ l < n
      BY <1>2, <2>1, <3>1
    <3>3. l \in k + 1..n - 1
      BY <3>2
    <3> QED BY <3>1, <3>3
  <2>4. \A n \in k + 1..step' - 1 : CallAt(t, n) => n = step' - 1 /\ Posting(t)'
    BY <1>2 DEF FilledAt, CallAt
  <2> QED BY <2>1, <2>2, <2>3, <2>4
<1> QED BY <1>1, <1>2

(* A step of the render thread opens at most the call it makes.            *)
LEMMA RenderOpens ==
    ASSUME RpcInv, RpcInv', ScriptAssumption, Where, CallerIsAt, Filled, Render
    PROVE  /\ CallerIsAt' /\ Filled'
           /\ \A t \in Spawned : \A i : Open(t, i) => Open(t, i)'
           /\ \A t \in Spawned : \A i : Open(t, i)' => Open(t, i) \/ (step' = step + 1 /\ i = step)
           /\ \A t \in Spawned : \A i :
                 step' # step /\ i = step /\ CallAt(t, i) /\ script[i].fn # "enable"
                    => Open(t, i)'
           /\ \A t \in Spawned : \A i : m_pending[t] /\ FilledAt(t, i) => FilledAt(t, i)'
           /\ \A t \in Spawned : m_pending[t] \/ Posting(t) => m_pending'[t] \/ Posting(t)'
<1>0. Types /\ step \in Nat /\ step' \in Nat /\ serving' = serving /\ CallsAreKept
  <2>1. step \in 1..End /\ step' \in 1..End
    BY RenderStaysWhere DEF Where, Types, End
  <2> QED BY <2>1, RenderStaysWhere, RenderKeepsCalls, Numbers DEF Where
<1>1. CallerIsAt'
  BY <1>0 DEF CallsAreKept
<1>2. ASSUME NEW t \in Spawned, NEW i, FilledAt(t, i), m_pending[t]
      PROVE  m_pending'[t] /\ FilledAt(t, i)'
  BY <1>0, <1>2 DEF CallsAreKept, FilledAt, CallAt
<1>3. ASSUME NEW t \in Spawned, m_pending'[t]
      PROVE  \E i \in 1..Len(script) : /\ FilledAt(t, i)'
                                       /\ \/ m_pending[t] /\ FilledAt(t, i)
                                          \/ ~m_pending[t] /\ Posting(t) /\ step' = step /\ i = step - 1
  <2>1. CASE m_pending[t]
    BY <1>2, <1>3, <2>1 DEF Filled
  <2>2. CASE ~m_pending[t]
    <3>1. Posting(t) /\ step' = step /\ FilledAt(t, step - 1)'
      BY <1>0, <1>3, <2>2 DEF CallsAreKept
    <3>2. step - 1 \in 1..Len(script)
      BY <1>0, <3>1 DEF FilledAt, CallAt
    <3>3. (step - 1)' = step - 1
      BY <3>1
    <3> QED BY <2>2, <3>1, <3>2, <3>3
  <2> QED BY <2>1, <2>2
<1>4. Filled'
  BY <1>3 DEF Filled
<1>5. ASSUME NEW t \in Spawned, NEW i, Open(t, i) PROVE Open(t, i)'
  <2>1. CASE Posting(t) /\ i = step - 1 /\ Posting(t)'
    BY <1>0, <2>1 DEF CallsAreKept, Open
  <2>2. CASE Posting(t) /\ i = step - 1 /\ ~Posting(t)'
    <3>1. step' = step /\ m_pending'[t] /\ ~m_pending[t]
      BY <1>0, <2>2 DEF CallsAreKept
    <3>2. FilledAt(t, i)'
      BY <1>3, <2>2, <3>1
    <3>3. serving'[t].at # "answer"
      BY <1>0, <3>1, SpawnedArePlaces DEF RpcInv, CalleeKnowsCall, ScriptAssumption, Place
    <3> QED BY <3>1, <3>2, <3>3 DEF Open
  <2>3. CASE m_pending[t] /\ serving[t].at # "answer" /\ FilledAt(t, i)
    BY <1>0, <1>2, <2>3 DEF Open
  <2> QED BY <1>5, <2>1, <2>2, <2>3 DEF Open
<1>6. ASSUME NEW t \in Spawned, NEW i, Open(t, i)'
      PROVE  Open(t, i) \/ (step' = step + 1 /\ i = step)
  <2>1. CASE Posting(t)' /\ i = step' - 1
    <3>1. \/ Posting(t) /\ step' = step
          \/ step' = step + 1
      BY <1>0, <2>1 DEF CallsAreKept
    <3>2. CASE Posting(t) /\ step' = step
      <4>1. i = step - 1
        BY <2>1, <3>2
      <4> QED BY <3>2, <4>1 DEF Open
    <3>3. CASE step' = step + 1
      BY <1>0, <2>1, <3>3
    <3> QED BY <3>1, <3>2, <3>3
  <2>2. CASE m_pending'[t] /\ serving'[t].at # "answer" /\ FilledAt(t, i)'
    <3>1. PICK j \in 1..Len(script) :
             /\ FilledAt(t, j)'
             /\ \/ m_pending[t] /\ FilledAt(t, j)
                \/ ~m_pending[t] /\ Posting(t) /\ step' = step /\ j = step - 1
      BY <1>3, <2>2
    <3>2. i = j
      BY <1>0, <2>2, <3>1, OneFillingNext
    <3> QED BY <1>0, <2>2, <3>1, <3>2 DEF Open
  <2> QED BY <1>6, <2>1, <2>2 DEF Open
<1>7. ASSUME NEW t \in Spawned, NEW i,
             step' # step /\ i = step /\ CallAt(t, i) /\ script[i].fn # "enable"
      PROVE  Open(t, i)'
  <2>1. Begins
    <3>1. ~(RenderProceeds /\ step' = step) /\ ~UNCHANGED <<rpcVars, step>>
      BY <1>7
    <3> QED BY <1>0, <1>7, <3>1, RenderGoes DEF GoesPast
  <2>2. t = script[step].to /\ step' - 1 = i
    BY <1>0, <1>7, <2>1 DEF CallAt, Begins
  <2>3. Posting(t)'
    BY <2>1, <2>2 DEF Begins, RunStarts, Posting, RpcInv, RpcTypeOK, ScriptAssumption
  <2> QED BY <2>2, <2>3 DEF Open
<1>8. \A t \in Spawned : m_pending[t] \/ Posting(t) => m_pending'[t] \/ Posting(t)'
  BY RenderPosts
<1>9. \A t \in Spawned : \A i :
         step' # step /\ i = step /\ CallAt(t, i) /\ script[i].fn # "enable" => Open(t, i)'
  BY <1>7
<1> QED BY <1>1, <1>2, <1>4, <1>5, <1>6, <1>8, <1>9

-----------------------------------------------------------------------------
(* The steps of the other threads, as far as calls are concerned           *)

ExecutesOne(t) ==
    /\ serving[t].at = "execute" /\ serving'[t].at = "answer" /\ m_pending[t]
    /\ m_pending'[t] = m_pending[t] /\ at'[t] = at[t] /\ executed'[t] = m_callback[t]
AnswersOne(t) ==
    /\ serving[t].at = "answer" /\ at'[t] = at[t] /\ executed'[t] = executed[t] /\ ~m_pending'[t]
    /\ serving'[t].at = IF at[t] = "ahead" THEN "away" ELSE "decide"
DecidesOne(t) ==
    /\ serving[t].at = "decide" /\ at[t] \in InProcess
    /\ m_pending'[t] = m_pending[t] /\ executed'[t] = executed[t]
    /\ IF executed[t].break THEN serving'[t].at = "away" /\ at'[t] = AfterProcess(t)
                            ELSE serving'[t].at = "process" /\ at'[t] = at[t]
TakesOne(t) ==
    /\ m_pending'[t] = m_pending[t] /\ executed'[t] = executed[t]
    /\ serving[t].at \in {"away", "process"} /\ serving'[t].at \in {"process", "execute"}
    /\ \/ at[t] \in InProcess /\ at'[t] = at[t]
       \/ at[t] = "try" /\ at'[t] = "ahead"
LoopsOnce(t) ==
    /\ m_pending'[t] = m_pending[t] /\ executed'[t] = executed[t]
    /\ serving'[t] = serving[t]
    /\ \/ at'[t] = at[t]
       \/ serving[t].at = "away" /\ \/ at[t] = "init" /\ InitializeModules(t)
                                    \/ at[t] \in {"tick", "try"} /\ at'[t] = "ahead"
                                    \/ at[t] = "ahead" /\ at'[t] = "last"
                                    \/ at[t] = "ahead" /\ at'[t] \in {"tick", "try"}
                                       /\ ~m_destruction_started

LEMMA ThreadSteps ==
    ASSUME RpcInv, RpcTypeOK', ScriptAssumption, Where, NEW t \in Spawned, Runs(t)
    PROVE  /\ UNCHANGED <<m_callback, calling, step>>
           /\ \A u \in Spawned \ {t} : /\ executed'[u] = executed[u] /\ serving'[u] = serving[u]
                                      /\ at'[u] = at[u] /\ m_pending'[u] = m_pending[u]
           /\ m_pending'[t] => m_pending[t]
           /\ \/ ExecutesOne(t) /\ Perform(t, m_callback[t].fn)
              \/ /\ AnswersOne(t) \/ DecidesOne(t) \/ TakesOne(t) \/ LoopsOnce(t)
                 /\ worlds' = worlds \/ InitializeModules(t)
                 /\ queries' \subseteq queries
<1>0. /\ RpcTypeOK /\ PlacedAt(t) /\ Moves(t) /\ \A u \in Spawned : u \in Slot
      /\ executed \in [Slot -> Call \cup {none}] /\ DOMAIN serving = Slot
      /\ serving[t].at # "away" => serving[t] \in Serving
  BY ThreadStaysWhere, ServedWhere, ServingCases DEF Where, Placed, RpcInv, RpcTypeOK
<1>1. CASE ExecutesCall(t)
  <2>1. /\ serving[t].at = "execute" /\ serving' = [serving EXCEPT ![t] = [serving[t] EXCEPT !.at = "answer"]]
        /\ executed' = [executed EXCEPT ![t] = m_callback[t]]
        /\ UNCHANGED <<m_callback, m_pending, calling, step, at>> /\ Perform(t, m_callback[t].fn)
    BY <1>1 DEF ExecutesCall, Executes, Serve, slots
  <2>2. serving'[t].at = "answer" /\ m_pending[t]
    BY <1>0, <2>1 DEF Serving, RpcInv, CalleeKnowsCall
  <2> QED BY <1>0, <2>1, <2>2 DEF ExecutesOne
<1>2. CASE AnswersCall(t)
  <2>1. /\ serving[t].at = "answer"
        /\ serving' = [serving EXCEPT ![t] =
                         IF serving[t].loop THEN [serving[t] EXCEPT !.at = "decide"] ELSE Away]
        /\ m_pending' = [m_pending EXCEPT ![t] = FALSE]
        /\ UNCHANGED <<m_callback, calling, executed, engine>>
    BY <1>2 DEF AnswersCall, Answers
  <2>2. serving'[t].at = IF at[t] = "ahead" THEN "away" ELSE "decide"
    BY <1>0, <2>1 DEF PlacedAt, InProcess, Serving, Away
  <2>3. /\ m_pending[t] /\ ~m_pending'[t]
        /\ \A u \in Spawned \ {t} : m_pending'[u] = m_pending[u] /\ serving'[u] = serving[u]
    BY <1>0, <2>1 DEF RpcInv, CalleeKnowsCall, RpcTypeOK
  <2>4. AnswersOne(t)
    BY <1>0, <2>1, <2>2, <2>3 DEF AnswersOne, engine, manager
  <2> QED BY <2>1, <2>3, <2>4 DEF engine, manager
<1>3. CASE Decides(t)
  <2>1. /\ serving[t].at = "decide" /\ at[t] \in InProcess
        /\ serving' = [serving EXCEPT ![t] =
                         IF serving[t].break THEN Away ELSE [serving[t] EXCEPT !.at = "process"]]
        /\ UNCHANGED <<slots, calling, executed, step, worlds, manager>>
        /\ at' = IF serving'[t] = Away THEN [at EXCEPT ![t] = AfterProcess(t)] ELSE at
    BY <1>0, <1>3 DEF Decides, ProcessDecides, PlacedAt
  <2>2. serving[t].break = executed[t].break
    BY <1>0, <2>1 DEF RpcInv, CalleeKnowsCall
  <2>3. IF executed[t].break THEN serving'[t].at = "away" /\ serving'[t] = Away
                             ELSE serving'[t].at = "process" /\ serving'[t] # Away
    BY <1>0, <2>1, <2>2 DEF Serving, Away
  <2>4. IF executed[t].break THEN at'[t] = AfterProcess(t) ELSE at'[t] = at[t]
    BY <1>0, <2>1, <2>3 DEF Where, Types
  <2> QED BY <1>0, <2>1, <2>3, <2>4 DEF DecidesOne, Moves, slots, manager
<1>4. CASE EntersProcess(t) \/ Takes(t)
  <2>1. /\ serving[t].at \in {"away", "process"} /\ serving'[t].at \in {"process", "execute"}
        /\ UNCHANGED <<slots, calling, executed, engine>>
    BY <1>0, <1>4, ServedWhere DEF EntersProcess, Takes, ProcessStarts, ProcessTakes
  <2>2. at[t] \in InProcess
    BY <1>0, <1>4 DEF EntersProcess, Takes, ProcessTakes, PlacedAt, InProcess
  <2> QED BY <1>0, <2>1, <2>2 DEF TakesOne, Moves, slots, engine, manager
<1>5. CASE TriesCall(t)
  <2>1. /\ at[t] = "try" /\ at'[t] = "ahead"
        /\ UNCHANGED <<slots, calling, executed, step, worlds, manager>>
        /\ TryTakes(t) \/ UNCHANGED rpcVars
    BY <1>5 DEF TriesCall, TryTakes, Goes, rpcVars, Where, Types, slots
  <2>2. serving[t].at = "away"
    BY <1>0, <2>1, ServedWhere DEF PlacedAt, InProcess
  <2>3. serving'[t] = serving[t] \/ serving'[t].at = "execute"
    BY <1>0, <2>1 DEF TryTakes, rpcVars
  <2> QED BY <1>0, <2>1, <2>2, <2>3 DEF TakesOne, LoopsOnce, Moves, slots, manager
<1>6. CASE InitializeModules(t) \/ Tick(t) \/ LoopsOn(t)
  <2>1. /\ UNCHANGED <<rpcVars, step, manager>> /\ (worlds' = worlds \/ InitializeModules(t))
    BY <1>6 DEF InitializeModules, Tick, LoopsOn
  <2>2. \/ at[t] = "init" /\ InitializeModules(t)
        \/ at[t] \in {"tick", "try"} /\ at'[t] = "ahead"
        \/ at[t] = "ahead" /\ at'[t] = "last"
        \/ at[t] = "ahead" /\ at'[t] \in {"tick", "try"} /\ ~m_destruction_started
    BY <1>6 DEF InitializeModules, Tick, LoopsOn, Goes, Where, Types
  <2>3. serving[t].at = "away"
    <3>1. at[t] = "ahead" => LoopsOn(t)
      BY <1>6 DEF InitializeModules, Tick, Goes
    <3> QED BY <1>0, <2>2, <3>1, ServedWhere DEF LoopsOn, Away, PlacedAt, InProcess
  <2> QED BY <1>0, <2>1, <2>2, <2>3 DEF LoopsOnce, Moves, rpcVars, slots, manager
<1>7. CASE DispatchesInCall(t) \/ LooksInCall(t)
  BY <1>0, <1>7 DEF DispatchesInCall, LooksInCall, Dispatches, Looks, LoopsOnce, Moves, rpcVars, slots
<1> QED BY <1>1, <1>2, <1>3, <1>4, <1>5, <1>6, <1>7 DEF Runs

(* The threads leave the call under way and what is in the slots alone; a  *)
(* call that is executed is not open any more.                             *)
LEMMA ThreadKeeps ==
    ASSUME RpcInv, RpcTypeOK', ScriptAssumption, Where, CallerIsAt, Filled,
           NEW t \in Spawned, Runs(t)
    PROVE  /\ CallerIsAt' /\ Filled'
           /\ \A u, i : FilledAt(u, i)' <=> FilledAt(u, i)
           /\ \A u : Posting(u)' <=> Posting(u)
           /\ \A u \in Spawned \ {t} : \A i : Open(u, i)' <=> Open(u, i)
           /\ ~ExecutesOne(t) => \A i : Open(t, i)' <=> Open(t, i)
           /\ ExecutesOne(t) =>
                 \E i \in 1..Len(script) :
                    /\ FilledAt(t, i) /\ Open(t, i) /\ ~Open(t, i)'
                    /\ \A j : j # i => (Open(t, j)' <=> Open(t, j))
<1>1. /\ UNCHANGED <<m_callback, calling, step>>
      /\ \A u \in Spawned \ {t} : /\ serving'[u] = serving[u] /\ m_pending'[u] = m_pending[u]
      /\ m_pending'[t] => m_pending[t]
      /\ ExecutesOne(t) \/ AnswersOne(t) \/ DecidesOne(t) \/ TakesOne(t) \/ LoopsOnce(t)
  BY ThreadSteps
<1>2. \A u : Posting(u)' <=> Posting(u)
  BY <1>1 DEF Posting
<1>3. \A u, i : FilledAt(u, i)' <=> FilledAt(u, i)
  BY <1>1, <1>2 DEF FilledAt, CallAt, CallOf
<1>4. CallerIsAt' /\ Filled'
  BY <1>1, <1>3 DEF CallerIsAt, CallAt, CallOf, Filled
<1>5. \A u \in Spawned \ {t} : \A i : Open(u, i)' <=> Open(u, i)
  BY <1>1, <1>2, <1>3 DEF Open
<1>6. ASSUME ~ExecutesOne(t) PROVE \A i : Open(t, i)' <=> Open(t, i)
  <2>1. CASE AnswersOne(t)
    BY <1>1, <1>2, <2>1 DEF AnswersOne, Open
  <2>2. CASE DecidesOne(t) \/ TakesOne(t) \/ LoopsOnce(t)
    <3>1. m_pending'[t] = m_pending[t] /\ (serving'[t].at # "answer" <=> serving[t].at # "answer")
      BY <2>2 DEF DecidesOne, TakesOne, LoopsOnce
    <3> QED BY <1>1, <1>2, <1>3, <3>1 DEF Open
  <2> QED BY <1>1, <1>6, <2>1, <2>2
<1>7. ASSUME ExecutesOne(t)
      PROVE  \E i \in 1..Len(script) :
                    /\ FilledAt(t, i) /\ Open(t, i) /\ ~Open(t, i)'
                    /\ \A j : j # i => (Open(t, j)' <=> Open(t, j))
  <2>1. m_pending[t] /\ serving[t].at = "execute" /\ serving'[t].at = "answer"
    BY <1>7 DEF ExecutesOne
  <2>2. PICK i \in 1..Len(script) : FilledAt(t, i)
    BY <2>1 DEF Filled
  <2>3. Open(t, i)
    BY <2>1, <2>2 DEF Open
  <2>4. ~Open(t, i)'
    BY <1>1, <1>2, <2>1, <2>2 DEF Open, FilledAt
  <2>5. \A j : j # i => (Open(t, j)' <=> Open(t, j))
    <3>1. \A j : FilledAt(t, j) => j = i
      BY <2>2, OneFilling DEF Where
    <3> QED BY <1>1, <1>2, <2>1, <3>1 DEF Open
  <2> QED BY <2>2, <2>3, <2>4, <2>5
<1> QED BY <1>2, <1>3, <1>4, <1>5, <1>6, <1>7

(* A call that t is to execute is open, or a later one is still to come.   *)
LEMMA LaterOpens ==
    ASSUME Types, NEW t \in Spawned, NEW i, FilledAt(t, i), m_pending[t],
           serving[t].at # "answer", NEW n \in Nat, CallAt(t, n), i <= n
    PROVE  step <= n \/ Open(t, n)
<1>1. i \in Nat /\ step \in Nat
  BY InTime, Numbers
<1>2. CASE i = n
  BY <1>2 DEF Open
<1>3. CASE i < n /\ n < step
  <2>1. n \in i + 1..step - 1
    BY <1>1, <1>3
  <2>2. n = step - 1 /\ Posting(t)
    BY <2>1 DEF FilledAt
  <2> QED BY <2>2 DEF Open
<1> QED BY <1>1, <1>2, <1>3

(* Passing a call of t opens it, and nothing else changes what is open.    *)
LEMMA RenderReaches ==
    ASSUME RpcInv, RpcInv', ScriptAssumption, Where, CallerIsAt, Filled, Render,
           NEW t \in Spawned, NEW n, CallAt(t, n), script[n].fn # "enable"
    PROVE  (step <= n \/ Open(t, n))' <=> (step <= n \/ Open(t, n))
<1>1. /\ step \in Nat /\ n \in Nat /\ (step' = step \/ step' = step + 1)
  <2>1. step' # step => step' = step + 1
    BY Proceeding DEF Where
  <2> QED BY <2>1, Numbers DEF Where, Types, CallAt
<1>2. /\ Open(t, n) => Open(t, n)'
      /\ Open(t, n)' => Open(t, n) \/ (step' = step + 1 /\ n = step)
      /\ step' # step /\ n = step => Open(t, n)'
  BY RenderOpens
<1>3. step' <= n => step <= n
  BY <1>1
<1>4. step <= n => step' <= n \/ (step' # step /\ n = step)
  BY <1>1
<1> QED BY <1>1, <1>2, <1>3, <1>4

-----------------------------------------------------------------------------
(* Where the threads are when they serve which call                        *)

(* The thread has not yet executed its first call.                         *)
Fresh(t) == \/ at[t] \in {"unborn", "init"}
            \/ at[t] = "first" /\ serving[t].at \in {"away", "process", "execute"}

(* sound and editor leave their first rpc::process with their first call.  *)
Begun(t) ==
    t \in {"sound", "editor"} =>
       /\ Fresh(t) <=> (step <= first_at(t) \/ Open(t, first_at(t)))
       /\ at[t] = "first" /\ serving[t].at = "answer" => FilledAt(t, first_at(t))
       /\ at[t] = "first" /\ serving[t].at \in {"answer", "decide"} => executed[t].break

(* The thread has executed the call that ends rpc::process.                *)
Leaving(t, place) == /\ at[t] = place /\ serving[t].at \in {"answer", "decide"}
                     /\ executed[t].break

(* The editor runs when its window has been shown.                         *)
Shown ==
    "editor" \in Spawned /\ (at["editor"] \in {"run", "last", "done"} \/ Leaving("editor", "second"))
       => step > 15 /\ ~Open("editor", 15)

(* A thread ends when its use is finalized.                                *)
Ending(t) == at[t] = "done" \/ Leaving(t, "last") => step > finalize_at

(* A thread in its loop serves its last call there when the barrier waits  *)
(* for it, and the call to clear its resources when it has left the loop.  *)
Settling(t) == t # "editor" =>
    /\ at[t] = "ahead" /\ serving[t].at \in {"execute", "answer"} => step <= run_at + 4 + pos[t]
    /\ at[t] \notin {"last", "done"} /\ step > clear_at + pos[t] =>
          step <= clear_at + 4 + ed + pos[t] /\ (m_pending[t] \/ Posting(t))

Attending == /\ CallerIsAt /\ Filled /\ Shown
             /\ \A t \in Spawned : Begun(t) /\ Ending(t) /\ Settling(t)

LEMMA FirstCalls ==
    ASSUME NEW t \in Spawned, t \in {"sound", "editor"}
    PROVE  /\ CallAt(t, first_at(t)) /\ script[first_at(t)].break
           /\ script[first_at(t)].fn # "enable" /\ first_at(t) \in Nat
           /\ t = "editor" => first_at(t) = 3
           /\ t = "sound" => first_at(t) = 7 + 2 * ed /\ script[first_at(t)].wait
<1>1. CASE t = "editor"
  <2>1. script[3] = CallTo("editor", "try_load_editor", "breaks") /\ 3 \in 1..Len(script)
    BY <1>1, ScriptSays, Numbers DEF StartSays, Spawned
  <2> QED BY <1>1, <2>1, Fields, Manners DEF first_at, CallAt
<1>2. CASE t = "sound"
  <2>1. /\ script[7 + 2 * ed] = CallTo("sound", "empty", "both")
        /\ 7 + 2 * ed \in 1..Len(script) /\ 7 + 2 * ed \in Nat
    BY ScriptSays, Numbers DEF StartSays
  <2> QED BY <1>2, <2>1, Fields, Manners DEF first_at, CallAt
<1> QED BY <1>1, <1>2

(* A fresh thread executes its first call.                                 *)
LEMMA FreshExecutes ==
    ASSUME Types, NEW t \in Spawned, Begun(t), t \in {"sound", "editor"}, m_pending[t],
           serving[t].at # "answer", NEW i, FilledAt(t, i)
    PROVE  Fresh(t) <=> i = first_at(t)
<1>1. i \in Nat /\ step \in Nat /\ i < step /\ first_at(t) <= i /\ first_at(t) \in Nat
  BY InTime, Numbers, WhenExecuted, FirstCalls
<1>2. Fresh(t) <=> Open(t, first_at(t))
  BY <1>1 DEF Begun
<1>3. Open(t, first_at(t)) <=> i = first_at(t)
  <2>1. ~(Posting(t) /\ first_at(t) = step - 1) \/ i = first_at(t)
    BY <1>1 DEF FilledAt
  <2> QED BY <2>1, OneFilling DEF Open
<1> QED BY <1>2, <1>3

(* How the steps of a thread change whether it is fresh                    *)
LEMMA FreshSteps ==
    ASSUME RpcInv, RpcTypeOK', ScriptAssumption, Where, Attending,
           NEW t \in Spawned, Runs(t)
    PROVE  /\ \A u \in Spawned \ {t} : Fresh(u)' <=> Fresh(u)
           /\ ~ExecutesOne(t) /\ t \in {"sound", "editor"} => (Fresh(t)' <=> Fresh(t))
           /\ ExecutesOne(t) => ~Fresh(t)'
<1>0. /\ Begun(t) /\ Types /\ PlacedAt(t) /\ serving[t].at \in {"away", "process", "execute", "answer", "decide"}
  BY ServedWhere DEF Attending, Where, Placed, RpcInv
<1>1. /\ ExecutesOne(t) \/ AnswersOne(t) \/ DecidesOne(t) \/ TakesOne(t) \/ LoopsOnce(t)
      /\ \A u \in Spawned \ {t} : /\ serving'[u] = serving[u] /\ at'[u] = at[u]
  BY ThreadSteps
<1>2. \A u \in Spawned \ {t} : Fresh(u)' <=> Fresh(u)
  BY <1>1 DEF Fresh
<1>3. CASE ExecutesOne(t)
  <2>1. at[t] \notin {"unborn", "init"}
    BY <1>0, <1>3 DEF ExecutesOne, PlacedAt, InProcess
  <2> QED BY <1>2, <1>3, <2>1 DEF ExecutesOne, Fresh
<1>4. CASE AnswersOne(t)
  <2> QED BY <1>2, <1>4 DEF AnswersOne, ExecutesOne, Fresh
<1>5. CASE DecidesOne(t)
  <2>1. at[t] = "first" => executed[t].break
    BY <1>0, <1>5 DEF DecidesOne, Begun, PlacedAt
  <2>2. ~Fresh(t) /\ ~Fresh(t)'
    BY <1>5, <2>1 DEF DecidesOne, Fresh, AfterProcess, InProcess
  <2> QED BY <1>2, <1>5, <2>2 DEF DecidesOne, ExecutesOne
<1>6. CASE TakesOne(t)
  BY <1>2, <1>6 DEF TakesOne, ExecutesOne, Fresh, InProcess
<1>7. CASE LoopsOnce(t)
  <2>1. CASE at'[t] = at[t]
    BY <1>2, <1>7, <2>1 DEF LoopsOnce, ExecutesOne, Fresh
  <2>2. CASE at[t] = "init" /\ InitializeModules(t) /\ serving[t].at = "away"
    <3>1. at'[t] \in {"first", "ahead"} /\ (at'[t] = "ahead" => t \notin {"sound", "editor"})
      BY <2>2 DEF InitializeModules, Goes, Types, Where
    <3> QED BY <1>2, <1>7, <2>2, <3>1 DEF LoopsOnce, ExecutesOne, Fresh
  <2>3. CASE at[t] \in {"tick", "try", "ahead"} /\ at'[t] \in {"tick", "try", "ahead", "last"}
    BY <1>2, <1>7, <2>3 DEF LoopsOnce, ExecutesOne, Fresh
  <2> QED BY <1>7, <2>1, <2>2, <2>3 DEF LoopsOnce
<1> QED BY <1>1, <1>3, <1>4, <1>5, <1>6, <1>7

(* What the render thread leaves alone: where the threads are, but for the *)
(* one it spawns, and what they execute.                                   *)
LEMMA RenderLeavesThreads ==
    ASSUME Where, Render
    PROVE  /\ serving' = serving /\ executed' = executed
           /\ step \in Nat /\ (step' = step \/ step' = step + 1)
           /\ \A t \in Spawned : at'[t] = at[t] \/ (at[t] = "unborn" /\ at'[t] = "init")
<1>1. executed' = executed
  BY DEF Render, RenderCalls, RenderProceeds, RenderCallsInPlace, RenderWaits, RenderSpawns,
         RenderPerforms, RenderDraws, RenderLeavesRun, RenderSetsDispatched, RenderDispatches,
         RenderLooks, RenderHasDispatched, Dispatches, Looks, rpcVars, engine, manager, RunStarts, RunProceeds, RunWaits,
         RunAsserts, RunStores, RunPosts, RunCompletes
<1>2. \A t \in Spawned : at'[t] = at[t] \/ (at[t] = "unborn" /\ at'[t] = "init")
  <2>1. CASE at' = at
    BY <2>1
  <2>2. CASE RenderSpawns /\ at[script[step].to] = "unborn"
    <3>1. at' = [at EXCEPT ![script[step].to] = "init"] /\ at \in [Spawned -> Places]
      BY <2>2 DEF RenderSpawns, Where, Types
    <3> QED BY <2>2, <3>1
  <2> QED BY <2>1, <2>2, RenderStaysWhere
<1>3. step' # step => step' = step + 1
  BY Proceeding DEF Where
<1> QED BY <1>1, <1>2, <1>3, RenderStaysWhere, Numbers DEF Where, Types

LEMMA SettlingStatements ==
    ASSUME NEW t \in Spawned, t # "editor"
    PROVE  \E a \in Nat, b \in Nat, c \in Nat :
              /\ a = run_at + 4 + pos[t] /\ b = clear_at + pos[t] /\ c = clear_at + 4 + ed + pos[t]
              /\ a < b /\ b < c /\ c < dispatch_at
              /\ a \in 1..Len(script) /\ script[a] = WaitFor(t)
              /\ c \in 1..Len(script) /\ script[c] = WaitFor(t)
              /\ CallAt(t, b) /\ script[b].fn # "enable"
<1>0. /\ t \in {"logic", "network", "sound"}
      /\ pos["logic"] = 1 /\ pos["network"] = 2 /\ pos["sound"] = 3
  BY SpawnedArePlaces DEF pos, Place
<1>1. CASE t = "logic"
  <2>1. PICK a, b, c : a = run_at + 5 /\ b = clear_at + 1 /\ c = clear_at + 5 + ed
    OBVIOUS
  <2>2. /\ script[a] = WaitFor("logic") /\ script[c] = WaitFor("logic")
        /\ script[b] = CallTo("logic", "logic_clear_resources", "calls")
    BY <2>1, ScriptSays DEF BarrierSays, ClearSays
  <2>3. script[b].do = "call" /\ script[b].to = t /\ script[b].fn # "enable"
    BY <1>1, <2>2, Fields
  <2>4. /\ a = run_at + 4 + pos[t] /\ b = clear_at + pos[t] /\ c = clear_at + 4 + ed + pos[t]
        /\ a \in Nat /\ b \in Nat /\ c \in Nat /\ a < b /\ b < c /\ c < dispatch_at
        /\ a \in 1..Len(script) /\ b \in 1..Len(script) /\ c \in 1..Len(script)
    <3>1. pos[t] = 1
      BY <1>0, <1>1
    <3>2. /\ a \in Nat /\ b \in Nat /\ c \in Nat /\ a < b /\ b < c /\ c < dispatch_at
          /\ 1 <= a /\ dispatch_at < Len(script) /\ Len(script) \in Nat /\ dispatch_at \in Nat
      BY <2>1, Order
    <3>4. a \in 1..Len(script) /\ b \in 1..Len(script) /\ c \in 1..Len(script)
      BY <3>2
    <3>3. run_at + 4 + 1 = a /\ clear_at + 4 + ed + 1 = c
      BY <2>1, Numbers
    <3> QED BY <2>1, <3>1, <3>2, <3>3, <3>4
  <2> QED BY <1>1, <2>2, <2>3, <2>4 DEF CallAt
<1>2. CASE t = "network"
  <2>1. PICK a, b, c : a = run_at + 6 /\ b = clear_at + 2 /\ c = clear_at + 6 + ed
    OBVIOUS
  <2>2. /\ script[a] = WaitFor("network") /\ script[c] = WaitFor("network")
        /\ script[b] = CallTo("network", "network_clear_resources", "calls")
    BY <2>1, ScriptSays DEF BarrierSays, ClearSays
  <2>3. script[b].do = "call" /\ script[b].to = t /\ script[b].fn # "enable"
    BY <1>2, <2>2, Fields
  <2>4. /\ a = run_at + 4 + pos[t] /\ b = clear_at + pos[t] /\ c = clear_at + 4 + ed + pos[t]
        /\ a \in Nat /\ b \in Nat /\ c \in Nat /\ a < b /\ b < c /\ c < dispatch_at
        /\ a \in 1..Len(script) /\ b \in 1..Len(script) /\ c \in 1..Len(script)
    <3>1. pos[t] = 2
      BY <1>0, <1>2
    <3>2. /\ a \in Nat /\ b \in Nat /\ c \in Nat /\ a < b /\ b < c /\ c < dispatch_at
          /\ 1 <= a /\ dispatch_at < Len(script) /\ Len(script) \in Nat /\ dispatch_at \in Nat
      BY <2>1, Order
    <3>4. a \in 1..Len(script) /\ b \in 1..Len(script) /\ c \in 1..Len(script)
      BY <3>2
    <3>3. run_at + 4 + 2 = a /\ clear_at + 4 + ed + 2 = c
      BY <2>1, Numbers
    <3> QED BY <2>1, <3>1, <3>2, <3>3, <3>4
  <2> QED BY <1>2, <2>2, <2>3, <2>4 DEF CallAt
<1>3. CASE t = "sound"
  <2>1. PICK a, b, c : a = run_at + 7 /\ b = clear_at + 3 /\ c = clear_at + 7 + ed
    OBVIOUS
  <2>2. /\ script[a] = WaitFor("sound") /\ script[c] = WaitFor("sound")
        /\ script[b] = CallTo("sound", "sound_clear_resources", "calls")
    BY <2>1, ScriptSays DEF BarrierSays, ClearSays
  <2>3. script[b].do = "call" /\ script[b].to = t /\ script[b].fn # "enable"
    BY <1>3, <2>2, Fields
  <2>4. /\ a = run_at + 4 + pos[t] /\ b = clear_at + pos[t] /\ c = clear_at + 4 + ed + pos[t]
        /\ a \in Nat /\ b \in Nat /\ c \in Nat /\ a < b /\ b < c /\ c < dispatch_at
        /\ a \in 1..Len(script) /\ b \in 1..Len(script) /\ c \in 1..Len(script)
    <3>1. pos[t] = 3
      BY <1>0, <1>3
    <3>2. /\ a \in Nat /\ b \in Nat /\ c \in Nat /\ a < b /\ b < c /\ c < dispatch_at
          /\ 1 <= a /\ dispatch_at < Len(script) /\ Len(script) \in Nat /\ dispatch_at \in Nat
      BY <2>1, Order
    <3>4. a \in 1..Len(script) /\ b \in 1..Len(script) /\ c \in 1..Len(script)
      BY <3>2
    <3>3. run_at + 4 + 3 = a /\ clear_at + 4 + ed + 3 = c
      BY <2>1, Numbers
    <3> QED BY <2>1, <3>1, <3>2, <3>3, <3>4
  <2> QED BY <1>3, <2>2, <2>3, <2>4 DEF CallAt
<1> QED BY <1>0, <1>1, <1>2, <1>3

LEMMA RenderSettles ==
    ASSUME RpcInv, RpcInv', ScriptAssumption, Where, Attending, Render,
           NEW t \in Spawned
    PROVE  Settling(t)'
<1> SUFFICES ASSUME t # "editor" PROVE Settling(t)'
  BY DEF Settling
<1> PICK a \in Nat, b \in Nat, c \in Nat :
              /\ a = run_at + 4 + pos[t] /\ b = clear_at + pos[t] /\ c = clear_at + 4 + ed + pos[t]
              /\ a < b /\ b < c /\ c < dispatch_at
              /\ a \in 1..Len(script) /\ script[a] = WaitFor(t)
              /\ c \in 1..Len(script) /\ script[c] = WaitFor(t)
              /\ CallAt(t, b) /\ script[b].fn # "enable"
  BY SettlingStatements
<1>0. /\ Types /\ CallerIsAt /\ Filled /\ Settling(t)
  BY DEF Where, Attending
<1>1. /\ serving' = serving /\ step \in Nat /\ (step' = step \/ step' = step + 1)
      /\ at'[t] = at[t] \/ (at[t] = "unborn" /\ at'[t] = "init")
  BY RenderLeavesThreads
<1>2. step' # step /\ script[step] = WaitFor(t) => ~m_pending[t] /\ ~Posting(t)
  BY <1>0, Proceeding DEF WaitFor, Posting, Idle
<1>3. /\ at[t] = "ahead" /\ serving[t].at \in {"execute", "answer"} => step <= a
      /\ at[t] \notin {"last", "done"} /\ step > b => step <= c /\ (m_pending[t] \/ Posting(t))
  BY <1>0 DEF Settling
<1>4. ASSUME at'[t] = "ahead", serving'[t].at \in {"execute", "answer"} PROVE step' <= a
  <2>1. step <= a /\ m_pending[t]
    BY <1>1, <1>3, <1>4, ServedWhere DEF RpcInv, CalleeKnowsCall
  <2> QED BY <1>1, <1>2, <2>1
<1>5. ASSUME at'[t] \notin {"last", "done"}, step' > b
      PROVE  step' <= c /\ (m_pending'[t] \/ Posting(t)')
  <2>1. CASE step > b
    <3>1. step <= c /\ (m_pending[t] \/ Posting(t))
      BY <1>1, <1>3, <1>5, <2>1
    <3>2. m_pending'[t] \/ Posting(t)'
      BY <3>1, RenderPosts
    <3> QED BY <1>1, <1>2, <3>1, <3>2
  <2>2. CASE step = b /\ step' = step + 1
    <3>1. Open(t, b)'
      BY <1>0, <2>2, RenderOpens, step' # step
    <3> QED BY <2>2, <3>1 DEF Open
  <2> QED BY <1>1, <1>5, <2>1, <2>2
<1>6. /\ at'[t] = "ahead" /\ serving'[t].at \in {"execute", "answer"} => step' <= run_at + 4 + pos[t]
      /\ at'[t] \notin {"last", "done"} /\ step' > clear_at + pos[t] =>
          step' <= clear_at + 4 + ed + pos[t] /\ (m_pending'[t] \/ Posting(t)')
  BY <1>4, <1>5
<1> QED BY <1>6 DEF Settling, run_at, clear_at, ed, pos

LEMMA RenderAttends ==
    ASSUME RpcInv, RpcInv', ScriptAssumption, Where, Attending, Render
    PROVE  Attending'
<1>0. Types /\ CallerIsAt /\ Filled /\ RpcTypeOK
  BY DEF Where, Attending, RpcInv
<1>1. /\ serving' = serving /\ executed' = executed
      /\ step \in Nat /\ (step' = step \/ step' = step + 1)
      /\ \A t \in Spawned : at'[t] = at[t] \/ (at[t] = "unborn" /\ at'[t] = "init")
  BY RenderLeavesThreads
<1>2. CallerIsAt' /\ Filled'
  BY <1>0, RenderOpens
<1>3. ASSUME NEW t \in Spawned PROVE Begun(t)'
  <2> SUFFICES ASSUME t \in {"sound", "editor"} PROVE Begun(t)'
    BY DEF Begun
  <2> PICK n \in Nat : n = first_at(t)
    BY FirstCalls
  <2>0. CallAt(t, n) /\ script[n].fn # "enable" /\ Begun(t)
    BY FirstCalls DEF Attending
  <2>1. Fresh(t)' <=> Fresh(t)
    BY <1>1 DEF Fresh
  <2>2. (step <= n \/ Open(t, n))' <=> (step <= n \/ Open(t, n))
    BY <1>0, <2>0, RenderReaches
  <2>3. Fresh(t)' <=> (step <= n \/ Open(t, n))'
    BY <2>0, <2>1, <2>2 DEF Begun
  <2>4. at'[t] = "first" /\ serving'[t].at = "answer" => FilledAt(t, n)'
    <3> SUFFICES ASSUME at[t] = "first", serving[t].at = "answer" PROVE FilledAt(t, n)'
      BY <1>1
    <3>1. m_pending[t] /\ FilledAt(t, n)
      BY <1>0, <2>0, ServedWhere DEF Begun, RpcInv, CalleeKnowsCall
    <3> QED BY <1>0, <3>1, RenderOpens
  <2>5. at'[t] = "first" /\ serving'[t].at \in {"answer", "decide"} => executed'[t].break
    BY <1>1, <2>0 DEF Begun
  <2>6. first_at(t)' = n
    BY DEF first_at, ed
  <2> QED BY <2>3, <2>4, <2>5, <2>6 DEF Begun
<1>4. Shown'
  <2> SUFFICES ASSUME "editor" \in Spawned,
                      at'["editor"] \in {"run", "last", "done"} \/ Leaving("editor", "second")'
               PROVE  step' > 15 /\ ~Open("editor", 15)'
    BY DEF Shown
  <2>1. at["editor"] \in {"run", "last", "done"} \/ Leaving("editor", "second")
    BY <1>1 DEF Leaving
  <2>2. step > 15 /\ ~Open("editor", 15)
    BY <2>1 DEF Attending, Shown
  <2>3. Open("editor", 15)' => Open("editor", 15) \/ 15 = step
    BY <1>0, RenderOpens
  <2> QED BY <1>1, <2>2, <2>3
<1>5. ASSUME NEW t \in Spawned PROVE Ending(t)'
  <2> SUFFICES ASSUME at'[t] = "done" \/ Leaving(t, "last")' PROVE step' > finalize_at
    BY DEF Ending, finalize_at, dispatch_at, clear_at, run_at, ed
  <2>1. at[t] = "done" \/ Leaving(t, "last")
    BY <1>1 DEF Leaving
  <2>2. step > finalize_at
    BY <2>1 DEF Attending, Ending
  <2> QED BY <1>1, <2>2, Order
<1>6. \A t \in Spawned : Settling(t)'
  BY RenderSettles
<1> QED BY <1>2, <1>3, <1>4, <1>5, <1>6 DEF Attending

(* The call that ends rpc::process for good, and the ones that end the     *)
(* first rpc::process of sound and editor and the second one of the editor.*)
LEMMA BreaksWhere ==
    ASSUME RpcInv, ScriptAssumption, Where, Attending, NEW t \in Spawned, ExecutesOne(t),
           NEW i, FilledAt(t, i), m_callback[t].break
    PROVE  /\ at[t] # "first" /\ ~(t = "editor" /\ at[t] = "second" /\ i = 15) => step > finalize_at
           /\ at[t] = "last" => step > finalize_at /\ i > finalize_at
<1>0. /\ Types /\ Begun(t) /\ i \in Nat /\ i < step /\ step \in Nat /\ PlacedAt(t)
      /\ m_pending[t] /\ serving[t].at = "execute" /\ CallAt(t, i) /\ m_callback[t] = CallOf(i)
  <2>1. Types /\ PlacedAt(t) /\ Begun(t)
    BY DEF Where, Placed, Attending
  <2>2. i < step /\ CallAt(t, i) /\ m_callback[t] = CallOf(i) /\ i \in Nat
    BY DEF FilledAt, CallAt
  <2> QED BY <2>1, <2>2, Numbers DEF Types, ExecutesOne
<1>1. script[i].break
  BY <1>0 DEF CallOf
<1>2. \/ t = "sound" /\ i = 7 + 2 * ed
      \/ t = "editor" /\ i \in {3, 15}
      \/ i > finalize_at
  BY <1>0, <1>1, WhenExecuted
<1>3. t \in {"sound", "editor"} /\ at[t] # "first" => i # first_at(t)
  <2>1. t \in {"sound", "editor"} => (Fresh(t) <=> i = first_at(t))
    BY <1>0, FreshExecutes
  <2>2. at[t] \notin {"unborn", "init"}
    BY <1>0 DEF PlacedAt, InProcess
  <2> QED BY <2>1, <2>2 DEF Fresh
<1>4. at[t] # "first" => (t = "editor" /\ i = 15) \/ i > finalize_at
  BY <1>2, <1>3, FirstCalls
<1>5. t = "editor" /\ i = 15 /\ at[t] # "first" => at[t] = "second"
  <2> SUFFICES ASSUME t = "editor", i = 15, at[t] # "first" PROVE at[t] = "second"
    OBVIOUS
  <2>1. Open("editor", 15)
    BY <1>0 DEF Open
  <2>2. at["editor"] # "last"
    BY <2>1 DEF Attending, Shown
  <2> QED BY <1>0, <2>2 DEF PlacedAt, InProcess
<1>6. i > finalize_at => step > finalize_at
  BY <1>0, Order
<1> QED BY <1>4, <1>5, <1>6

LEMMA ThreadBegins ==
    ASSUME RpcInv, RpcTypeOK', ScriptAssumption, Where, Attending,
           NEW t \in Spawned, Runs(t), NEW u \in Spawned
    PROVE  Begun(u)'
<1> SUFFICES ASSUME u \in {"sound", "editor"} PROVE Begun(u)'
  BY DEF Begun
<1> PICK n \in Nat : n = first_at(u)
  BY FirstCalls
<1>0. /\ Types /\ CallerIsAt /\ Filled /\ Begun(u) /\ n = first_at(u) /\ step \in Nat
      /\ script[n].break /\ first_at(u)' = n
  BY FirstCalls, Numbers DEF Attending, Where, Types, first_at, ed
<1>1. /\ step' = step /\ \A v \in Spawned \ {t} : /\ executed'[v] = executed[v]
                                                 /\ serving'[v] = serving[v] /\ at'[v] = at[v]
      /\ \A i : FilledAt(u, i)' <=> FilledAt(u, i)
  BY <1>0, ThreadSteps, ThreadKeeps
<1>2. CASE u # t
  <2>1. (Fresh(u)' <=> Fresh(u)) /\ (Open(u, n)' <=> Open(u, n))
    BY <1>0, <1>2, FreshSteps, ThreadKeeps
  <2> QED BY <1>0, <1>1, <1>2, <2>1 DEF Begun
<1>3. CASE u = t /\ ~ExecutesOne(t)
  <2>1. (Fresh(u)' <=> Fresh(u)) /\ (Open(u, n)' <=> Open(u, n))
    BY <1>0, <1>3, FreshSteps, ThreadKeeps
  <2>2. AnswersOne(t) \/ DecidesOne(t) \/ TakesOne(t) \/ LoopsOnce(t)
    BY <1>3, ThreadSteps
  <2>3. /\ at'[u] = "first" /\ serving'[u].at \in {"answer", "decide"} =>
              at[u] = "first" /\ serving[u].at \in {"answer", "decide"} /\ executed'[u] = executed[u]
        /\ at'[u] = "first" /\ serving'[u].at = "answer" => at[u] = "first" /\ serving[u].at = "answer"
    <3>1. CASE LoopsOnce(t)
      <4>1. serving[t].at = "away" \/ at'[t] = at[t]
        BY <3>1 DEF LoopsOnce
      <4> QED BY <1>3, <3>1, <4>1 DEF LoopsOnce
    <3> QED BY <1>3, <2>2, <3>1 DEF AnswersOne, DecidesOne, TakesOne, AfterProcess
  <2> QED BY <1>0, <1>1, <2>1, <2>3 DEF Begun
<1>4. CASE u = t /\ ExecutesOne(t)
  <2>1. PICK i \in 1..Len(script) :
                    /\ FilledAt(t, i) /\ Open(t, i) /\ ~Open(t, i)'
                    /\ \A j : j # i => (Open(t, j)' <=> Open(t, j))
    BY <1>0, <1>4, ThreadKeeps
  <2>2. /\ m_pending[t] /\ serving[t].at = "execute" /\ serving'[t].at = "answer"
        /\ at'[t] = at[t] /\ executed'[t] = m_callback[t]
    BY <1>4 DEF ExecutesOne
  <2>3. ~Fresh(t)' /\ (Fresh(t) <=> i = n)
    BY <1>0, <1>4, <2>1, <2>2, FreshSteps, FreshExecutes
  <2>4. ~(step <= n \/ Open(t, n)')
    <3>1. CASE i = n
      BY <1>0, <2>1, <3>1 DEF FilledAt
    <3>2. CASE i # n
      BY <1>0, <1>4, <2>1, <2>3, <3>2 DEF Begun
    <3> QED BY <3>1, <3>2
  <2>5. at'[t] = "first" => FilledAt(t, n)' /\ executed'[t].break
    <3> SUFFICES ASSUME at[t] = "first" PROVE FilledAt(t, n)' /\ executed'[t].break
      BY <2>2
    <3>1. i = n
      BY <2>2, <2>3 DEF Fresh
    <3>2. FilledAt(t, n)' /\ FilledAt(t, n)
      BY <1>1, <1>4, <2>1, <3>1
    <3>3. m_callback[t] = CallOf(n)
      BY <3>2 DEF FilledAt
    <3> QED BY <1>0, <2>2, <3>2, <3>3 DEF CallOf
  <2> QED BY <1>0, <1>1, <1>4, <2>3, <2>4, <2>5 DEF Begun
<1> QED BY <1>2, <1>3, <1>4

LEMMA ThreadEnds ==
    ASSUME RpcInv, RpcTypeOK', ScriptAssumption, Where, Attending,
           NEW t \in Spawned, Runs(t)
    PROVE  Shown' /\ \A u \in Spawned : Ending(u)'
<1>0. /\ Types /\ CallerIsAt /\ Filled /\ Shown /\ step \in Nat
      /\ \A u \in Spawned : Ending(u)
  BY Numbers DEF Attending, Where, Types
<1>1. /\ step' = step
      /\ \A u \in Spawned \ {t} : /\ executed'[u] = executed[u]
                                 /\ serving'[u] = serving[u] /\ at'[u] = at[u]
      /\ ExecutesOne(t) \/ AnswersOne(t) \/ DecidesOne(t) \/ TakesOne(t) \/ LoopsOnce(t)
      /\ PlacedAt(t)
  BY ThreadSteps DEF Where, Placed
<1>2. \A u \in Spawned : \A i : Open(u, i)' => Open(u, i)
  <2>1. \A i : Open(t, i)' => Open(t, i)
    BY <1>0, ThreadKeeps
  <2> QED BY <1>0, <2>1, ThreadKeeps
<1>3. ASSUME ~ExecutesOne(t)
      PROVE  /\ Leaving(t, "second")' => Leaving(t, "second")
             /\ at'[t] \in {"run", "last", "done"} =>
                   at[t] \in {"run", "last", "done"} \/ Leaving(t, "second") \/ t # "editor"
             /\ at'[t] = "done" \/ Leaving(t, "last")' => at[t] = "done" \/ Leaving(t, "last")
  <2>1. CASE AnswersOne(t)
    BY <2>1 DEF AnswersOne, Leaving
  <2>2. CASE DecidesOne(t)
    BY <2>2 DEF DecidesOne, Leaving, AfterProcess, InProcess
  <2>3. CASE TakesOne(t)
    BY <2>3 DEF TakesOne, Leaving, InProcess
  <2>4. CASE LoopsOnce(t) /\ at'[t] = at[t]
    BY <2>4 DEF LoopsOnce, Leaving
  <2>5. CASE LoopsOnce(t) /\ at'[t] # at[t]
    <3>1. /\ serving[t].at = "away" /\ serving'[t].at = "away" /\ at'[t] # "done"
          /\ at'[t] = "last" => at[t] = "ahead"
          /\ at'[t] # "run"
      BY <2>5 DEF LoopsOnce, InitializeModules, Goes, Where, Types
    <3> QED BY <1>1, <3>1 DEF Leaving, PlacedAt
  <2> QED BY <1>1, <1>3, <2>1, <2>2, <2>3, <2>4, <2>5
<1>4. ASSUME ExecutesOne(t)
      PROVE  /\ at'[t] = at[t]
             /\ t = "editor" /\ Leaving(t, "second")' => step > 15 /\ ~Open("editor", 15)'
             /\ Leaving(t, "last")' => step > finalize_at
  <2>1. PICK i \in 1..Len(script) :
                    /\ FilledAt(t, i) /\ Open(t, i) /\ ~Open(t, i)'
                    /\ \A j : j # i => (Open(t, j)' <=> Open(t, j))
    BY <1>0, <1>4, ThreadKeeps
  <2>2. at'[t] = at[t] /\ executed'[t] = m_callback[t] /\ i < step /\ i \in Nat
    BY <1>4, <2>1 DEF ExecutesOne, FilledAt
  <2>3. ASSUME t = "editor", Leaving(t, "second")' PROVE step > 15 /\ ~Open("editor", 15)'
    <3>1. CASE i = 15
      BY <1>0, <2>1, <2>2, <2>3, <3>1
    <3>2. CASE i # 15
      <4>1. step > finalize_at
        BY <1>4, <2>1, <2>2, <2>3, <3>2, BreaksWhere DEF Leaving
      <4>2. step > 15 /\ step > 16
        BY <1>0, <4>1, Order
      <4>3. ~Open("editor", 15)
        BY <1>0, <2>1, <2>3, <3>2, <4>2, OneFilling DEF Open
      <4>4. \A j : Open(t, j)' => Open(t, j)
        BY <1>2
      <4> QED BY <2>3, <4>2, <4>3, <4>4
    <3> QED BY <3>1, <3>2
  <2>4. Leaving(t, "last")' => step > finalize_at
    BY <1>4, <2>1, <2>2, BreaksWhere DEF Leaving
  <2> QED BY <2>2, <2>3, <2>4
<1>5. Shown'
  <2> SUFFICES ASSUME "editor" \in Spawned,
                      at'["editor"] \in {"run", "last", "done"} \/ Leaving("editor", "second")'
               PROVE  step > 15 /\ ~Open("editor", 15)'
    BY <1>1 DEF Shown
  <2>1. CASE t = "editor" /\ ExecutesOne(t) /\ Leaving("editor", "second")'
    BY <1>4, <2>1
  <2>2. CASE ~(t = "editor" /\ ExecutesOne(t) /\ Leaving("editor", "second")')
    <3>1. at["editor"] \in {"run", "last", "done"} \/ Leaving("editor", "second")
      <4>1. CASE t # "editor"
        BY <1>1, <4>1 DEF Leaving
      <4>2. CASE t = "editor" /\ ExecutesOne(t)
        BY <1>4, <2>2, <4>2
      <4>3. CASE t = "editor" /\ ~ExecutesOne(t)
        BY <1>3, <4>3
      <4> QED BY <4>1, <4>2, <4>3
    <3> QED BY <1>0, <1>2, <3>1 DEF Shown
  <2> QED BY <2>1, <2>2
<1>6. ASSUME NEW u \in Spawned PROVE Ending(u)'
  <2> SUFFICES ASSUME at'[u] = "done" \/ Leaving(u, "last")' PROVE step > finalize_at
    BY <1>1 DEF Ending, finalize_at, dispatch_at, clear_at, run_at, ed
  <2>1. (at[u] = "done" \/ Leaving(u, "last")) => step > finalize_at
    BY <1>0 DEF Ending
  <2>2. CASE u # t
    BY <1>1, <2>1, <2>2 DEF Leaving
  <2>3. CASE u = t
    BY <1>3, <1>4, <2>1, <2>3 DEF ExecutesOne
  <2> QED BY <2>2, <2>3
<1> QED BY <1>5, <1>6

LEMMA ThreadSettles ==
    ASSUME RpcInv, RpcTypeOK', ScriptAssumption, Where, Stopping, Attending,
           NEW t \in Spawned, Runs(t), NEW u \in Spawned
    PROVE  Settling(u)'
<1> SUFFICES ASSUME u # "editor" PROVE Settling(u)'
  BY DEF Settling
<1> PICK a \in Nat, b \in Nat, c \in Nat :
              /\ a = run_at + 4 + pos[u] /\ b = clear_at + pos[u] /\ c = clear_at + 4 + ed + pos[u]
              /\ a < b /\ b < c /\ c < dispatch_at
              /\ a \in 1..Len(script) /\ script[a] = WaitFor(u)
              /\ c \in 1..Len(script) /\ script[c] = WaitFor(u)
              /\ CallAt(u, b) /\ script[b].fn # "enable"
  BY SettlingStatements
<1>0. /\ Types /\ CallerIsAt /\ Filled /\ Settling(u) /\ Begun(u) /\ step \in Nat /\ Awaited(u)
      /\ PlacedAt(u)
  <2>1. Types /\ CallerIsAt /\ Filled /\ Settling(u) /\ Begun(u)
    BY DEF Attending, Where
  <2>2. Awaited(u) /\ PlacedAt(u)
    BY DEF Where, Stopping, Placed
  <2>3. step \in Nat
    BY <2>1, Bounds DEF Types
  <2> QED BY <2>1, <2>2, <2>3
<1>1. /\ step' = step
      /\ \A v \in Spawned \ {t} : /\ serving'[v] = serving[v] /\ at'[v] = at[v]
                                 /\ m_pending'[v] = m_pending[v]
      /\ ExecutesOne(t) \/ AnswersOne(t) \/ DecidesOne(t) \/ TakesOne(t) \/ LoopsOnce(t)
      /\ Posting(u)' <=> Posting(u)
  BY <1>0, ThreadSteps, ThreadKeeps
<1>2. /\ at[u] = "ahead" /\ serving[u].at \in {"execute", "answer"} => step <= a
      /\ at[u] \notin {"last", "done"} /\ step > b => step <= c /\ (m_pending[u] \/ Posting(u))
  BY <1>0 DEF Settling
<1>3. at[u] \in Outside => step <= a
  <2>1. PICK p \in 1..4 : p = pos[u]
    BY <1>0, StepAndBarrier
  <2>2. run_at \in Nat /\ step \in Nat /\ p \in Nat
    <3>1. run_at \in Nat
      BY Bounds
    <3>2. p \in Nat
      BY <2>1
    <3> QED BY <1>0, <3>1, <3>2
  <2>3. step > run_at + p \/ step <= run_at + 4 + p
    BY <2>2
  <2>4. at[u] \in Outside => step <= run_at + 4 + p
    BY <1>0, <2>1, <2>3 DEF Awaited
  <2>5. a = run_at + 4 + p
    BY <2>1
  <2> QED BY <2>4, <2>5
<1>4. ASSUME at'[u] = "ahead", serving'[u].at \in {"execute", "answer"} PROVE step <= a
  <2>1. CASE u = t /\ TakesOne(t)
    BY <1>3, <1>4, <2>1 DEF TakesOne, InProcess, Outside
  <2>2. CASE ~(u = t /\ TakesOne(t))
    <3>1. at[u] = "ahead" /\ serving[u].at \in {"execute", "answer"}
      BY <1>1, <1>4, <2>2 DEF ExecutesOne, AnswersOne, DecidesOne, LoopsOnce
    <3> QED BY <1>2, <3>1
  <2> QED BY <2>1, <2>2
<1>5. ASSUME at'[u] \notin {"last", "done"}, step > b
      PROVE  step <= c /\ (m_pending'[u] \/ Posting(u)')
  <2>1. at[u] \notin {"last", "done"}
    <3>1. CASE u = t /\ LoopsOnce(t)
      <4>1. at'[t] = at[t] \/ at[t] \in {"init", "tick", "try", "ahead"}
        BY <3>1 DEF LoopsOnce
      <4> QED BY <1>5, <3>1, <4>1
    <3>2. CASE ~(u = t /\ LoopsOnce(t))
      BY <1>1, <1>5, <3>2 DEF ExecutesOne, AnswersOne, DecidesOne, TakesOne, AfterProcess, InProcess
    <3> QED BY <3>1, <3>2
  <2>2. ~(u = t /\ AnswersOne(t))
    <3> SUFFICES ASSUME u = t, AnswersOne(t) PROVE FALSE
      OBVIOUS
    <3>1. serving[u].at = "answer" /\ at[u] \in {"first", "ahead"}
      BY <1>0, <2>1 DEF AnswersOne, PlacedAt, InProcess
    <3>2. at[u] # "ahead"
      BY <1>0, <1>2, <1>5, <3>1
    <3>3. u = "sound" /\ FilledAt(u, first_at(u))
      BY <1>0, <3>1, <3>2 DEF PlacedAt, Begun
    <3>4. first_at(u) = step - 1 /\ first_at(u) = 7 + 2 * ed
      BY <3>3, FirstCalls DEF FilledAt
    <3>5. b = clear_at + pos[u] /\ pos[u] = 3
      BY <3>3 DEF pos
    <3>6. step \in Nat /\ ed \in Nat /\ 8 + 2 * ed < run_at
      BY <1>0, Bounds
    <3>7. step < run_at
      <4>1. step - 1 = 7 + 2 * ed
        BY <3>4
      <4> QED BY <3>6, <4>1
    <3>8. run_at < b /\ run_at \in Nat /\ b \in Nat
      <4>1. run_at \in Nat /\ clear_at \in Nat /\ run_at < clear_at
        BY Bounds
      <4> QED BY <3>5, <4>1
    <3> QED BY <1>0, <1>5, <3>7, <3>8
  <2>3. step <= c /\ (m_pending[u] \/ Posting(u))
    BY <1>2, <1>5, <2>1
  <2>4. m_pending'[u] = m_pending[u]
    BY <1>1, <2>2 DEF ExecutesOne, DecidesOne, TakesOne, LoopsOnce
  <2> QED BY <1>1, <2>3, <2>4
<1>6. /\ at'[u] = "ahead" /\ serving'[u].at \in {"execute", "answer"} => step' <= run_at + 4 + pos[u]
      /\ at'[u] \notin {"last", "done"} /\ step' > clear_at + pos[u] =>
          step' <= clear_at + 4 + ed + pos[u] /\ (m_pending'[u] \/ Posting(u)')
  BY <1>1, <1>4, <1>5
<1> QED BY <1>6 DEF Settling, run_at, clear_at, ed, pos

LEMMA ThreadAttends ==
    ASSUME RpcInv, RpcTypeOK', ScriptAssumption, Where, Stopping, Attending,
           NEW t \in Spawned, Runs(t)
    PROVE  Attending'
<1>1. CallerIsAt' /\ Filled'
  BY ThreadKeeps DEF Attending
<1> QED BY <1>1, ThreadBegins, ThreadEnds, ThreadSettles DEF Attending

LEMMA QuitsAttend ==
    ASSUME RpcInv, ScriptAssumption, Where, Attending, Quits
    PROVE  Attending'
<1>1. /\ UNCHANGED <<m_callback, m_pending, calling, serving, executed, step>>
      /\ \A t \in Spawned : at'[t] = at[t] \/ (t = "editor" /\ at[t] = "run" /\ at'[t] = "last")
      /\ \A t \in Spawned : serving[t].at \in {"answer", "decide"} => at[t] # "run"
  BY QuitsWhere DEF RpcInv, rpcVars, slots, Where, Placed, PlacedAt, InProcess
<1>2. /\ \A t : Posting(t)' <=> Posting(t)
      /\ \A t, i : (FilledAt(t, i)' <=> FilledAt(t, i)) /\ (Open(t, i)' <=> Open(t, i))
  BY <1>1 DEF Posting, FilledAt, Open, CallAt, CallOf
<1>3. CallerIsAt' /\ Filled'
  BY <1>1, <1>2 DEF Attending, CallerIsAt, CallAt, CallOf, Filled
<1>4. ASSUME NEW t \in Spawned PROVE Begun(t)'
  <2>1. Begun(t) /\ first_at(t)' = first_at(t) /\ (Fresh(t)' <=> Fresh(t))
    BY <1>1 DEF Attending, first_at, ed, Fresh
  <2>2. Open(t, first_at(t))' <=> Open(t, first_at(t))
    <3>1. PICK n : n = first_at(t)
      OBVIOUS
    <3> QED BY <1>2, <2>1, <3>1
  <2> QED BY <1>1, <1>2, <2>1, <2>2 DEF Begun
<1>5. Shown'
  BY <1>1, <1>2 DEF Attending, Shown, Leaving
<1>6. ASSUME NEW t \in Spawned PROVE Ending(t)' /\ Settling(t)'
  <2>1. Ending(t) /\ Settling(t)
    BY DEF Attending
  <2>2. Ending(t)'
    BY <1>1, <2>1 DEF Ending, Leaving, finalize_at, dispatch_at, clear_at, run_at, ed
  <2>3. Settling(t)'
    BY <1>1, <1>2, <2>1 DEF Settling, clear_at, run_at, ed, pos
  <2> QED BY <2>2, <2>3
<1> QED BY <1>3, <1>4, <1>5, <1>6 DEF Attending

-----------------------------------------------------------------------------
(* What there is                                                           *)

(* The world of t has been made; nobody has destroyed it.                  *)
Made(t) == IF t = "editor" THEN ~Fresh(t) ELSE at[t] \notin {"unborn", "init"}
Kept(t) == step <= destroys_at[t] \/ Open(t, destroys_at[t])

Living ==
    /\ "core" \in worlds <=> 1 < step /\ step < End
    /\ "render" \in worlds <=> 4 + 2 * ed < step /\ step <= finalize_at + 13 + 2 * ed
    /\ \A t \in Place : t \in worlds <=> t \in Spawned /\ Made(t) /\ Kept(t)

Settled == step > dispatch_at + 6 => queries = {}

(* What the render thread does itself, and when                            *)
LEMMA RenderDoes ==
    ASSUME NEW i \in 1..Len(script), NEW fn, script[i].fn = fn,
           script[i].do = "local" \/ (script[i].do = "call" /\ script[i].to \notin Spawned)
    PROVE  \/ fn = "initialize_core" /\ i = 1
           \/ fn = "create_render" /\ i = 4 + 2 * ed
           \/ fn = "destroy_render" /\ i = finalize_at + 13 + 2 * ed
           \/ fn = "finalize_core" /\ i = finalize_at + 15 + 2 * ed
           \/ /\ fn \in {"draw_frame", "run", "render_clear_resources", "purge_orders", "destroy_device"}
              /\ 4 + 2 * ed < i /\ i < finalize_at + 13 + 2 * ed
           \/ /\ fn \in {"create_device", "show_window", "empty", "thread_dispatch_callbacks",
                          "dispatching", "wait_and_dispatch_callbacks", "dispatched"}
              /\ 1 < i /\ i # 4 + 2 * ed
              /\ i # finalize_at + 13 + 2 * ed /\ i < finalize_at + 15 + 2 * ed
<1>0. /\ "logic" \in Spawned /\ "network" \in Spawned /\ "sound" \in Spawned
      /\ Editor => "editor" \in Spawned
  BY DEF Spawned
<1>a. /\ 4 + 2 * ed < 8 + 2 * ed /\ 8 + 2 * ed < run_at /\ run_at < clear_at
      /\ clear_at < dispatch_at /\ dispatch_at < finalize_at
      /\ ed \in Nat /\ run_at \in Nat /\ clear_at \in Nat /\ dispatch_at \in Nat
      /\ finalize_at \in Nat /\ i \in Nat
  BY Bounds
<1>1. CASE script[i].do = "local"
  <2>1. CASE LocalsOfStart(i, script[i])
    <3>1. \/ fn = "initialize_core" /\ i = 1
          \/ fn = "create_render" /\ i = 4 + 2 * ed
          \/ fn = "draw_frame" /\ i = 8 + 2 * ed
          \/ fn = "run" /\ i = run_at
      BY <2>1, Fields DEF LocalsOfStart
    <3> QED BY <1>a, <3>1
  <2>2. CASE LocalsOfClear(i, script[i])
    <3>1. \/ fn = "render_clear_resources" /\ i = clear_at + 4 + ed
          \/ fn = "purge_orders" /\ i = clear_at + 9 + ed
      BY <2>2, Fields DEF LocalsOfClear
    <3>2. clear_at < i /\ i < finalize_at
      BY <1>a, <3>1, Order
    <3> QED BY <1>a, <3>1, <3>2
  <2>3. CASE LocalsOfDispatch(i, script[i])
    <3>1. \/ fn = "dispatching" /\ i = dispatch_at + 1
          \/ fn = "wait_and_dispatch_callbacks" /\ i = dispatch_at + 6
          \/ fn = "dispatched" /\ i = dispatch_at + 7
      BY <2>3, Fields DEF LocalsOfDispatch
    <3>2. dispatch_at < i /\ i < finalize_at
      BY <1>a, <3>1, Order
    <3> QED BY <1>a, <3>1, <3>2
  <2>4. CASE LocalsOfFinalize(i, script[i])
    <3>1. \/ fn = "wait_and_dispatch_callbacks" /\ i = finalize_at + 11 + 2 * ed
          \/ fn = "destroy_render" /\ i = finalize_at + 13 + 2 * ed
          \/ fn = "finalize_core" /\ i = finalize_at + 15 + 2 * ed
      BY <2>4, Fields DEF LocalsOfFinalize
    <3> QED BY <1>a, <3>1
  <2> QED BY <1>1, <2>1, <2>2, <2>3, <2>4, StatementAt
<1>2. CASE script[i].do = "call" /\ script[i].to \notin Spawned
  <2>1. CASE CallsOfStart(i, script[i])
    <3>1. \/ fn = "create_device" /\ i = 3 + 2 * ed
          \/ fn = "show_window" /\ i = 12 + 3 * ed
      BY <1>0, <1>2, <2>1, Fields DEF CallsOfStart
    <3>2. i < run_at
      BY <1>a, <3>1, Bounds
    <3>3. i < finalize_at
      BY <1>a, <3>2
    <3>4. 1 < i /\ i # 4 + 2 * ed
      BY <1>a, <3>1
    <3>5. i # finalize_at + 13 + 2 * ed /\ i < finalize_at + 15 + 2 * ed
      BY <1>a, <3>3
    <3> QED BY <3>1, <3>4, <3>5
  <2>2. CASE CallsOfBarrier(i, script[i])
    <3>1. fn = "empty" /\ i = run_at + 4
      BY <1>0, <1>2, <2>2, Fields DEF CallsOfBarrier
    <3> QED BY <1>a, <3>1
  <2>3. ~CallsOfClear(i, script[i])
    BY <1>0, <1>2, Fields DEF CallsOfClear
  <2>4. CASE CallsOfDispatch(i, script[i])
    <3>1. fn = "thread_dispatch_callbacks" /\ i = dispatch_at + 5
      BY <1>0, <1>2, <2>4, Fields DEF CallsOfDispatch
    <3> QED BY <1>a, <3>1
  <2>5. CASE CallsOfFinalize(i, script[i])
    <3>1. \/ fn = "destroy_device" /\ i = finalize_at + 12 + 2 * ed
          \/ fn = "empty" /\ i = finalize_at + 14 + 2 * ed
      BY <1>0, <1>2, <2>5, Fields DEF CallsOfFinalize
    <3> QED BY <1>a, <3>1
  <2> QED BY <1>2, <2>1, <2>2, <2>3, <2>4, <2>5, StatementAt
<1> QED BY <1>1, <1>2

LEMMA DestroyingStatements ==
    ASSUME NEW t \in Spawned
    PROVE  /\ CallAt(t, destroys_at[t]) /\ script[destroys_at[t]].fn # "enable"
           /\ destroys_at[t] \in Nat /\ finalize_at < destroys_at[t]
           /\ destroys_at[t] < finalize_at + 9
<1>0. /\ t \in {"logic", "network", "sound", "editor"} /\ (t = "editor" => Editor)
      /\ destroys_at["logic"] = finalize_at + 1 /\ destroys_at["network"] = finalize_at + 3
      /\ destroys_at["sound"] = finalize_at + 5 /\ destroys_at["editor"] = finalize_at + 7
  BY DEF Spawned, destroys_at
<1>1. /\ script[finalize_at + 1] = CallTo("logic", "finalize_logic_modules", "calls")
      /\ script[finalize_at + 3] = CallTo("network", "destroy_network", "calls")
      /\ script[finalize_at + 5] = CallTo("sound", "destroy_sound", "calls")
      /\ Editor => script[finalize_at + 7] = CallTo("editor", "unload_editor", "calls")
  BY ScriptSays DEF FinalizeSays
<1>2. /\ script[destroys_at[t]].do = "call" /\ script[destroys_at[t]].to = t
      /\ script[destroys_at[t]].fn # "enable"
  BY <1>0, <1>1, Fields
<1>3. \E n \in Nat : n = destroys_at[t] /\ finalize_at < n /\ n < finalize_at + 9 /\ n \in 1..Len(script)
  <2>1. \E n \in {1, 3, 5, 7} : destroys_at[t] = finalize_at + n
    BY <1>0
  <2> QED BY <2>1, Order
<1> QED BY <1>2, <1>3 DEF CallAt

(* How the render thread creates and destroys worlds, and what it          *)
(* dispatches                                                              *)
LEMMA RenderMakes ==
    ASSUME Where, Render
    PROVE  /\ worlds' = IF step' # step /\ step = 1 THEN worlds \cup {"core"}
                        ELSE IF step' # step /\ step = 4 + 2 * ed THEN worlds \cup {"render"}
                        ELSE IF step' # step /\ step = finalize_at + 13 + 2 * ed THEN worlds \ {"render"}
                        ELSE IF step' # step /\ step = finalize_at + 15 + 2 * ed THEN worlds \ {"core"}
                        ELSE worlds
           /\ queries' \subseteq queries \/ (step = run_at /\ step' = step + 1)
           /\ step' # step /\ step = dispatch_at + 6 => queries = {}
<1>0. /\ Types /\ step \in Nat
      /\ step # End => step \in 1..Len(script)
  BY Order DEF Where, Types, End
<1>1. /\ step = 1 => script[step] = LocalOf("initialize_core")
      /\ step = 4 + 2 * ed => script[step] = LocalOf("create_render")
      /\ step = finalize_at + 13 + 2 * ed => script[step] = LocalOf("destroy_render")
      /\ step = finalize_at + 15 + 2 * ed => script[step] = LocalOf("finalize_core")
      /\ step = dispatch_at + 6 => script[step] = LocalOf("wait_and_dispatch_callbacks")
  BY ScriptSays DEF StartSays, DispatchSays, FinalizeSays
<1>2. ASSUME NEW fn, script[step].fn = fn, Perform("render", fn), step # End, step' = step + 1,
             script[step].do = "local" \/ (script[step].do = "call" /\ script[step].to \notin Spawned),
             fn # "wait_and_dispatch_callbacks"
      PROVE  /\ queries' = queries /\ step # dispatch_at + 6
             /\ worlds' = IF step = 1 THEN worlds \cup {"core"}
                          ELSE IF step = 4 + 2 * ed THEN worlds \cup {"render"}
                          ELSE IF step = finalize_at + 13 + 2 * ed THEN worlds \ {"render"}
                          ELSE IF step = finalize_at + 15 + 2 * ed THEN worlds \ {"core"}
                          ELSE worlds
  <2>1. step \in 1..Len(script)
    BY <1>0, <1>2
  <2>2. /\ step # dispatch_at + 6
        /\ step = 1 => fn = "initialize_core"
        /\ step = 4 + 2 * ed => fn = "create_render"
        /\ step = finalize_at + 13 + 2 * ed => fn = "destroy_render"
        /\ step = finalize_at + 15 + 2 * ed => fn = "finalize_core"
    BY <1>1, <1>2, Fields
  <2>3. /\ fn = "initialize_core" => step = 1
        /\ fn = "create_render" => step = 4 + 2 * ed
        /\ fn = "destroy_render" => step = finalize_at + 13 + 2 * ed
        /\ fn = "finalize_core" => step = finalize_at + 15 + 2 * ed
        /\ fn \notin {"finalize_logic_modules", "destroy_network", "destroy_sound", "unload_editor",
                      "try_load_editor", "initialize_logic_modules"}
    BY <1>2, <2>1, RenderDoes
  <2>4. queries' = queries
    BY <1>2 DEF Perform
  <2>5. worlds' = (worlds \cup Creates(fn)) \ Destroys(fn)
    BY <1>2 DEF Perform, Effect
  <2>6. /\ Creates(fn) = IF step = 1 THEN {"core"} ELSE IF step = 4 + 2 * ed THEN {"render"} ELSE {}
        /\ Destroys(fn) = IF step = finalize_at + 13 + 2 * ed THEN {"render"}
                          ELSE IF step = finalize_at + 15 + 2 * ed THEN {"core"} ELSE {}
    BY <2>2, <2>3, FunctionsDo
  <2>7. /\ step = 1 => step # finalize_at + 13 + 2 * ed /\ step # finalize_at + 15 + 2 * ed
        /\ step = 4 + 2 * ed => step # finalize_at + 13 + 2 * ed /\ step # finalize_at + 15 + 2 * ed
    BY <2>2
  <2> QED BY <2>2, <2>4, <2>5, <2>6, <2>7
<1>3. CASE RenderPerforms
  <2>1. /\ Perform("render", script[step].fn) /\ step # End /\ step' = step + 1
        /\ script[step].do = "local" /\ script[step].fn # "wait_and_dispatch_callbacks"
    BY <1>3 DEF RenderPerforms, RenderIsAt, NextStep
  <2> QED BY <1>0, <1>2, <2>1
<1>4. CASE RenderCallsInPlace /\ worlds' # worlds
  <2>1. /\ Perform("render", script[step].fn) /\ step # End /\ step' = step + 1
        /\ script[step].do = "call" /\ script[step].to \notin Spawned
    BY <1>4 DEF RenderCallsInPlace, RenderIsAt, NextStep, InPlace
  <2>2. script[step].fn # "wait_and_dispatch_callbacks"
    BY <2>1, <1>4, FunctionsDo DEF Perform, Effect
  <2> QED BY <1>0, <1>2, <2>1, <2>2
<1>5. CASE ~RenderPerforms /\ ~(RenderCallsInPlace /\ worlds' # worlds)
  <2>1. /\ worlds' = worlds
        /\ step' # step => \/ script[step].do # "local"
                          \/ script[step].fn \in {"run", "dispatching", "dispatched"}
                          \/ /\ script[step].fn = "wait_and_dispatch_callbacks"
                             /\ queries = {}
    BY <1>0, <1>5 DEF Render, RenderCalls, RenderProceeds, RenderCallsInPlace, RenderWaits, RenderSpawns,
         RenderDraws, RenderLeavesRun, RenderSetsDispatched, RenderDispatches,
         RenderLooks, RenderHasDispatched, Dispatches, Looks, engine, manager, RenderIsAt, RenderIsAtLocal, thread_can_exit
  <2>2. queries' \subseteq queries \/ RenderLeavesRun
    BY <1>5 DEF Render, RenderCalls, RenderProceeds, RenderCallsInPlace, RenderWaits, RenderSpawns,
         RenderDraws, RenderSetsDispatched, RenderDispatches, Perform,
         RenderLooks, RenderHasDispatched, Dispatches, Looks, engine, manager
  <2>3. RenderLeavesRun => step = run_at /\ step' = step + 1
    <3> SUFFICES ASSUME RenderLeavesRun PROVE step = run_at /\ step' = step + 1
      OBVIOUS
    <3>1. /\ step \in 1..Len(script) /\ script[step].do = "local" /\ script[step].fn = "run"
          /\ step' = step + 1
      BY <1>0 DEF RenderLeavesRun, RenderIsAtLocal, RenderIsAt, NextStep
    <3>2. LocalsOfStart(step, script[step])
      BY <3>1, StatementAt, Fields DEF LocalsOfClear, LocalsOfDispatch, LocalsOfFinalize
    <3> QED BY <3>1, <3>2, Fields DEF LocalsOfStart
  <2>4. step' # step => /\ step # 1 /\ step # 4 + 2 * ed /\ step # finalize_at + 13 + 2 * ed
                        /\ step # finalize_at + 15 + 2 * ed
                        /\ step = dispatch_at + 6 => queries = {}
    BY <1>0, <1>1, <2>1, Fields
  <2> QED BY <2>1, <2>2, <2>3, <2>4
<1> QED BY <1>3, <1>4, <1>5

LEMMA RenderLasts ==
    ASSUME RpcInv, RpcInv', ScriptAssumption, Where, Attending, Living, Settled, Render
    PROVE  Living' /\ Settled'
<1>0. Types /\ CallerIsAt /\ Filled
  BY DEF Where, Attending
<1>1. /\ serving' = serving /\ step \in Nat /\ (step' = step \/ step' = step + 1)
      /\ \A t \in Spawned : at'[t] = at[t] \/ (at[t] = "unborn" /\ at'[t] = "init")
  BY RenderLeavesThreads
<1>2. worlds' = IF step' # step /\ step = 1 THEN worlds \cup {"core"}
                ELSE IF step' # step /\ step = 4 + 2 * ed THEN worlds \cup {"render"}
                ELSE IF step' # step /\ step = finalize_at + 13 + 2 * ed THEN worlds \ {"render"}
                ELSE IF step' # step /\ step = finalize_at + 15 + 2 * ed THEN worlds \ {"core"}
                ELSE worlds
  BY RenderMakes
<1>3. "core" \in worlds' <=> 1 < step' /\ step' < End
  <2>1. "core" \in worlds <=> 1 < step /\ step < End
    BY DEF Living
  <2>2. "core" \in worlds' <=> IF step' # step /\ step = 1 THEN TRUE
                               ELSE IF step' # step /\ step = finalize_at + 15 + 2 * ed THEN FALSE
                               ELSE "core" \in worlds
    <3>1. step = 4 + 2 * ed => step # finalize_at + 15 + 2 * ed
      BY Numbers
    <3>2. step = finalize_at + 13 + 2 * ed => step # finalize_at + 15 + 2 * ed
      BY Numbers
    <3> QED BY <1>2, <3>1, <3>2
  <2>3. finalize_at + 15 + 2 * ed = End - 1 /\ End > 2 /\ End \in Nat
    <3>1. finalize_at \in Nat /\ ed \in Nat /\ End = finalize_at + 16 + 2 * ed
      BY Bounds
    <3> QED BY <3>1
  <2> QED BY <1>1, <2>1, <2>2, <2>3
<1>4. "render" \in worlds' <=> 4 + 2 * ed < step' /\ step' <= finalize_at + 13 + 2 * ed
  <2> PICK a \in Nat, b \in Nat : a = 4 + 2 * ed /\ b = finalize_at + 13 + 2 * ed
    BY Order
  <2>1. "render" \in worlds <=> a < step /\ step <= b
    BY DEF Living
  <2>2. 1 < a /\ a < b /\ b < finalize_at + 15 + 2 * ed
    <3>1. ed \in Nat /\ finalize_at \in Nat
      BY Bounds
    <3>2. 4 + 2 * ed < finalize_at + 13 + 2 * ed
      BY <3>1
    <3> QED BY <3>1, <3>2
  <2>3. "render" \in worlds' <=> IF step' # step /\ step = a THEN TRUE
                                 ELSE IF step' # step /\ step = b THEN FALSE
                                 ELSE "render" \in worlds
    BY <1>2, <2>2
  <2>4. "render" \in worlds' <=> a < step' /\ step' <= b
    BY <1>1, <2>1, <2>2, <2>3
  <2> QED BY <2>4
<1>5. ASSUME NEW t \in Place PROVE t \in worlds' <=> t \in Spawned /\ Made(t)' /\ Kept(t)'
  <2>1. t \in worlds' <=> t \in worlds
    BY <1>2 DEF Place
  <2>2. t \in worlds <=> t \in Spawned /\ Made(t) /\ Kept(t)
    BY DEF Living
  <2>3. t \in Spawned => (Made(t)' <=> Made(t))
    BY <1>1 DEF Made, Fresh
  <2>4. ASSUME t \in Spawned PROVE Kept(t)' <=> Kept(t)
    <3>1. PICK n : n = destroys_at[t] /\ CallAt(t, n) /\ script[n].fn # "enable"
      BY <2>4, DestroyingStatements
    <3>2. (step <= n \/ Open(t, n))' <=> (step <= n \/ Open(t, n))
      BY <1>0, <2>4, <3>1, RenderReaches
    <3>3. destroys_at'[t] = n
      BY <3>1 DEF destroys_at, finalize_at, dispatch_at, clear_at, run_at, ed
    <3> QED BY <3>1, <3>2, <3>3 DEF Kept
  <2> QED BY <2>1, <2>2, <2>3, <2>4
<1>6. Living'
  <2>1. /\ ("core" \in worlds <=> 1 < step /\ step < End)'
        /\ ("render" \in worlds <=> 4 + 2 * ed < step /\ step <= finalize_at + 13 + 2 * ed)'
    BY <1>3, <1>4 DEF End, finalize_at, dispatch_at, clear_at, run_at, ed
  <2> QED BY <1>5, <2>1 DEF Living, Spawned
<1>7. Settled'
  <2> PICK a \in Nat : a = dispatch_at + 6
    BY Order
  <2>1. step > a => queries = {}
    BY DEF Settled
  <2>2. /\ queries' \subseteq queries \/ (step = run_at /\ step' = step + 1)
        /\ step' # step /\ step = a => queries = {}
    BY RenderMakes
  <2>3. step' > a => queries' = {}
    <3>1. step' > a => ~(step = run_at /\ step' = step + 1)
      BY Order
    <3> QED BY <1>1, <2>1, <2>2, <3>1
  <2> QED BY <2>3 DEF Settled, dispatch_at, clear_at, run_at, ed
<1> QED BY <1>6, <1>7

(* A call that is executed makes the world of the editor, or destroys that *)
(* of its thread.                                                          *)
LEMMA ExecutingLasts ==
    ASSUME RpcInv, RpcTypeOK', ScriptAssumption, Where, Attending, Living, Settled,
           NEW t \in Spawned, Runs(t), ExecutesOne(t), Perform(t, m_callback[t].fn)
    PROVE  /\ \A w : w \in worlds' <=> \/ w = "editor" /\ t = "editor" /\ Fresh(t)
                                       \/ w \in worlds /\ (w = t => Kept(t)')
           /\ Fresh(t) /\ t = "editor" => Kept(t)'
           /\ t # "editor" => (Made(t)' <=> Made(t))
           /\ Kept(t)' => Kept(t)
<1>0. /\ Types /\ CallerIsAt /\ Filled /\ Begun(t) /\ step \in Nat /\ PlacedAt(t)
      /\ step' = step /\ m_pending[t] /\ serving[t].at = "execute" /\ at'[t] = at[t]
  <2>1. Types /\ CallerIsAt /\ Filled /\ Begun(t) /\ PlacedAt(t)
    BY DEF Attending, Where, Placed
  <2>2. step' = step
    BY ThreadSteps
  <2> QED BY <2>1, <2>2, Numbers DEF Types, ExecutesOne
<1> PICK i \in 1..Len(script) :
                    /\ FilledAt(t, i) /\ Open(t, i) /\ ~Open(t, i)'
                    /\ \A j : j # i => (Open(t, j)' <=> Open(t, j))
  BY <1>0, ThreadKeeps
<1> PICK n \in Nat : n = destroys_at[t] /\ finalize_at < n
  BY DestroyingStatements
<1> PICK fn : fn = m_callback[t].fn
  OBVIOUS
<1>1. fn = script[i].fn /\ i < step /\ i \in Nat
  BY DEF FilledAt, CallOf
<1>2. /\ fn = "try_load_editor" <=> t = "editor" /\ i = 3
      /\ fn = "finalize_logic_modules" <=> t = "logic" /\ i = n
      /\ fn = "destroy_network" <=> t = "network" /\ i = n
      /\ fn = "destroy_sound" <=> t = "sound" /\ i = n
      /\ fn = "unload_editor" <=> t = "editor" /\ i = n
      /\ fn \notin {"initialize_core", "create_render", "initialize_logic_modules",
                    "destroy_render", "finalize_core"}
      /\ i = n => step <= finalize_at + 9
  BY <1>0, <1>1, WhatIsExecuted
<1>3. t = "editor" => (Fresh(t) <=> i = 3)
  BY <1>0, FreshExecutes, FirstCalls
<1>4. Kept(t)' <=> (step <= n \/ Open(t, n)')
  BY <1>0 DEF Kept, destroys_at, finalize_at, dispatch_at, clear_at, run_at, ed
<1>5. Kept(t) <=> (step <= n \/ Open(t, n))
  BY DEF Kept
<1>6. i = n => ~Kept(t)'
  BY <1>0, <1>1, <1>4
<1>7. i # n => (Kept(t)' <=> Kept(t))
  <2>1. i # n => (Open(t, n)' <=> Open(t, n))
    OBVIOUS
  <2> QED BY <1>4, <1>5, <2>1
<1>8. t = "editor" /\ i = 3 => Kept(t)'
  <2> SUFFICES ASSUME t = "editor", i = 3 PROVE step <= n
    BY <1>4
  <2>1. Open(t, 3)
    OBVIOUS
  <2>2. step <= 4
    <3>1. script[4] = WaitFor("editor") /\ Editor
      BY ScriptSays, Numbers DEF StartSays, Spawned
    <3>2. ~(4 \in i + 1..step - 1) /\ i + 1 = 4
      BY <3>1 DEF FilledAt
    <3>3. step > 4 => 4 \in 4..step - 1
      BY <1>0
    <3>4. ~(step > 4)
      BY <3>2, <3>3
    <3> QED BY <1>0, <3>4
  <2>3. 4 < finalize_at /\ finalize_at \in Nat
    BY Bounds
  <2> QED BY <1>0, <2>2, <2>3
<1>9. /\ Creates(fn) = IF t = "editor" /\ i = 3 THEN {"editor"} ELSE {}
      /\ Destroys(fn) = IF i = n THEN {t} ELSE {}
  <2>1. t \in {"logic", "network", "sound", "editor"}
    BY SpawnedArePlaces DEF Place
  <2> QED BY <1>2, <2>1, FunctionsDo
<1>10. worlds' = (worlds \cup Creates(fn)) \ Destroys(fn)
  BY DEF Perform, Effect
<1>11. t \in worlds => Kept(t)
  BY SpawnedArePlaces DEF Living
<1>12. ASSUME NEW w
       PROVE  w \in worlds' <=> \/ w = "editor" /\ t = "editor" /\ Fresh(t)
                                \/ w \in worlds /\ (w = t => Kept(t)')
  <2>1. i = 3 => i # n
    BY Order
  <2>2. CASE i = n
    BY <1>3, <1>6, <1>9, <1>10, <2>1, <2>2
  <2>3. CASE i # n
    BY <1>3, <1>7, <1>8, <1>9, <1>10, <1>11, <2>3
  <2> QED BY <2>2, <2>3
<1>13. t # "editor" => (Made(t)' <=> Made(t))
  BY <1>0 DEF Made
<1> QED BY <1>3, <1>6, <1>7, <1>8, <1>12, <1>13

LEMMA ThreadLasts ==
    ASSUME RpcInv, RpcTypeOK', ScriptAssumption, Where, Stopping, Attending, Living, Settled,
           NEW t \in Spawned, Runs(t)
    PROVE  Living' /\ Settled'
<1>0. /\ Types /\ CallerIsAt /\ Filled /\ step \in Nat /\ step' = step /\ t \in Place
  <2>1. Types /\ CallerIsAt /\ Filled /\ t \in Place
    BY SpawnedArePlaces DEF Attending, Where
  <2>2. step' = step
    BY ThreadSteps
  <2> QED BY <2>1, <2>2, Numbers DEF Types
<1>1. ASSUME NEW u \in Spawned, u # t PROVE (Made(u)' <=> Made(u)) /\ (Kept(u)' <=> Kept(u))
  <2>1. Made(u)' <=> Made(u)
    BY <1>1, ThreadSteps, FreshSteps DEF Made
  <2>2. PICK n : n = destroys_at[u]
    OBVIOUS
  <2>3. destroys_at'[u] = n /\ (Open(u, n)' <=> Open(u, n))
    BY <1>0, <1>1, <2>2, ThreadKeeps DEF destroys_at, finalize_at, dispatch_at, clear_at, run_at, ed
  <2> QED BY <1>0, <2>1, <2>2, <2>3 DEF Kept
<1>2. /\ "core" \in worlds <=> 1 < step /\ step < End
      /\ "render" \in worlds <=> 4 + 2 * ed < step /\ step <= finalize_at + 13 + 2 * ed
      /\ \A u \in Place : u \in worlds <=> u \in Spawned /\ Made(u) /\ Kept(u)
      /\ step > dispatch_at + 6 => queries = {}
  BY DEF Living, Settled
<1>3. SUFFICES /\ "core" \in worlds' <=> "core" \in worlds
               /\ "render" \in worlds' <=> "render" \in worlds
               /\ \A u \in Place \ {t} : u \in worlds' <=> u \in worlds
               /\ t \in worlds' <=> Made(t)' /\ Kept(t)'
               /\ queries' \subseteq queries
  <2>1. /\ ("core" \in worlds <=> 1 < step /\ step < End)'
        /\ ("render" \in worlds <=> 4 + 2 * ed < step /\ step <= finalize_at + 13 + 2 * ed)'
    BY <1>0, <1>2, <1>3 DEF End, finalize_at, dispatch_at, clear_at, run_at, ed
  <2>2. ASSUME NEW u \in Place PROVE u \in worlds' <=> u \in Spawned /\ Made(u)' /\ Kept(u)'
    BY <1>1, <1>2, <1>3
  <2>3. Settled'
    BY <1>0, <1>2, <1>3 DEF Settled, finalize_at, dispatch_at, clear_at, run_at, ed
  <2> QED BY <2>1, <2>2, <2>3 DEF Living, Spawned
<1>4. CASE ExecutesOne(t)
  <2>1. Perform(t, m_callback[t].fn) /\ queries' = queries
    BY <1>4, ThreadSteps DEF ExecutesOne, AnswersOne, DecidesOne, TakesOne, LoopsOnce, Perform
  <2>2. /\ \A w : w \in worlds' <=> \/ w = "editor" /\ t = "editor" /\ Fresh(t)
                                    \/ w \in worlds /\ (w = t => Kept(t)')
        /\ Fresh(t) /\ t = "editor" => Kept(t)'
        /\ t # "editor" => (Made(t)' <=> Made(t))
        /\ Kept(t)' => Kept(t)
    BY <1>4, <2>1, ExecutingLasts
  <2>3. "core" # t /\ "render" # t
    BY <1>0 DEF Place
  <2>4. t \in worlds' <=> Made(t)' /\ Kept(t)'
    <3>1. CASE t = "editor"
      <4>1. Made(t)'
        BY <1>4, <3>1, FreshSteps DEF Made
      <4>2. t \in worlds <=> ~Fresh(t) /\ Kept(t)
        BY <1>0, <1>2, <3>1 DEF Made
      <4> QED BY <2>2, <3>1, <4>1, <4>2
    <3>2. CASE t # "editor"
      BY <1>0, <1>2, <2>2, <3>2
    <3> QED BY <3>1, <3>2
  <2> QED BY <2>1, <2>2, <2>3, <2>4
<1>5. CASE ~ExecutesOne(t)
  <2>1. /\ worlds' = worlds \/ InitializeModules(t)
        /\ queries' \subseteq queries
    BY <1>5, ThreadSteps
  <2>2. Kept(t)' <=> Kept(t)
    <3>1. PICK n : n = destroys_at[t]
      OBVIOUS
    <3>2. destroys_at'[t] = n /\ (Open(t, n)' <=> Open(t, n))
      BY <1>0, <1>5, <3>1, ThreadKeeps DEF destroys_at, finalize_at, dispatch_at, clear_at, run_at, ed
    <3> QED BY <1>0, <3>1, <3>2 DEF Kept
  <2>3. CASE InitializeModules(t)
    <3>1. /\ at[t] = "init" /\ at'[t] # "init" /\ at'[t] # "unborn"
          /\ worlds' = worlds \cup ({t} \ {"editor"})
      BY <2>3 DEF InitializeModules, Goes, Where, Types
    <3>2. Kept(t)
      <4>1. Awaited(t) /\ pos[t] \in 1..4 /\ run_at \in Nat
        BY <1>0, StepAndBarrier DEF Stopping
      <4>2. step <= run_at + 8
        BY <1>0, <3>1, <4>1 DEF Awaited, Outside
      <4>3. destroys_at[t] \in Nat /\ finalize_at < destroys_at[t]
        BY DestroyingStatements
      <4>4. step <= clear_at
        BY <4>2 DEF clear_at
      <4>5. step <= destroys_at[t]
        BY <1>0, <4>3, <4>4, Bounds
      <4> QED BY <4>5 DEF Kept
    <3>3. t = "editor" => (Made(t)' <=> Made(t))
      BY <1>5, FreshSteps DEF Made
    <3>4. t # "editor" => Made(t)'
      BY <3>1 DEF Made
    <3>5. "core" # t /\ "render" # t
      BY <1>0 DEF Place
    <3> QED BY <1>0, <1>2, <2>1, <2>2, <3>1, <3>2, <3>3, <3>4, <3>5
  <2>4. CASE ~InitializeModules(t)
    <3>1. Made(t)' <=> Made(t)
      <4>1. CASE t = "editor"
        BY <1>5, <4>1, FreshSteps DEF Made
      <4>2. CASE t # "editor"
        <5>1. AnswersOne(t) \/ DecidesOne(t) \/ TakesOne(t) \/ LoopsOnce(t)
          BY <1>5, ThreadSteps
        <5>2. at'[t] \in {"unborn", "init"} <=> at[t] \in {"unborn", "init"}
          BY <2>4, <5>1 DEF AnswersOne, DecidesOne, TakesOne, LoopsOnce, AfterProcess, InProcess
        <5> QED BY <4>2, <5>2 DEF Made
      <4> QED BY <4>1, <4>2
    <3> QED BY <1>0, <1>2, <2>1, <2>2, <2>4, <3>1
  <2> QED BY <2>3, <2>4
<1> QED BY <1>4, <1>5

LEMMA QuitsLast ==
    ASSUME RpcInv, ScriptAssumption, Where, Living, Settled, Quits
    PROVE  Living' /\ Settled'
<1>1. /\ UNCHANGED <<m_callback, m_pending, calling, serving, step>>
      /\ \A t \in Spawned : at'[t] = at[t] \/ (t = "editor" /\ at[t] = "run" /\ at'[t] = "last")
  BY QuitsWhere DEF RpcInv, rpcVars, slots
<1>2. UNCHANGED <<worlds, queries>>
  BY DEF Quits, RenderQuits, GameQuits, EditorCloses, manager
<1>3. ASSUME NEW t \in Spawned PROVE (Made(t)' <=> Made(t)) /\ (Kept(t)' <=> Kept(t))
  <2>1. Made(t)' <=> Made(t)
    BY <1>1 DEF Made, Fresh
  <2>2. PICK n : n = destroys_at[t]
    OBVIOUS
  <2>3. destroys_at'[t] = n /\ (Open(t, n)' <=> Open(t, n))
    BY <1>1, <2>2 DEF destroys_at, finalize_at, dispatch_at, clear_at, run_at, ed,
                      Open, Posting, FilledAt, CallAt, CallOf
  <2> QED BY <1>1, <2>1, <2>2, <2>3 DEF Kept
<1>4. Living'
  BY <1>1, <1>2, <1>3 DEF Living, End, finalize_at, dispatch_at, clear_at, run_at, ed, Spawned
<1>5. Settled'
  BY <1>1, <1>2 DEF Settled, finalize_at, dispatch_at, clear_at, run_at, ed
<1> QED BY <1>4, <1>5

-----------------------------------------------------------------------------
(* The invariants hold from the beginning, and in every step.              *)

LEMMA AttendsAtFirst == ASSUME ScriptAssumption, EngineInit PROVE Attending /\ Living /\ Settled
<1>0. /\ step = 1 /\ worlds = {} /\ queries = {}
      /\ calling["render"] = Idle /\ \A t \in Spawned : at[t] = "unborn"
      /\ \A t \in Spawned : m_pending[t] = FALSE
  <2>1. \A t \in Spawned : t \in Slot
    BY SpawnedArePlaces DEF ScriptAssumption, Place
  <2> QED BY <2>1 DEF EngineInit, RpcInit, ScriptAssumption
<1>1. /\ \A t \in Spawned : 1 < first_at(t) /\ ~Posting(t)
      /\ \A t \in Spawned : \A i : ~Open(t, i)
  BY <1>0, Numbers DEF first_at, Posting, Idle, Open
<1>2. CallerIsAt /\ Filled /\ Shown
  BY <1>0 DEF CallerIsAt, Filled, Shown, Leaving
<1>3. ASSUME NEW t \in Spawned PROVE Begun(t) /\ Ending(t) /\ Settling(t)
  <2>1. Begun(t)
    BY <1>0, <1>1, Order DEF Begun, Fresh, first_at
  <2>2. Ending(t)
    BY <1>0 DEF Ending, Leaving
  <2>3. Settling(t)
    <3>1. t # "editor" => pos[t] \in Nat
      BY SpawnedArePlaces DEF pos, Place
    <3>2. t # "editor" => ~(step > clear_at + pos[t])
      BY <1>0, <3>1, Order
    <3> QED BY <1>0, <3>2 DEF Settling
  <2> QED BY <2>1, <2>2, <2>3
<1>4. Living
  <2>1. ~(1 < step) /\ ~(4 + 2 * ed < step)
    BY <1>0, Order
  <2>2. \A t \in Spawned : ~Made(t)
    BY <1>0 DEF Made, Fresh
  <2> QED BY <1>0, <2>1, <2>2 DEF Living
<1>5. Settled
  BY <1>0 DEF Settled
<1> QED BY <1>2, <1>3, <1>4, <1>5 DEF Attending

LEMMA AttendsAndLasts ==
    ASSUME ScriptAssumption, RpcInv, RpcInv', Where, Stopping, Attending, Living, Settled,
           [EngineNext]_vars
    PROVE  Attending' /\ Living' /\ Settled'
<1>0. RpcTypeOK'
  BY DEF RpcInv
<1>1. CASE Render
  BY <1>1, RenderAttends, RenderLasts
<1>2. ASSUME NEW t \in Spawned, Runs(t) PROVE Attending' /\ Living' /\ Settled'
  BY <1>0, <1>2, ThreadAttends, ThreadLasts
<1>3. CASE Quits
  BY <1>3, QuitsAttend, QuitsLast
<1>4. CASE HandsOver \/ UNCHANGED vars
  <2> USE DEF run_at, clear_at, dispatch_at, finalize_at, ed, pos
  <2>1. /\ UNCHANGED <<step, at, worlds, queries, calling, serving, executed,
                       m_pending, m_callback>>
    BY <1>4 DEF HandsOver, vars, rpcVars, slots, engine, manager
  <2>2. /\ \A t : Posting(t)' <=> Posting(t)
        /\ \A t, i : FilledAt(t, i)' <=> FilledAt(t, i)
    BY <2>1 DEF Posting, FilledAt
  <2>3. \A t, i : Open(t, i)' <=> Open(t, i)
    BY <2>1, <2>2 DEF Open
  <2>4. \A t : (Fresh(t)' <=> Fresh(t)) /\ (Leaving(t, "last")' <=> Leaving(t, "last"))
    BY <2>1 DEF Fresh, Leaving
  <2>5. CallerIsAt' /\ Filled' /\ Shown'
    <3>1. CallerIsAt'
      BY <2>1 DEF Attending, CallerIsAt
    <3>2. Filled'
      BY <2>1, <2>2 DEF Attending, Filled
    <3>3. Shown'
      BY <2>1, <2>3 DEF Attending, Shown, Leaving
    <3> QED BY <3>1, <3>2, <3>3
  <2>6. ASSUME NEW t \in Spawned PROVE Begun(t)' /\ Ending(t)' /\ Settling(t)'
    <3> PICK n : n = first_at(t)
      OBVIOUS
    <3>1. first_at(t)' = n
      BY DEF first_at
    <3>2. Begun(t)'
      BY <2>1, <2>2, <2>3, <2>4, <3>1 DEF Attending, Begun
    <3>3. Ending(t)'
      BY <2>1, <2>4 DEF Attending, Ending
    <3>4. Settling(t)'
      BY <2>1, <2>2 DEF Attending, Settling
    <3> QED BY <3>2, <3>3, <3>4
  <2>7. Living'
    <3>1. \A t \in Spawned : Made(t)' <=> Made(t)
      BY <2>1, <2>4 DEF Made
    <3>2. ASSUME NEW t \in Spawned PROVE Kept(t)' <=> Kept(t)
      <4> PICK n : n = destroys_at[t]
        OBVIOUS
      <4>1. Kept(t)' <=> (step <= n \/ Open(t, n)')
        BY <2>1 DEF Kept, destroys_at
      <4> QED BY <2>3, <4>1 DEF Kept
    <3> QED BY <2>1, <3>1, <3>2 DEF Living, End
  <2>8. Settled'
    BY <2>1 DEF Settled
  <2> QED BY <2>5, <2>6, <2>7, <2>8 DEF Attending
<1> QED BY <1>1, <1>2, <1>3, <1>4 DEF EngineNext, Stopped

LEMMA AttendsThroughout ==
    ASSUME ScriptAssumption, OneCaller
    PROVE  EngineSpec => /\ [](Types /\ Where /\ Stopping)
                         /\ [](RpcInv /\ Attending /\ Living /\ Settled)
<1>1. EngineSpec => []RpcInv /\ [](Where /\ Stopping)
  BY Throughout
<1>2. EngineInit => Attending /\ Living /\ Settled
  BY AttendsAtFirst
<1>3. (Attending /\ Living /\ Settled) /\ (Where /\ Stopping) /\ RpcInv /\ RpcInv' /\ [EngineNext]_vars
          => (Attending /\ Living /\ Settled)'
  BY AttendsAndLasts
<1>4. Where => Types
  BY DEF Where
<1> QED BY <1>1, <1>2, <1>3, <1>4, PTL DEF EngineSpec

-----------------------------------------------------------------------------
(* What a thread uses is there                                             *)

(* When the script has got past the spawning of the logic, the sound world *)
(* is there until the logic's modules are destroyed.                       *)
LEMMA SoundIsThere ==
    ASSUME Types, Attending, Living, 9 + 2 * ed < step, step <= finalize_at + 5
    PROVE  "sound" \in worlds
<1>0. "sound" \in Spawned /\ "sound" \in Place /\ step \in Nat
  BY Numbers DEF Spawned, Place, Types
<1> PICK n : n = first_at("sound")
  OBVIOUS
<1>1. n = 7 + 2 * ed /\ n \in Nat /\ script[n].wait
  BY <1>0, FirstCalls
<1>2. step > n /\ n # step - 1
  BY <1>0, <1>1, Order
<1>3. ~Open("sound", n)
  BY <1>1, <1>2 DEF Open, FilledAt
<1>4. Fresh("sound") <=> (step <= n \/ Open("sound", n))
  BY <1>0 DEF Attending, Begun
<1>5. ~Fresh("sound")
  BY <1>0, <1>1, <1>2, <1>3, <1>4
<1>6. Made("sound")
  BY <1>5 DEF Made, Fresh
<1>7. Kept("sound")
  BY DEF Kept, destroys_at
<1> QED BY <1>0, <1>6, <1>7 DEF Living

(* What the render thread is about to do in place finds its worlds.        *)
LEMMA RenderFinds == ASSUME Types, Living PROVE RenderUses \subseteq worlds
<1> SUFFICES ASSUME NEW i, i = step, NEW fn, fn = script[i].fn, step # End,
                    \/ script[i].do = "local"
                    \/ script[i].do = "call" /\ script[i].to \notin Spawned,
                    NEW w \in Needs(fn)
             PROVE  w \in worlds
  BY DEF RenderUses, InPlace
<1>0. i \in 1..Len(script) /\ i \in Nat
  BY Order DEF Types, End
<1>1. w \in {"core", "render", "logic", "network", "sound", "editor"} /\ fn # "initialize_core"
  BY FunctionsDo
<1>2. /\ w = "render" => fn \in NeedRender
      /\ w = "logic" => fn \in {"enable", "logic_clear_resources", "finalize_logic_modules"}
      /\ w = "network" => fn \in {"network_clear_resources", "destroy_network"}
      /\ w = "sound" => fn \in NeedSound
      /\ w = "editor" => fn \in {"editor_clear_resources", "unload_editor"}
  BY FunctionsDo
<1>3. \/ fn = "create_render" /\ i = 4 + 2 * ed
      \/ fn = "destroy_render" /\ i = finalize_at + 13 + 2 * ed
      \/ fn = "finalize_core" /\ i = finalize_at + 15 + 2 * ed
      \/ /\ fn \in {"draw_frame", "run", "render_clear_resources", "purge_orders", "destroy_device"}
         /\ 4 + 2 * ed < i /\ i < finalize_at + 13 + 2 * ed
      \/ /\ fn \in {"create_device", "show_window", "empty", "thread_dispatch_callbacks",
                     "dispatching", "wait_and_dispatch_callbacks", "dispatched"}
         /\ 1 < i /\ i < finalize_at + 15 + 2 * ed
  BY <1>0, <1>1, RenderDoes
<1>4. w \in {"core", "render"}
  BY <1>1, <1>2, <1>3 DEF NeedSound
<1>5. 1 < i
  BY <1>0, <1>3, Order
<1>6. w = "render" => 4 + 2 * ed < i /\ i <= finalize_at + 13 + 2 * ed
  <2>1. w = "render" => fn \in NeedRender
    BY <1>2
  <2>2. fn \in NeedRender => \/ fn = "destroy_render" /\ i = finalize_at + 13 + 2 * ed
                             \/ 4 + 2 * ed < i /\ i < finalize_at + 13 + 2 * ed
    BY <1>3 DEF NeedRender
  <2>3. 4 + 2 * ed < finalize_at + 13 + 2 * ed /\ finalize_at + 13 + 2 * ed \in Nat
    BY Order
  <2> QED BY <1>0, <2>1, <2>2, <2>3
<1> QED BY <1>0, <1>4, <1>5, <1>6, Order DEF Living, End

(* So does a call that a thread executes.                                  *)
LEMMA CallsFind ==
    ASSUME ScriptAssumption, RpcInv, Types, Where, Attending, Living,
           NEW t \in Spawned, serving[t].at = "execute"
    PROVE  Needs(m_callback[t].fn) \subseteq worlds
<1>0. /\ t \in Slot /\ t \in Place /\ PlacedAt(t) /\ m_pending[t] /\ step \in Nat
      /\ Begun(t) /\ serving[t].at # "answer"
  <2>1. t \in Slot /\ t \in Place
    BY SpawnedArePlaces DEF ScriptAssumption, Place
  <2>2. PlacedAt(t) /\ Begun(t)
    BY DEF Where, Placed, Attending
  <2>3. m_pending[t]
    BY <2>1 DEF RpcInv, CalleeKnowsCall
  <2> QED BY <2>1, <2>2, <2>3, Numbers DEF Types
<1> PICK i \in 1..Len(script) : FilledAt(t, i)
  BY <1>0 DEF Attending, Filled
<1> PICK fn : fn = script[i].fn
  OBVIOUS
<1>1. m_callback[t].fn = fn
  BY DEF FilledAt, CallOf
<1>2. 2 < i /\ step < End /\ i < step /\ i \in Nat
  BY WhenExecuted, InTime, Numbers
<1>3. "core" \in worlds
  BY <1>0, <1>2 DEF Living
<1>4. fn \in NeedRender => "render" \in worlds
  BY WhenNeeded DEF Living
<1> PICK n : n = destroys_at[t]
  OBVIOUS
<1>5. i <= n => Kept(t)
  <2>1. CallAt(t, n) /\ n \in Nat
    BY DestroyingStatements
  <2> QED BY <1>0, <2>1, LaterOpens DEF Kept
<1>6. t # "editor" => Made(t)
  BY <1>0 DEF PlacedAt, InProcess, Made
<1>7. t = "editor" /\ 3 < i => Made(t)
  <2>1. t = "editor" => (Fresh(t) <=> i = first_at(t))
    BY <1>0, FreshExecutes
  <2> QED BY <1>2, <2>1 DEF Made, first_at
<1>8. i <= n /\ (t # "editor" \/ 3 < i) => t \in worlds
  BY <1>0, <1>5, <1>6, <1>7 DEF Living
<1>9. fn \in NeedSound => "sound" \in worlds
  <2>1. fn \in NeedSound => \/ t = "sound" /\ i <= n
                            \/ 9 + 2 * ed < step /\ step <= finalize_at + 5
    BY WhenNeeded
  <2> QED BY <1>8, <2>1, SoundIsThere
<1>10. /\ fn \in {"enable", "logic_clear_resources", "finalize_logic_modules"} => "logic" \in worlds
       /\ fn \in {"network_clear_resources", "destroy_network"} => "network" \in worlds
       /\ fn \in {"editor_clear_resources", "unload_editor"} => "editor" \in worlds
  <2>1. /\ fn \in {"enable", "logic_clear_resources", "finalize_logic_modules"} => t = "logic" /\ i <= n
        /\ fn \in {"network_clear_resources", "destroy_network"} => t = "network" /\ i <= n
        /\ fn \in {"editor_clear_resources", "unload_editor"} => t = "editor" /\ 3 < i /\ i <= n
    BY WhenNeeded
  <2> QED BY <1>8, <2>1
<1>11. ASSUME NEW w \in Needs(fn) PROVE w \in worlds
  <2>1. w \in {"core", "render", "logic", "network", "sound", "editor"}
    BY FunctionsDo
  <2>2. /\ w = "render" => fn \in NeedRender
        /\ w = "logic" => fn \in {"enable", "logic_clear_resources", "finalize_logic_modules"}
        /\ w = "network" => fn \in {"network_clear_resources", "destroy_network"}
        /\ w = "sound" => fn \in NeedSound
        /\ w = "editor" => fn \in {"editor_clear_resources", "unload_editor"}
    BY FunctionsDo
  <2> QED BY <1>3, <1>4, <1>9, <1>10, <2>1, <2>2
<1> QED BY <1>1, <1>11

(* A thread that is there has been spawned.                                *)
LEMMA SpawnedBefore ==
    ASSUME Where, NEW t \in Spawned, at[t] # "unborn"
    PROVE  /\ t \in {"network", "sound", "logic"} => 5 + 2 * ed < step
           /\ t = "logic" => 9 + 2 * ed < step
<1>0. step \in Nat
  BY Numbers DEF Where, Types
<1>1. ASSUME NEW i \in 1..Len(script), script[i] = SpawnOf(t) PROVE i < step
  <2>1. Spawns(script[i], t) /\ i \in Nat
    BY <1>1, Fields DEF Spawns
  <2>2. ~(step <= i)
    BY <2>1 DEF Where, Unspawned
  <2> QED BY <1>0, <2>1, <2>2
<1>2. /\ 5 + 2 * ed \in 1..Len(script) /\ 6 + 2 * ed \in 1..Len(script)
      /\ 9 + 2 * ed \in 1..Len(script)
  BY Order, Parts
<1>3. /\ script[5 + 2 * ed] = SpawnOf("network") /\ script[6 + 2 * ed] = SpawnOf("sound")
      /\ script[9 + 2 * ed] = SpawnOf("logic")
  BY ScriptSays DEF StartSays
<1>4. /\ t = "network" => 5 + 2 * ed < step
      /\ t = "sound" => 6 + 2 * ed < step
      /\ t = "logic" => 9 + 2 * ed < step
  BY <1>1, <1>2, <1>3
<1> QED BY <1>0, <1>4, Order

(* What a round of a loop uses is there.                                   *)
LEMMA TicksFind ==
    ASSUME Where, Stopping, Attending, Living,
           NEW t \in Spawned, at[t] \in {"tick", "ahead", "try", "run"}
    PROVE  TickNeeds(t) \subseteq worlds
<1>0. /\ step \in Nat /\ Types /\ PlacedAt(t) /\ t \in Place
  BY Numbers, SpawnedArePlaces DEF Where, Placed, Types
<1>1. \/ t = "editor" /\ ed = 1 /\ 15 < step
      \/ t # "editor" /\ 5 + 2 * ed < step /\ (t = "logic" => 9 + 2 * ed < step)
  <2>1. CASE t = "editor"
    <3>1. at[t] = "run" /\ Editor
      BY <1>0, <2>1 DEF PlacedAt, Spawned
    <3> QED BY <2>1, <3>1 DEF Attending, Shown, ed
  <2>2. CASE t # "editor"
    BY <1>0, <2>2, SpawnedBefore DEF Place
  <2> QED BY <2>1, <2>2
<1>2. step <= dispatch_at
  <2>1. CASE t = "editor"
    <3>1. at[t] \in Outside /\ pos[t] = 4
      BY <1>0, <2>1 DEF PlacedAt, Outside, pos
    <3>2. step > run_at + pos[t] => step <= run_at + 4 + pos[t]
      BY <3>1 DEF Stopping, Awaited
    <3> QED BY <1>0, <3>1, <3>2, Order
  <2>2. CASE t # "editor"
    <3>1. \E b \in Nat, c \in Nat : /\ b = clear_at + pos[t] /\ c = clear_at + 4 + ed + pos[t]
                                    /\ b < c /\ c < dispatch_at
      BY <2>2, SettlingStatements
    <3>2. step > clear_at + pos[t] => step <= clear_at + 4 + ed + pos[t]
      BY <2>2 DEF Attending, Settling
    <3> QED BY <1>0, <3>1, <3>2, Order
  <2> QED BY <2>1, <2>2
<1>3. 5 + 2 * ed < step /\ (t \in {"logic", "editor"} => 9 + 2 * ed < step)
  BY <1>0, <1>1, Order
<1>4. "core" \in worlds /\ "render" \in worlds
  BY <1>0, <1>2, <1>3, Order DEF Living, End
<1>5. t \in {"logic", "editor"} => "sound" \in worlds
  BY <1>0, <1>2, <1>3, SoundIsThere, Order
<1>6. t \in worlds
  <2>1. Made(t)
    BY DEF Made, Fresh
  <2>2. Kept(t)
    BY <1>0, <1>2, DestroyingStatements, Order DEF Kept
  <2> QED BY <1>0, <2>1, <2>2 DEF Living
<1> QED BY <1>4, <1>5, <1>6 DEF TickNeeds

(* The logic creates its modules from the core, the render and the sound.  *)
LEMMA LogicFinds ==
    ASSUME Where, Stopping, Attending, Living, "logic" \in Spawned, at["logic"] = "init"
    PROVE  Needs("initialize_logic_modules") \subseteq worlds
<1>0. step \in Nat /\ Types
  BY Numbers DEF Where, Types
<1>1. 9 + 2 * ed < step
  BY SpawnedBefore
<1>2. step <= run_at + 5
  <2>1. pos["logic"] = 1 /\ at["logic"] \in Outside
    BY DEF pos, Outside
  <2>2. step > run_at + pos["logic"] => step <= run_at + 4 + pos["logic"]
    BY <2>1 DEF Stopping, Awaited
  <2> QED BY <1>0, <2>1, <2>2, Order
<1>3. "core" \in worlds /\ "render" \in worlds
  BY <1>0, <1>1, <1>2, Order DEF Living, End
<1>4. "sound" \in worlds
  BY <1>0, <1>1, <1>2, SoundIsThere, Order
<1> QED BY <1>3, <1>4 DEF Needs

(* A world lives as long as somebody uses it: when initialize, run and the *)
(* destructor go on, in whatever order the threads answer, what a thread   *)
(* executes, does in its loop or creates its modules from is there.        *)
THEOREM WorldsOutlive ==
    ASSUME ScriptAssumption, OneCaller PROVE EngineSpec => []WorldsOutliveTheirUsers
<1>1. Types /\ Where /\ Stopping /\ RpcInv /\ Attending /\ Living /\ Settled
         => WorldsOutliveTheirUsers
  <2> SUFFICES ASSUME Types, Where, Stopping, RpcInv, Attending, Living
               PROVE  WorldsOutliveTheirUsers
    OBVIOUS
  <2>1. RenderUses \subseteq worlds
    BY RenderFinds
  <2>2. ASSUME NEW t \in Spawned PROVE Uses(t) \subseteq worlds
    <3>1. serving[t].at = "execute" => Needs(m_callback[t].fn) \subseteq worlds
      BY CallsFind
    <3>2. at[t] \in {"tick", "ahead", "try", "run"} => TickNeeds(t) \subseteq worlds
      BY TicksFind
    <3>3. at[t] = "init" /\ t = "logic" => Needs("initialize_logic_modules") \subseteq worlds
      BY LogicFinds
    <3> QED BY <3>1, <3>2, <3>3 DEF Uses
  <2> QED BY <2>1, <2>2 DEF WorldsOutliveTheirUsers
<1> QED BY <1>1, AttendsThroughout, PTL

-----------------------------------------------------------------------------
(* Nothing is left for the render thread                                   *)

(* Where the render thread sets the flag, runs, and dispatches.            *)
LEMMA LocalsAre ==
    ASSUME NEW i \in 1..Len(script), script[i].do = "local"
    PROVE  /\ script[i].fn = "dispatching" <=> i = dispatch_at + 1
           /\ script[i].fn = "dispatched" <=> i = dispatch_at + 7
           /\ script[i].fn = "run" => i = run_at
           /\ script[i].fn = "wait_and_dispatch_callbacks" =>
                 i = dispatch_at + 6 \/ i = finalize_at + 11 + 2 * ed
<1>1. /\ script[dispatch_at + 1].fn = "dispatching" /\ script[dispatch_at + 7].fn = "dispatched"
  BY ScriptSays, Fields DEF DispatchSays
<1>2. CASE LocalsOfStart(i, script[i])
  BY <1>1, <1>2, Fields, Numbers DEF LocalsOfStart
<1>3. CASE LocalsOfClear(i, script[i])
  BY <1>1, <1>3, Fields, Numbers DEF LocalsOfClear
<1>4. CASE LocalsOfDispatch(i, script[i])
  BY <1>1, <1>4, Fields, Numbers DEF LocalsOfDispatch
<1>5. CASE LocalsOfFinalize(i, script[i])
  BY <1>1, <1>5, Fields, Numbers DEF LocalsOfFinalize
<1> QED BY <1>2, <1>3, <1>4, <1>5, StatementAt

(* The call that finalizes the use of each thread, and the last time the   *)
(* render thread dispatches its own callbacks                              *)
finishes_at == [logic |-> finalize_at + 2, network |-> finalize_at + 4,
                sound |-> finalize_at + 6, editor |-> finalize_at + 8]
dispatches_last == finalize_at + 11 + 2 * ed

(* The thread is still to execute that call: it may drop resources.        *)
Owes(t) == step <= finishes_at[t] \/ Open(t, finishes_at[t])

(* As long as the manager has resources of the render thread, somebody has *)
(* yet to look whether there are any: finalize_thread_usage does not end   *)
(* while there are, and nobody leaves more of them after it.  What is      *)
(* handed over is deleted, since the render thread dispatches at last when *)
(* everybody has finalized.                                                *)
Handed ==
    /\ "render" \in delayed => \E t \in Spawned : Owes(t)
    /\ "render" \in looking => step = dispatch_at + 6 \/ step = dispatches_last
    /\ "render" \in looking /\ step = dispatches_last => "render" \notin deletions
    /\ step > dispatches_last => "render" \notin deletions

LEMMA FinishingStatements ==
    ASSUME NEW t \in Spawned
    PROVE  \E n \in Nat :
              /\ n = finishes_at[t] /\ CallAt(t, n)
              /\ script[n].fn = "finalize_thread_usage"
              /\ finalize_at < n /\ n <= finalize_at + 8
<1>0. /\ t \in {"logic", "network", "sound", "editor"} /\ (t = "editor" => Editor)
      /\ finishes_at["logic"] = finalize_at + 2 /\ finishes_at["network"] = finalize_at + 4
      /\ finishes_at["sound"] = finalize_at + 6 /\ finishes_at["editor"] = finalize_at + 8
  BY DEF Spawned, finishes_at
<1>1. /\ script[finalize_at + 2] = RemoteCallTo("logic", "finalize_thread_usage", "breaks")
      /\ script[finalize_at + 4] = RemoteCallTo("network", "finalize_thread_usage", "breaks")
      /\ script[finalize_at + 6] = RemoteCallTo("sound", "finalize_thread_usage", "breaks")
      /\ Editor => script[finalize_at + 8] = RemoteCallTo("editor", "finalize_thread_usage", "waits")
  BY ScriptSays DEF FinalizeSays
<1>2. /\ script[finishes_at[t]].do = "call" /\ script[finishes_at[t]].to = t
      /\ script[finishes_at[t]].fn = "finalize_thread_usage"
  BY <1>0, <1>1, Fields
<1>3. \E n \in Nat : /\ n = finishes_at[t] /\ finalize_at < n /\ n <= finalize_at + 8
                     /\ n \in 1..Len(script)
  <2>1. \E n \in {2, 4, 6, 8} : finishes_at[t] = finalize_at + n
    BY <1>0
  <2> QED BY <2>1, Order
<1> QED BY <1>2, <1>3 DEF CallAt

(* Everybody has finalized before the render thread dispatches at last.    *)
LEMMA OwesUntil ==
    ASSUME Types, NEW t \in Spawned, Owes(t) PROVE step < dispatches_last
<1> PICK n \in Nat : /\ n = finishes_at[t] /\ finalize_at < n /\ n <= finalize_at + 8
  BY FinishingStatements
<1>0. step \in Nat /\ ed \in Nat /\ finalize_at \in Nat
  BY Bounds DEF Types
<1>1. CASE step <= n \/ n = step - 1
  BY <1>0, <1>1 DEF dispatches_last
<1>2. CASE FilledAt(t, n)
  <2>1. \/ WhileStarting(t, n) \/ WhileSynchronizing(t, n) \/ WhileClearing(t, n)
        \/ WhileDispatching(t, n) \/ WhileFinalizing(t, n)
    BY <1>2, InTime
  <2>2. WhileFinalizing(t, n)
    <3>1. WhileStarting(t, n) => n < finalize_at
      BY Numbers DEF WhileStarting, IsFor
    <3>2. WhileSynchronizing(t, n) => n < finalize_at
      BY Numbers DEF WhileSynchronizing, IsFor
    <3>3. WhileClearing(t, n) => n < finalize_at
      BY Numbers DEF WhileClearing, IsFor
    <3>4. WhileDispatching(t, n) => n < finalize_at
      BY Numbers DEF WhileDispatching, IsFor
    <3> QED BY <1>0, <2>1, <3>1, <3>2, <3>3, <3>4
  <2> QED BY <1>0, <2>2, Numbers DEF WhileFinalizing, IsFor, dispatches_last
<1> QED BY <1>1, <1>2 DEF Owes, Open

(* The functions in which a thread may drop resources: it executes them   *)
(* before it has finalized, or while it does.                              *)
DropsIn == LeavesDeletions \cup {"thread_dispatch_callbacks", "finalize_thread_usage"}

LEMMA DropsBefore ==
    ASSUME Types, NEW t \in Spawned, NEW i, FilledAt(t, i)
    PROVE  /\ script[i].fn \in DropsIn => i <= finishes_at[t]
           /\ script[i].fn = "finalize_thread_usage" <=> i = finishes_at[t]
<1>0. i \in Nat /\ (t = "editor" => Editor)
  BY InTime DEF Spawned
<1>d. /\ finishes_at["logic"] = finalize_at + 2 /\ finishes_at["network"] = finalize_at + 4
      /\ finishes_at["sound"] = finalize_at + 6 /\ finishes_at["editor"] = finalize_at + 8
  BY DEF finishes_at
<1>1. CASE WhileStarting(t, i)
  BY <1>0, <1>1, <1>d, Numbers DEF WhileStarting, IsFor
<1>2. CASE WhileSynchronizing(t, i)
  BY <1>0, <1>2, <1>d, Numbers DEF WhileSynchronizing, IsFor
<1>3. CASE WhileClearing(t, i)
  BY <1>0, <1>3, <1>d, Numbers DEF WhileClearing, IsFor
<1>4. CASE WhileDispatching(t, i)
  BY <1>0, <1>4, <1>d, Numbers DEF WhileDispatching, IsFor
<1>5. CASE WhileFinalizing(t, i)
  <2>1. "destroy_device" \notin DropsIn /\ "empty" \notin DropsIn
    BY DEF DropsIn, LeavesDeletions
  <2> QED BY <1>0, <1>5, <1>d, <2>1, Numbers DEF WhileFinalizing, IsFor
<1> QED BY <1>1, <1>2, <1>3, <1>4, <1>5, InTime

(* The render thread leaves nothing to itself, and looks only where it     *)
(* dispatches.                                                             *)
LEMMA RenderLeavesNothing ==
    ASSUME Types, Render
    PROVE  /\ "render" \in delayed' => "render" \in delayed
           /\ deletions' \subseteq deletions
           /\ "render" \in looking' =>
                 \/ "render" \in looking
                 \/ /\ step' = step /\ (step = dispatch_at + 6 \/ step = dispatches_last)
                    /\ "render" \notin deletions
           /\ step' # step /\ (step = dispatch_at + 6 \/ step = dispatches_last) =>
                 "render" \in looking /\ "render" \notin looking'
<1>1. CASE RenderPerforms
  <2>1. /\ Perform("render", script[step].fn) /\ looking' = looking
        /\ script[step].fn # "wait_and_dispatch_callbacks"
    BY <1>1 DEF RenderPerforms
  <2>p. ("render" \in delayed' => "render" \in delayed) /\ deletions' = deletions
    BY <2>1, Performs
  <2>2. ~(step = dispatch_at + 6 \/ step = dispatches_last)
    <3>1. step = dispatch_at + 6 \/ step = dispatches_last =>
             script[step] = LocalOf("wait_and_dispatch_callbacks")
      BY ScriptSays DEF DispatchSays, FinalizeSays, dispatches_last
    <3> QED BY <2>1, <3>1, Fields
  <2> QED BY <2>1, <2>2, <2>p
<1>2. CASE RenderCallsInPlace
  <2>1. /\ script[step].do = "call" /\ looking' = looking
        /\ \/ Perform("render", script[step].fn)
           \/ delayed' = delayed /\ deletions' = deletions
    BY <1>2 DEF RenderCallsInPlace, RenderIsAt
  <2>p. ("render" \in delayed' => "render" \in delayed) /\ deletions' = deletions
    BY <2>1, Performs
  <2>2. ~(step = dispatch_at + 6 \/ step = dispatches_last)
    <3>1. step = dispatch_at + 6 \/ step = dispatches_last =>
             script[step] = LocalOf("wait_and_dispatch_callbacks")
      BY ScriptSays DEF DispatchSays, FinalizeSays, dispatches_last
    <3> QED BY <2>1, <3>1, Fields
  <2> QED BY <2>1, <2>2, <2>p
<1>3. CASE RenderDispatches
  <2>1. /\ Dispatches("render") /\ step' = step /\ looking' \subseteq looking
    BY <1>3 DEF RenderDispatches, Dispatches
  <2>2. ManagerTypes /\ "render" \in Spawned \cup {"render"}
    BY DEF Types
  <2>3. ("render" \in delayed' => "render" \in delayed) /\ deletions' \subseteq deletions
    BY <2>1, <2>2, Dispatching
  <2> QED BY <2>1, <2>3
<1>4. CASE RenderLooks
  <2>1. /\ step \in 1..Len(script) /\ script[step].do = "local"
        /\ script[step].fn = "wait_and_dispatch_callbacks"
    BY <1>4, RenderStatement DEF RenderLooks, RenderIsAtLocal, Types
  <2>2. step = dispatch_at + 6 \/ step = dispatches_last
    BY <2>1, LocalsAre DEF dispatches_last
  <2> QED BY <1>4, <2>2 DEF RenderLooks, Looks
<1>5. CASE RenderHasDispatched
  BY <1>5 DEF RenderHasDispatched, thread_can_exit
<1>6. CASE \/ RenderCalls \/ RenderProceeds \/ RenderWaits \/ RenderSpawns \/ RenderDraws
           \/ RenderLeavesRun \/ RenderSetsDispatched
  <2>1. /\ delayed' = delayed /\ deletions' = deletions /\ looking' = looking
    BY <1>6 DEF RenderCalls, RenderProceeds, RenderWaits, RenderSpawns, RenderDraws,
                RenderLeavesRun, RenderSetsDispatched, engine, manager
  <2>2. step' # step => ~(step = dispatch_at + 6 \/ step = dispatches_last)
    <3>1. step = dispatch_at + 6 \/ step = dispatches_last =>
             script[step] = LocalOf("wait_and_dispatch_callbacks")
      BY ScriptSays DEF DispatchSays, FinalizeSays, dispatches_last
    <3>2. step' # step => \/ script[step].do # "local"
                          \/ script[step].fn \in {"run", "dispatching", "dispatched"}
      BY <1>6 DEF RenderCalls, RenderProceeds, RenderWaits, RenderSpawns, RenderDraws,
                  RenderLeavesRun, RenderSetsDispatched, engine, RenderIsAt, RenderIsAtLocal
    <3> QED BY <3>1, <3>2, Fields
  <2> QED BY <2>1, <2>2
<1> QED BY <1>1, <1>2, <1>3, <1>4, <1>5, <1>6 DEF Render

LEMMA RenderHands ==
    ASSUME RpcInv, RpcInv', ScriptAssumption, Where, CallerIsAt, Filled, Handed, Render
    PROVE  Handed'
<1>0. Types
  BY DEF Where
<1> PICK a \in Nat, b \in Nat : a = dispatch_at + 6 /\ b = dispatches_last /\ a < b
  BY Order DEF dispatches_last
<1>1. step \in Nat /\ (step' = step \/ step' = step + 1)
  BY RenderLeavesThreads
<1>2. dispatches_last' = b /\ (dispatch_at + 6)' = a
  BY DEF dispatches_last, finalize_at, dispatch_at, clear_at, run_at, ed
<1>3. /\ "render" \in delayed' => "render" \in delayed
      /\ deletions' \subseteq deletions
      /\ "render" \in looking' => \/ "render" \in looking
                                  \/ step' = step /\ step \in {a, b} /\ "render" \notin deletions
      /\ step' # step /\ step \in {a, b} => "render" \in looking /\ "render" \notin looking'
  BY <1>0, RenderLeavesNothing
<1>4. ASSUME "render" \in delayed' PROVE \E t \in Spawned : Owes(t)'
  <2> PICK t \in Spawned : Owes(t)
    BY <1>3, <1>4 DEF Handed
  <2> PICK n \in Nat : /\ n = finishes_at[t] /\ CallAt(t, n)
                       /\ script[n].fn = "finalize_thread_usage"
    BY FinishingStatements
  <2>1. (step <= n \/ Open(t, n))'
    <3>1. step <= n \/ Open(t, n)
      BY DEF Owes
    <3>2. script[n].fn # "enable"
      OBVIOUS
    <3> QED BY <3>1, <3>2, RenderReaches
  <2>2. finishes_at'[t] = n
    BY DEF finishes_at, finalize_at, dispatch_at, clear_at, run_at, ed
  <2> QED BY <2>1, <2>2 DEF Owes
<1>5. /\ "render" \in looking => step \in {a, b}
      /\ "render" \in looking /\ step = b => "render" \notin deletions
      /\ step > b => "render" \notin deletions
  BY DEF Handed
<1>6. /\ "render" \in looking' => step' = a \/ step' = b
      /\ "render" \in looking' /\ step' = b => "render" \notin deletions'
      /\ step' > b => "render" \notin deletions'
  BY <1>1, <1>3, <1>5
<1>7. ("render" \in delayed => \E t \in Spawned : Owes(t))'
  BY <1>4 DEF Spawned
<1> QED BY <1>2, <1>6, <1>7 DEF Handed

(* What a thread does to the resources that are left to others             *)
LEMMA ThreadLeaves ==
    ASSUME Types, NEW t \in Spawned, Runs(t)
    PROVE  /\ deletions' \subseteq deletions
           /\ "render" \in looking' => "render" \in looking
           /\ \/ delayed' = delayed
              \/ serving[t].at = "execute" /\ m_callback[t].fn \in DropsIn
           /\ ExecutesOne(t) /\ m_callback[t].fn = "finalize_thread_usage" => delayed' = {}
<1>0. t # "render"
  BY SpawnedArePlaces DEF Place
<1>1. CASE ExecutesCall(t)
  <2>1. /\ Perform(t, m_callback[t].fn) /\ looking' = looking \ {t}
        /\ MayEnd(t, m_callback[t].fn) /\ serving[t].at = "execute"
    BY <1>1 DEF ExecutesCall, Executes, Serve
  <2>2. m_callback[t].fn = "finalize_thread_usage" => delayed = {}
    BY <2>1 DEF MayEnd, thread_can_exit
  <2>3. m_callback[t].fn \notin LeavesDeletions => delayed' = delayed
    BY <2>1 DEF Perform
  <2>4. deletions' = deletions
    BY <2>1 DEF Perform
  <2>5. "finalize_thread_usage" \notin LeavesDeletions
    BY DEF LeavesDeletions
  <2> QED BY <2>1, <2>2, <2>3, <2>4, <2>5 DEF DropsIn
<1>2. CASE DispatchesInCall(t)
  <2>1. /\ serving[t].at = "execute" /\ serving' = serving /\ Dispatches(t)
        /\ m_callback[t].fn \in DropsIn
    BY <1>2 DEF DispatchesInCall, Dispatches, rpcVars, DropsIn
  <2> QED BY <2>1 DEF Dispatches, ExecutesOne
<1>3. CASE LooksInCall(t)
  BY <1>0, <1>3 DEF LooksInCall, Looks, ExecutesOne, rpcVars
<1>4. CASE \/ InitializeModules(t) \/ EntersProcess(t) \/ Takes(t) \/ AnswersCall(t)
           \/ Decides(t) \/ Tick(t) \/ LoopsOn(t) \/ TriesCall(t)
  <2>1. delayed' = delayed /\ deletions' = deletions /\ looking' = looking
    BY <1>4 DEF InitializeModules, EntersProcess, Takes, AnswersCall, Decides, Tick, LoopsOn,
                TriesCall, engine, manager
  <2>2. ~ExecutesOne(t)
    BY <1>4 DEF ExecutesOne, InitializeModules, EntersProcess, Takes, AnswersCall, Decides, Tick,
                LoopsOn, TriesCall, rpcVars, ProcessStarts, ProcessTakes, Answers, ProcessDecides,
                TryTakes, Away
  <2> QED BY <2>1, <2>2
<1> QED BY <1>1, <1>2, <1>3, <1>4 DEF Runs

LEMMA ThreadHands ==
    ASSUME RpcInv, RpcTypeOK', ScriptAssumption, Where, CallerIsAt, Filled, Handed,
           NEW t \in Spawned, Runs(t)
    PROVE  Handed'
<1>0. Types /\ step' = step /\ step \in Nat
  <2>1. Types /\ step' = step
    BY ThreadSteps DEF Where
  <2> QED BY <2>1, Numbers DEF Types
<1>1. /\ deletions' \subseteq deletions /\ ("render" \in looking' => "render" \in looking)
      /\ \/ delayed' = delayed
         \/ serving[t].at = "execute" /\ m_callback[t].fn \in DropsIn
      /\ ExecutesOne(t) /\ m_callback[t].fn = "finalize_thread_usage" => delayed' = {}
  BY <1>0, ThreadLeaves
<1>2. \A u \in Spawned : finishes_at'[u] = finishes_at[u]
  BY DEF finishes_at, finalize_at, dispatch_at, clear_at, run_at, ed
<1>3. ASSUME NEW u \in Spawned, u # t \/ ~ExecutesOne(t) PROVE Owes(u)' <=> Owes(u)
  <2> PICK n : n = finishes_at[u]
    OBVIOUS
  <2>1. Open(u, n)' <=> Open(u, n)
    <3>1. CASE u # t
      BY <3>1, ThreadKeeps
    <3>2. CASE u = t /\ ~ExecutesOne(t)
      BY <3>2, ThreadKeeps
    <3> QED BY <1>3, <3>1, <3>2
  <2>2. finishes_at'[u] = n
    BY <1>2
  <2> QED BY <1>0, <2>1, <2>2 DEF Owes
<1> PICK n \in Nat : /\ n = finishes_at[t] /\ CallAt(t, n)
  BY FinishingStatements
(* While t executes a call it has not finalized, and still will unless it  *)
(* is that call.                                                           *)
<1>4. ASSUME serving[t].at = "execute", m_callback[t].fn \in DropsIn
      PROVE  Owes(t) /\ (m_callback[t].fn # "finalize_thread_usage" => Owes(t)')
  <2>1. m_pending[t]
    <3>1. t \in Slot
      BY ServedWhere DEF RpcInv
    <3> QED BY <1>4, <3>1 DEF RpcInv, CalleeKnowsCall
  <2>2. PICK i \in 1..Len(script) : FilledAt(t, i)
    BY <2>1 DEF Filled
  <2>3. m_callback[t].fn = script[i].fn
    BY <2>2 DEF FilledAt, CallOf
  <2>4. i <= n /\ (script[i].fn = "finalize_thread_usage" <=> i = n)
    BY <1>0, <1>4, <2>2, <2>3, DropsBefore
  <2>5. Owes(t)
    <3>1. step <= n \/ Open(t, n)
      BY <1>0, <1>4, <2>1, <2>2, <2>4, LaterOpens
    <3> QED BY <3>1 DEF Owes
  <2>6. ASSUME m_callback[t].fn # "finalize_thread_usage" PROVE Owes(t)'
    <3>1. CASE ~ExecutesOne(t)
      BY <1>3, <2>5, <3>1
    <3>2. CASE ExecutesOne(t)
      <4>1. PICK j : FilledAt(t, j) /\ \A k : k # j => (Open(t, k)' <=> Open(t, k))
        BY <3>2, ThreadKeeps
      <4>2. j = i
        BY <1>0, <2>2, <4>1, OneFilling
      <4>3. Open(t, n)' <=> Open(t, n)
        BY <2>3, <2>4, <2>6, <4>1, <4>2
      <4> QED BY <1>0, <1>2, <2>5, <4>3 DEF Owes
    <3> QED BY <3>1, <3>2
  <2> QED BY <2>5, <2>6
<1>5. ASSUME "render" \in delayed' PROVE \E u \in Spawned : Owes(u)'
  <2>1. CASE serving[t].at = "execute" /\ m_callback[t].fn \in DropsIn
    <3>1. CASE m_callback[t].fn = "finalize_thread_usage"
      <4>1. ~ExecutesOne(t)
        BY <1>1, <1>5, <3>1
      <4> QED BY <1>3, <1>4, <2>1, <4>1
    <3> QED BY <1>4, <2>1, <3>1
  <2>2. CASE ~(serving[t].at = "execute" /\ m_callback[t].fn \in DropsIn)
    <3>1. PICK u \in Spawned : Owes(u)
      BY <1>1, <1>5, <2>2 DEF Handed
    <3>2. CASE u # t \/ ~ExecutesOne(t)
      BY <1>3, <3>1, <3>2
    <3>3. CASE u = t /\ ExecutesOne(t)
      <4>1. PICK j \in 1..Len(script) :
                      FilledAt(t, j) /\ \A k : k # j => (Open(t, k)' <=> Open(t, k))
        BY <3>3, ThreadKeeps
      <4>2. m_callback[t].fn = script[j].fn /\ m_callback[t].fn # "finalize_thread_usage"
        BY <2>2, <3>3, <4>1 DEF FilledAt, CallOf, ExecutesOne, DropsIn
      <4>3. j # n
        BY <1>0, <4>1, <4>2, DropsBefore
      <4>4. Open(t, n)' <=> Open(t, n)
        BY <4>1, <4>3
      <4> QED BY <1>0, <1>2, <3>1, <3>3, <4>4 DEF Owes
    <3> QED BY <3>2, <3>3
  <2> QED BY <2>1, <2>2
<1>6. ("render" \in delayed => \E u \in Spawned : Owes(u))'
  BY <1>5 DEF Spawned
<1>7. dispatches_last' = dispatches_last /\ (dispatch_at + 6)' = dispatch_at + 6
  BY DEF dispatches_last, finalize_at, dispatch_at, clear_at, run_at, ed
<1> QED BY <1>0, <1>1, <1>6, <1>7 DEF Handed

(* What is handed over to the render thread, it has yet to look for.       *)
LEMMA OthersHand ==
    ASSUME RpcInv, ScriptAssumption, Where, Handed, HandsOver \/ Quits \/ UNCHANGED vars
    PROVE  Handed'
<1>1. /\ UNCHANGED <<step, m_callback, m_pending, calling, serving, looking>>
      /\ "render" \in delayed' => "render" \in delayed
      /\ "render" \in deletions' => "render" \in delayed \cup deletions
  BY DEF HandsOver, Quits, RenderQuits, GameQuits, EditorCloses, vars, rpcVars, slots, engine, manager
<1>2. ASSUME NEW t \in Spawned PROVE Owes(t)' <=> Owes(t)
  <2> PICK n : n = finishes_at[t]
    OBVIOUS
  <2>1. finishes_at'[t] = n /\ (Open(t, n)' <=> Open(t, n))
    BY <1>1 DEF finishes_at, finalize_at, dispatch_at, clear_at, run_at, ed,
                Open, Posting, FilledAt, CallAt, CallOf
  <2> QED BY <1>1, <2>1 DEF Owes
<1>3. step \in Nat /\ dispatches_last \in Nat /\ dispatches_last' = dispatches_last
      /\ (dispatch_at + 6)' = dispatch_at + 6
  <2>1. step \in Nat /\ dispatches_last \in Nat
    BY Bounds DEF Where, Types, dispatches_last
  <2> QED BY <2>1 DEF dispatches_last, finalize_at, dispatch_at, clear_at, run_at, ed
<1>4. "render" \in delayed => step < dispatches_last
  BY OwesUntil DEF Handed, Where
<1>5. "render" \in deletions' /\ step >= dispatches_last => "render" \in deletions
  BY <1>1, <1>3, <1>4
<1>6. ("render" \in delayed => \E t \in Spawned : Owes(t))'
  BY <1>1, <1>2 DEF Handed, Spawned
<1>7. /\ "render" \in looking /\ step = dispatches_last => "render" \notin deletions'
      /\ step > dispatches_last => "render" \notin deletions'
  BY <1>3, <1>5 DEF Handed
<1> QED BY <1>1, <1>3, <1>6, <1>7 DEF Handed

LEMMA HandedThroughout ==
    ASSUME ScriptAssumption, OneCaller
    PROVE  EngineSpec => []Handed
<1>1. EngineSpec => /\ [](Types /\ Where /\ Stopping)
                    /\ [](RpcInv /\ Attending /\ Living /\ Settled)
  BY AttendsThroughout
<1>2. EngineInit => Handed
  <2> SUFFICES ASSUME EngineInit PROVE Handed
    OBVIOUS
  <2>1. delayed = {} /\ deletions = {} /\ looking = {}
    BY DEF EngineInit
  <2> QED BY <2>1 DEF Handed
<1>3. Handed /\ (Types /\ Where /\ Stopping) /\ (RpcInv /\ Attending /\ Living /\ Settled)
          /\ RpcInv' /\ [EngineNext]_vars => Handed'
  <2> SUFFICES ASSUME Handed, Where, RpcInv, Attending, RpcInv', [EngineNext]_vars
               PROVE  Handed'
    OBVIOUS
  <2>1. CASE Render
    BY <2>1, RenderHands DEF Attending
  <2>2. ASSUME NEW t \in Spawned, Runs(t) PROVE Handed'
    BY <2>2, ThreadHands DEF RpcInv, Attending
  <2>3. CASE HandsOver \/ Quits \/ UNCHANGED vars
    BY <2>3, OthersHand
  <2> QED BY <2>1, <2>2, <2>3 DEF EngineNext, Stopped
<1> QED BY <1>1, <1>2, <1>3, PTL DEF EngineSpec

(* Nothing is left behind: when finalize_core is called every other world  *)
(* is destroyed, no query waits for any thread, and no deletion for the    *)
(* render thread, whoever dropped its resources and however late the       *)
(* manager handed them over; and no query waits for a thread that has      *)
(* ended.  Of the deletions of the other threads it says nothing.          *)
THEOREM NothingIsLeft ==
    ASSUME ScriptAssumption, OneCaller PROVE EngineSpec => []NothingIsLeftBehind
<1>1. (Types /\ Where /\ Stopping) /\ (RpcInv /\ Attending /\ Living /\ Settled) /\ Handed
         => NothingIsLeftBehind
  <2> SUFFICES ASSUME Types, Attending, Living, Settled, Handed PROVE NothingIsLeftBehind
    OBVIOUS
  <2>0. step \in Nat /\ (step # End => step \in 1..Len(script))
    BY Order DEF Types, End
  <2>1. ASSUME step # End, script[step] = [do |-> "local", fn |-> "finalize_core"]
        PROVE  worlds = {"core"} /\ queries = {} /\ "render" \notin delayed \cup deletions
    <3>1. step = finalize_at + 15 + 2 * ed
      BY <2>0, <2>1, RenderDoes
    <3>2. "core" \in worlds /\ "render" \notin worlds
      BY <2>0, <3>1, Order DEF Living, End
    <3>3. ASSUME NEW t \in Spawned PROVE ~Kept(t)
      <4> PICK n : n = destroys_at[t]
        OBVIOUS
      <4>1. n \in Nat /\ n < finalize_at + 9
        BY DestroyingStatements
      <4>2. ~FilledAt(t, n)
        <5>1. FilledAt(t, n) => step <= finalize_at + 9
          BY WhatIsExecuted
        <5> QED BY <2>0, <3>1, <5>1, Order
      <4>3. n # step - 1 /\ ~(step <= n)
        BY <2>0, <3>1, <4>1, Order
      <4> QED BY <4>2, <4>3 DEF Kept, Open
    <3>4. \A t \in {"logic", "network", "sound", "editor"} : t \notin worlds
      BY <3>3 DEF Living, Place
    <3>5. queries = {}
      BY <2>0, <3>1, Order DEF Settled
    <3>6. dispatches_last < step
      BY <2>0, <3>1, Order DEF dispatches_last
    <3>7. "render" \notin delayed
      <4>1. \A t \in Spawned : Owes(t) => step < dispatches_last
        BY OwesUntil
      <4>2. dispatches_last \in Nat
        BY Order DEF dispatches_last
      <4> QED BY <2>0, <3>6, <4>1, <4>2 DEF Handed
    <3>8. "render" \notin deletions
      BY <3>6 DEF Handed
    <3> QED BY <3>2, <3>4, <3>5, <3>7, <3>8 DEF Types
  <2>2. ASSUME NEW t \in Spawned, at[t] = "done" PROVE t \notin queries
    <3>1. step > finalize_at
      BY <2>2 DEF Attending, Ending
    <3> QED BY <2>0, <3>1, Order DEF Settled
  <2> QED BY <2>1, <2>2 DEF NothingIsLeftBehind
<1> QED BY <1>1, AttendsThroughout, HandedThroughout, PTL

-----------------------------------------------------------------------------
(* Whoever the render thread waits for goes on                             *)

(* The last call of each thread, which ends it, and the one that lets it   *)
(* dispatch callbacks.                                                     *)
ends_at == [logic |-> finalize_at + 2, network |-> finalize_at + 4,
            sound |-> finalize_at + 6, editor |-> finalize_at + 14 + 2 * ed]
dispatches_at == [logic |-> dispatch_at + 2, network |-> dispatch_at + 3,
                  sound |-> dispatch_at + 4, editor |-> dispatch_at + 5]

(* A thread whose spawning the script has passed is there.                 *)
Born == \A i \in 1..Len(script), t \in Spawned :
    i < step /\ Spawns(script[i], t) => at[t] # "unborn"

(* Nothing is to come for a thread that has executed its last call.        *)
Ended(t) == at[t] = "done" \/ Leaving(t, "last") => step > ends_at[t] /\ ~Open(t, ends_at[t])

(* While the render thread dispatches its callbacks, nobody is released    *)
(* from thread_dispatch_callbacks; then everybody is.                      *)
Held(t) == step <= dispatch_at + 7 => step <= dispatches_at[t] \/ Open(t, dispatches_at[t])
Releasing ==
    /\ dispatch_at + 1 < step /\ step <= dispatch_at + 7 => ~s_resource_callbacks_dispatched
    /\ dispatch_at + 7 < step => s_resource_callbacks_dispatched

Progressing ==
    /\ Born /\ Releasing
    /\ calling["render"].at = "complete" => calling["render"].wait
    /\ \A t \in Spawned : /\ at[t] = "last" => m_destruction_started
                          /\ Ended(t) /\ Held(t)

LEMMA LastStatements ==
    ASSUME NEW t \in Spawned
    PROVE  \E n \in Nat, d \in Nat :
              /\ n = ends_at[t] /\ d = dispatches_at[t]
              /\ CallAt(t, n) /\ script[n].fn # "enable" /\ script[n].break
              /\ finalize_at < n
              /\ CallAt(t, d) /\ script[d].fn = "thread_dispatch_callbacks"
              /\ dispatch_at + 1 < d /\ d <= dispatch_at + 5
<1>0. /\ t \in {"logic", "network", "sound", "editor"} /\ (t = "editor" => Editor)
      /\ finalize_at \in Nat /\ dispatch_at \in Nat /\ ed \in Nat /\ Len(script) \in Nat
      /\ Len(script) = finalize_at + 15 + 2 * ed /\ finalize_at = dispatch_at + 11
  BY SpawnedArePlaces, Bounds, Parts DEF Place, Spawned
<1>1. CASE t = "logic"
  <2>1. /\ script[finalize_at + 2] = RemoteCallTo("logic", "finalize_thread_usage", "breaks")
        /\ script[dispatch_at + 2] = RemoteCallTo("logic", "thread_dispatch_callbacks", "calls")
    BY ScriptSays DEF DispatchSays, FinalizeSays
  <2>2. PICK n \in Nat, d \in Nat : n = finalize_at + 2 /\ d = dispatch_at + 2
    BY <1>0
  <2>3. /\ n \in 1..Len(script) /\ d \in 1..Len(script) /\ finalize_at < n
        /\ dispatch_at + 1 < d /\ d <= dispatch_at + 5
    BY <1>0, <2>2
  <2>4. n = ends_at[t] /\ d = dispatches_at[t]
    BY <1>1, <2>2 DEF ends_at, dispatches_at
  <2> QED BY <1>1, <2>1, <2>2, <2>3, <2>4, Fields, Manners DEF CallAt
<1>2. CASE t = "network"
  <2>1. /\ script[finalize_at + 4] = RemoteCallTo("network", "finalize_thread_usage", "breaks")
        /\ script[dispatch_at + 3] = RemoteCallTo("network", "thread_dispatch_callbacks", "calls")
    BY ScriptSays DEF DispatchSays, FinalizeSays
  <2>2. PICK n \in Nat, d \in Nat : n = finalize_at + 4 /\ d = dispatch_at + 3
    BY <1>0
  <2>3. /\ n \in 1..Len(script) /\ d \in 1..Len(script) /\ finalize_at < n
        /\ dispatch_at + 1 < d /\ d <= dispatch_at + 5
    BY <1>0, <2>2
  <2>4. n = ends_at[t] /\ d = dispatches_at[t]
    BY <1>2, <2>2 DEF ends_at, dispatches_at
  <2> QED BY <1>2, <2>1, <2>2, <2>3, <2>4, Fields, Manners DEF CallAt
<1>3. CASE t = "sound"
  <2>1. /\ script[finalize_at + 6] = RemoteCallTo("sound", "finalize_thread_usage", "breaks")
        /\ script[dispatch_at + 4] = RemoteCallTo("sound", "thread_dispatch_callbacks", "calls")
    BY ScriptSays DEF DispatchSays, FinalizeSays
  <2>2. PICK n \in Nat, d \in Nat : n = finalize_at + 6 /\ d = dispatch_at + 4
    BY <1>0
  <2>3. /\ n \in 1..Len(script) /\ d \in 1..Len(script) /\ finalize_at < n
        /\ dispatch_at + 1 < d /\ d <= dispatch_at + 5
    BY <1>0, <2>2
  <2>4. n = ends_at[t] /\ d = dispatches_at[t]
    BY <1>3, <2>2 DEF ends_at, dispatches_at
  <2> QED BY <1>3, <2>1, <2>2, <2>3, <2>4, Fields, Manners DEF CallAt
<1>4. CASE t = "editor"
  <2>1. /\ script[finalize_at + 14 + 2 * ed] = RemoteCallTo("editor", "empty", "both")
        /\ script[dispatch_at + 5] = RemoteCallTo("editor", "thread_dispatch_callbacks", "calls")
    BY ScriptSays DEF DispatchSays, FinalizeSays
  <2>2. PICK n \in Nat, d \in Nat : n = finalize_at + 14 + 2 * ed /\ d = dispatch_at + 5
    BY <1>0
  <2>3. /\ n \in 1..Len(script) /\ d \in 1..Len(script) /\ finalize_at < n
        /\ dispatch_at + 1 < d /\ d <= dispatch_at + 5
    BY <1>0, <2>2
  <2>4. n = ends_at[t] /\ d = dispatches_at[t]
    BY <1>4, <2>2 DEF ends_at, dispatches_at
  <2> QED BY <1>4, <2>1, <2>2, <2>3, <2>4, Fields, Manners DEF CallAt
<1> QED BY <1>0, <1>1, <1>2, <1>3, <1>4

(* The call that ends the last rpc::process is the last one of its thread, *)
(* and no call of a thread comes after it.                                 *)
LEMMA LastCall ==
    ASSUME NEW t \in Spawned, NEW i, CallAt(t, i), i > finalize_at
    PROVE  i <= ends_at[t] /\ (script[i].break => i = ends_at[t])
<1>0. /\ i \in Nat /\ i \in 1..Len(script) /\ script[i].do = "call" /\ script[i].to = t
      /\ finalize_at \in Nat /\ ed \in Nat /\ (t = "editor" => Editor)
      /\ Len(script) = finalize_at + 15 + 2 * ed
  BY Bounds, Parts DEF CallAt, Spawned
<1>1. ~CallsOfStart(i, script[i]) /\ ~CallsOfBarrier(i, script[i])
      /\ ~CallsOfClear(i, script[i]) /\ ~CallsOfDispatch(i, script[i])
  <2>1. CallsOfStart(i, script[i]) => i <= run_at
    BY <1>0, Numbers DEF CallsOfStart
  <2>2. CallsOfBarrier(i, script[i]) => i <= clear_at
    <3>1. run_at \in Nat /\ clear_at \in Nat /\ run_at + 4 <= clear_at
      BY Numbers
    <3>2. CallsOfBarrier(i, script[i]) =>
             i = run_at + 1 \/ i = run_at + 2 \/ i = run_at + 3 \/ i = run_at + 4
      BY DEF CallsOfBarrier
    <3> QED BY <1>0, <3>1, <3>2
  <2>3. CallsOfClear(i, script[i]) => i <= dispatch_at
    BY <1>0, Numbers DEF CallsOfClear
  <2>4. CallsOfDispatch(i, script[i]) => i <= finalize_at
    BY <1>0, Numbers DEF CallsOfDispatch
  <2> QED BY <1>0, <2>1, <2>2, <2>3, <2>4, Bounds
<1>2. CallsOfFinalize(i, script[i])
  BY <1>0, <1>1, StatementAt
<1>3. \/ t = "logic" /\ i = finalize_at + 1 /\ ~script[i].break
      \/ t = "logic" /\ i = finalize_at + 2
      \/ t = "network" /\ i = finalize_at + 3 /\ ~script[i].break
      \/ t = "network" /\ i = finalize_at + 4
      \/ t = "sound" /\ i = finalize_at + 5 /\ ~script[i].break
      \/ t = "sound" /\ i = finalize_at + 6
      \/ t = "editor" /\ i = finalize_at + 7 /\ ~script[i].break
      \/ t = "editor" /\ i = finalize_at + 8 /\ ~script[i].break
      \/ t = "editor" /\ i = finalize_at + 12 + 2 * ed /\ ~script[i].break
      \/ t = "editor" /\ i = finalize_at + 14 + 2 * ed
  BY <1>0, <1>2, Fields, Manners DEF CallsOfFinalize
<1>4. /\ t = "logic" => ends_at[t] = finalize_at + 2
      /\ t = "network" => ends_at[t] = finalize_at + 4
      /\ t = "sound" => ends_at[t] = finalize_at + 6
      /\ t = "editor" => ends_at[t] = finalize_at + 14 + 2 * ed
  BY DEF ends_at
<1>5. t = "editor" => finalize_at + 8 <= finalize_at + 14 + 2 * ed
  BY <1>0
<1> QED BY <1>0, <1>3, <1>4, <1>5

(* The threads: only the last call lets one end, and no thread executes    *)
(* thread_dispatch_callbacks to its end before it is released.             *)
LEMMA ThreadProgresses ==
    ASSUME RpcInv, RpcTypeOK', ScriptAssumption, Where, Attending, Progressing,
           NEW t \in Spawned, Runs(t)
    PROVE  Progressing'
<1>0. /\ Types /\ CallerIsAt /\ Filled /\ step \in Nat
      /\ \A u \in Spawned : Ended(u) /\ Held(u)
  BY Numbers DEF Attending, Where, Types, Progressing
<1>1. /\ step' = step /\ calling' = calling
      /\ s_resource_callbacks_dispatched' = s_resource_callbacks_dispatched
      /\ m_destruction_started' = m_destruction_started
      /\ \A u \in Spawned \ {t} : /\ executed'[u] = executed[u]
                                 /\ serving'[u] = serving[u] /\ at'[u] = at[u]
      /\ ExecutesOne(t) \/ AnswersOne(t) \/ DecidesOne(t) \/ TakesOne(t) \/ LoopsOnce(t)
      /\ PlacedAt(t)
  <2>1. UNCHANGED <<s_resource_callbacks_dispatched, m_destruction_started>>
    BY DEF Runs, InitializeModules, EntersProcess, Takes, ExecutesCall, DispatchesInCall, LooksInCall,
           AnswersCall, Decides, Tick, LoopsOn, TriesCall, Dispatches, Looks, engine, manager
  <2> QED BY <2>1, ThreadSteps DEF Where, Placed
<1>2. \A u \in Spawned : \A i : Open(u, i)' => Open(u, i)
  <2>1. \A i : Open(t, i)' => Open(t, i)
    BY <1>0, ThreadKeeps
  <2> QED BY <1>0, <2>1, ThreadKeeps
<1>3. ASSUME ~ExecutesOne(t)
      PROVE  /\ at'[t] = "unborn" => at[t] = "unborn"
             /\ at'[t] = "last" => at[t] = "last" \/ m_destruction_started
             /\ at'[t] = "done" \/ Leaving(t, "last")' => at[t] = "done" \/ Leaving(t, "last")
  <2>1. CASE AnswersOne(t)
    BY <2>1 DEF AnswersOne, Leaving
  <2>2. CASE DecidesOne(t)
    BY <2>2 DEF DecidesOne, Leaving, AfterProcess, InProcess
  <2>3. CASE TakesOne(t)
    BY <2>3 DEF TakesOne, Leaving, InProcess
  <2>4. CASE LoopsOnce(t) /\ at'[t] = at[t]
    BY <2>4 DEF LoopsOnce, Leaving
  <2>5. CASE LoopsOnce(t) /\ at'[t] # at[t]
    <3>1. serving[t].at = "away" /\ serving'[t].at = "away" /\ at'[t] \notin {"done", "unborn"}
      BY <2>5 DEF LoopsOnce, InitializeModules, Goes, Where, Types
    <3>2. at'[t] = "last" => m_destruction_started
      <4>1. Moves(t)
        BY ThreadStaysWhere DEF RpcInv
      <4>2. at'[t] = "last" => at[t] = "ahead"
        BY <2>5, <4>1 DEF Moves
      <4>3. at[t] = "ahead" => LoopsOn(t) \/ at'[t] = at[t]
        BY <1>0, <3>1 DEF Runs, InitializeModules, EntersProcess, Takes, ExecutesCall,
           DispatchesInCall, LooksInCall, AnswersCall, Decides, ProcessDecides, Tick, TriesCall, Dispatches, Looks,
           engine, manager, Goes
      <4>4. LoopsOn(t) /\ at'[t] = "last" => m_destruction_started
        BY DEF LoopsOn, Goes, Where, Types
      <4> QED BY <2>5, <4>2, <4>3, <4>4
    <3> QED BY <3>1, <3>2 DEF Leaving
  <2> QED BY <1>1, <1>3, <2>1, <2>2, <2>3, <2>4, <2>5
<1>4. Born'
  <2>1. \A u \in Spawned : at'[u] = "unborn" => at[u] = "unborn"
    BY <1>1, <1>3 DEF ExecutesOne
  <2> QED BY <1>1, <2>1 DEF Progressing, Born
<1>5. Releasing'
  BY <1>1 DEF Progressing, Releasing, dispatch_at, clear_at, run_at, ed
<1>6. ASSUME NEW u \in Spawned PROVE at'[u] = "last" => m_destruction_started'
  BY <1>1, <1>3 DEF Progressing, ExecutesOne
<1>7. ASSUME NEW u \in Spawned PROVE Ended(u)'
  <2> PICK n \in Nat : n = ends_at[u]
    BY LastStatements
  <2>0. (at[u] = "done" \/ Leaving(u, "last")) => step > n /\ ~Open(u, n)
    BY <1>0 DEF Ended
  <2> SUFFICES ASSUME at'[u] = "done" \/ Leaving(u, "last")' PROVE step > n /\ ~Open(u, n)'
    BY <1>1 DEF Ended, ends_at, finalize_at, dispatch_at, clear_at, run_at, ed
  <2>1. CASE u # t
    BY <1>1, <1>2, <2>0, <2>1 DEF Leaving
  <2>2. CASE u = t /\ ~ExecutesOne(t)
    BY <1>2, <1>3, <2>0, <2>2
  <2>3. CASE u = t /\ ExecutesOne(t)
    <3>1. PICK i \in 1..Len(script) :
                    /\ FilledAt(t, i) /\ Open(t, i) /\ ~Open(t, i)'
                    /\ \A j : j # i => (Open(t, j)' <=> Open(t, j))
      BY <1>0, <2>3, ThreadKeeps
    <3>2. /\ at'[t] = at[t] /\ executed'[t] = m_callback[t] /\ i < step /\ CallAt(t, i)
          /\ serving[t].at = "execute" /\ m_callback[t] = CallOf(i)
      BY <2>3, <3>1 DEF ExecutesOne, FilledAt
    <3>3. at[t] = "last" /\ m_callback[t].break /\ script[i].break
      BY <1>1, <2>3, <3>2 DEF Leaving, PlacedAt, InProcess, CallOf
    <3>4. i > finalize_at
      BY <2>3, <3>1, <3>3, BreaksWhere
    <3>5. i = n
      BY <2>3, <3>2, <3>3, <3>4, LastCall
    <3> QED BY <2>3, <3>1, <3>2, <3>5
  <2> QED BY <2>1, <2>2, <2>3
<1>8. ASSUME NEW u \in Spawned PROVE Held(u)'
  <2> PICK d \in Nat : /\ d = dispatches_at[u] /\ script[d].fn = "thread_dispatch_callbacks"
                       /\ dispatch_at + 1 < d /\ d <= dispatch_at + 5
    BY LastStatements
  <2>0. step <= dispatch_at + 7 => step <= d \/ Open(u, d)
    BY <1>0 DEF Held
  <2> SUFFICES ASSUME step <= dispatch_at + 7, d < step PROVE Open(u, d)'
    BY <1>0, <1>1 DEF Held, dispatches_at, dispatch_at, clear_at, run_at, ed
  <2>1. Open(u, d) /\ ~s_resource_callbacks_dispatched
    BY <1>0, <2>0, Bounds DEF Progressing, Releasing
  <2>2. CASE u # t
    BY <1>0, <2>1, <2>2, ThreadKeeps
  <2>3. CASE u = t /\ ~ExecutesOne(t)
    BY <1>0, <2>1, <2>3, ThreadKeeps
  <2>4. CASE u = t /\ ExecutesOne(t)
    <3>1. PICK i \in 1..Len(script) :
                    /\ FilledAt(t, i) /\ Open(t, i) /\ ~Open(t, i)'
                    /\ \A j : j # i => (Open(t, j)' <=> Open(t, j))
      BY <1>0, <2>4, ThreadKeeps
    <3>2. MayEnd(t, m_callback[t].fn)
      <4>1. serving[t].at = "execute" /\ serving'[t].at = "answer" /\ serving' # serving
        BY <2>4 DEF ExecutesOne
      <4>2. serving[t] # Away
        BY <4>1 DEF Away
      <4> QED BY <4>1, <4>2 DEF Runs, InitializeModules, EntersProcess, ProcessStarts, Takes,
               ProcessTakes, ExecutesCall, DispatchesInCall, LooksInCall, AnswersCall, Answers, Decides,
               ProcessDecides, Tick, LoopsOn, TriesCall, TryTakes, Dispatches, Looks, rpcVars
    <3>3. m_callback[t].fn # "thread_dispatch_callbacks"
      BY <2>1, <3>2 DEF MayEnd
    <3>4. i # d
      BY <2>4, <3>1, <3>3 DEF FilledAt, CallOf
    <3> QED BY <2>1, <2>4, <3>1, <3>4
  <2> QED BY <2>2, <2>3, <2>4
<1>9. (calling["render"].at = "complete" => calling["render"].wait)'
  BY <1>1 DEF Progressing
<1> QED BY <1>1, <1>4, <1>5, <1>6, <1>7, <1>8, <1>9 DEF Progressing

LEMMA RenderReleases ==
    ASSUME Types, Releasing, Render
    PROVE  Releasing'
<1>0. /\ step \in Nat /\ (step' = step \/ step' = step + 1) /\ dispatch_at \in Nat
      /\ dispatch_at + 7 < Len(script) /\ Len(script) \in Nat
  <2>1. step' # step => step' = step + 1
    BY Proceeding
  <2>2. dispatch_at + 7 < Len(script) /\ dispatch_at \in Nat /\ Len(script) \in Nat
    BY Bounds, Parts
  <2>3. step \in Nat
    BY Bounds DEF Types
  <2> QED BY <2>1, <2>2, <2>3
<1> SUFFICES /\ dispatch_at + 1 < step' /\ step' <= dispatch_at + 7 => ~s_resource_callbacks_dispatched'
             /\ dispatch_at + 7 < step' => s_resource_callbacks_dispatched'
  BY DEF Releasing, dispatch_at, clear_at, run_at, ed
<1>1. CASE RenderSetsDispatched
  <2>1. /\ step \in 1..Len(script) /\ script[step].do = "local" /\ step' = step + 1
        /\ s_resource_callbacks_dispatched' = (script[step].fn = "dispatched")
        /\ script[step].fn \in {"dispatching", "dispatched"}
    BY <1>1, RenderStatement DEF RenderSetsDispatched, RenderIsAtLocal, NextStep, Types
  <2>2. \/ step = dispatch_at + 1 /\ ~s_resource_callbacks_dispatched'
        \/ step = dispatch_at + 7 /\ s_resource_callbacks_dispatched'
    BY <2>1, LocalsAre
  <2> QED BY <1>0, <2>1, <2>2
<1>2. CASE ~RenderSetsDispatched
  <2>1. s_resource_callbacks_dispatched' = s_resource_callbacks_dispatched
    BY <1>2 DEF Render, RenderCalls, RenderProceeds, RenderCallsInPlace, RenderWaits, RenderSpawns,
         RenderPerforms, RenderDraws, RenderLeavesRun, RenderDispatches,
         RenderLooks, RenderHasDispatched, Dispatches, Looks, engine, manager
  <2>2. step' # step => step # dispatch_at + 1 /\ step # dispatch_at + 7
    <3> SUFFICES ASSUME step' # step, step = dispatch_at + 1 \/ step = dispatch_at + 7
                 PROVE  FALSE
      OBVIOUS
    <3>1. script[step] = LocalOf("dispatching") \/ script[step] = LocalOf("dispatched")
      BY ScriptSays DEF DispatchSays
    <3>2. script[step].do = "local" /\ script[step].fn \in {"dispatching", "dispatched"}
      BY <3>1, Fields
    <3> QED BY <1>2, <3>2 DEF Render, RenderCalls, RenderProceeds, RenderCallsInPlace, RenderWaits,
         RenderSpawns, RenderPerforms, RenderDraws, RenderLeavesRun, RenderDispatches,
         RenderLooks, RenderHasDispatched, Dispatches, Looks, engine, manager, RenderIsAt, RenderIsAtLocal
  <2> QED BY <1>0, <2>1, <2>2 DEF Releasing
<1> QED BY <1>1, <1>2

LEMMA RenderProgresses ==
    ASSUME RpcInv, RpcInv', ScriptAssumption, Where, Attending, Progressing, Render
    PROVE  Progressing'
<1>0. /\ Types /\ CallerIsAt /\ Filled /\ step \in Nat /\ RpcTypeOK /\ "render" \in Thread
      /\ \A u \in Spawned : Ended(u) /\ Held(u)
  BY Numbers DEF Attending, Where, Types, Progressing, RpcInv, ScriptAssumption
<1>1. /\ serving' = serving /\ executed' = executed
      /\ (step' = step \/ step' = step + 1)
      /\ m_destruction_started' = m_destruction_started
      /\ \A t \in Spawned : at'[t] = at[t] \/ (at[t] = "unborn" /\ at'[t] = "init")
  BY RenderLeavesThreads, RenderStaysWhere
<1>2. ASSUME NEW i \in 1..Len(script), NEW t \in Spawned, i < step', Spawns(script[i], t)
      PROVE  at'[t] # "unborn"
  <2>1. CASE i < step
    <3>1. at[t] # "unborn"
      BY <1>2, <2>1 DEF Progressing, Born
    <3> QED BY <1>1, <3>1
  <2>2. CASE ~(i < step)
    <3>1. i = step /\ step' # step /\ i \in Nat
      BY <1>0, <1>1, <1>2, <2>2
    <3>2. script[step].do = "spawn" /\ script[step].to = t
      BY <1>2, <3>1 DEF Spawns
    <3>3. RenderSpawns
      BY <3>1, <3>2 DEF Render, RenderCalls, RenderProceeds, RenderCallsInPlace, RenderWaits,
         RenderPerforms, RenderDraws, RenderLeavesRun, RenderSetsDispatched, RenderDispatches,
         RenderLooks, RenderHasDispatched, Dispatches, Looks, engine, manager, RenderIsAt, RenderIsAtLocal
    <3> QED BY <1>0, <3>2, <3>3 DEF RenderSpawns, Types
  <2> QED BY <2>1, <2>2
<1>3. Born'
  BY <1>2 DEF Born
<1>4. Releasing'
  BY <1>0, RenderReleases DEF Progressing
<1>5. ASSUME NEW u \in Spawned PROVE at'[u] = "last" => m_destruction_started'
  BY <1>1 DEF Progressing
<1>6. ASSUME NEW u \in Spawned PROVE Ended(u)'
  <2> PICK n \in Nat : n = ends_at[u]
    BY LastStatements
  <2> SUFFICES ASSUME at'[u] = "done" \/ Leaving(u, "last")' PROVE step' > n /\ ~Open(u, n)'
    BY DEF Ended, ends_at, finalize_at, dispatch_at, clear_at, run_at, ed
  <2>1. at[u] = "done" \/ Leaving(u, "last")
    BY <1>1 DEF Leaving
  <2>2. step > n /\ ~Open(u, n)
    BY <1>0, <2>1 DEF Ended
  <2>3. Open(u, n)' => Open(u, n) \/ n = step
    BY <1>0, RenderOpens
  <2> QED BY <1>0, <1>1, <2>2, <2>3
<1>7. ASSUME NEW u \in Spawned PROVE Held(u)'
  <2> PICK d \in Nat : /\ d = dispatches_at[u] /\ script[d].fn = "thread_dispatch_callbacks"
                       /\ CallAt(u, d)
    BY LastStatements
  <2>1. (step <= d \/ Open(u, d))' <=> (step <= d \/ Open(u, d))
    <3>1. script[d].fn # "enable"
      OBVIOUS
    <3> QED BY <1>0, <3>1, RenderReaches
  <2>2. step' <= dispatch_at + 7 => step <= dispatch_at + 7
    BY <1>0, <1>1, Bounds
  <2>3. step <= dispatch_at + 7 => step <= d \/ Open(u, d)
    BY <1>0 DEF Held
  <2>4. step' <= dispatch_at + 7 => (step <= d \/ Open(u, d))'
    BY <2>1, <2>2, <2>3
  <2> QED BY <2>4 DEF Held, dispatches_at, dispatch_at, clear_at, run_at, ed
<1>8. ASSUME calling'["render"].at = "complete" PROVE calling'["render"].wait
  <2>1. CASE RenderCalls
    <3>1. calling'["render"].at = "wait" \/ calling' = calling
      BY <1>0, <2>1 DEF RenderCalls, RunStarts, RpcTypeOK, rpcVars
    <3> QED BY <1>8, <3>1 DEF Progressing
  <2>2. CASE RenderProceeds
    <3>1. CASE RunPosts("render")
      <4>1. /\ calling["render"].at = "post" /\ calling["render"] \in Calling
            /\ calling' = [calling EXCEPT !["render"] =
                   IF calling["render"].wait THEN [calling["render"] EXCEPT !.at = "complete"] ELSE Idle]
        BY <1>0, <3>1, CallingCases DEF RunPosts
      <4>2. calling'["render"] = IF calling["render"].wait
                                 THEN [calling["render"] EXCEPT !.at = "complete"] ELSE Idle
        BY <1>0, <4>1 DEF RpcTypeOK
      <4> QED BY <1>8, <4>1, <4>2 DEF Calling, Idle
    <3>2. CASE RunCompletes("render")
      BY <1>0, <1>8, <3>2 DEF RunCompletes, Idle, RpcTypeOK
    <3>3. CASE RunWaits("render") \/ RunAsserts("render") \/ RunStores("render")
      <4>1. PICK from \in {"wait", "assert", "store"}, to \in {"assert", "store", "post", "failed"} :
              GoOn("render", from, to)
        BY <3>3 DEF RunWaits, RunAsserts, RunStores
      <4>2. calling'["render"].at = to
        BY <1>0, <4>1, CallGoesOn DEF GoOn
      <4> QED BY <1>8, <4>1, <4>2
    <3> QED BY <2>2, <3>1, <3>2, <3>3 DEF RenderProceeds, RunProceeds
  <2>3. CASE ~RenderCalls /\ ~RenderProceeds
    <3>1. calling' = calling
      BY <2>3 DEF Render, RenderCallsInPlace, RenderWaits, RenderSpawns,
         RenderPerforms, RenderDraws, RenderLeavesRun, RenderSetsDispatched, RenderDispatches,
         RenderLooks, RenderHasDispatched, Dispatches, Looks, rpcVars
    <3> QED BY <1>8, <3>1 DEF Progressing
  <2> QED BY <2>1, <2>2, <2>3
<1> QED BY <1>3, <1>4, <1>5, <1>6, <1>7, <1>8 DEF Progressing

LEMMA QuitsProgress ==
    ASSUME RpcInv, ScriptAssumption, Where, Attending, Progressing, Quits
    PROVE  Progressing'
<1>1. /\ UNCHANGED <<m_callback, m_pending, calling, serving, executed, step,
                     s_resource_callbacks_dispatched>>
      /\ \A t \in Spawned : at'[t] = at[t] \/ (t = "editor" /\ at[t] = "run" /\ at'[t] = "last")
      /\ \A t \in Spawned : serving[t].at \in {"answer", "decide"} => at[t] # "run"
      /\ m_destruction_started'
  <2>1. s_resource_callbacks_dispatched' = s_resource_callbacks_dispatched /\ m_destruction_started'
    BY DEF Quits, RenderQuits, GameQuits, EditorCloses, Exit
  <2> QED BY <2>1, QuitsWhere DEF RpcInv, rpcVars, slots, Where, Placed, PlacedAt, InProcess
<1>2. /\ \A t : Posting(t)' <=> Posting(t)
      /\ \A t, i : (FilledAt(t, i)' <=> FilledAt(t, i)) /\ (Open(t, i)' <=> Open(t, i))
  BY <1>1 DEF Posting, FilledAt, Open, CallAt, CallOf
<1>3. Born' /\ Releasing'
  BY <1>1 DEF Progressing, Born, Releasing, dispatch_at, clear_at, run_at, ed
<1>4. ASSUME NEW u \in Spawned PROVE Ended(u)' /\ Held(u)'
  <2> PICK n \in Nat, d \in Nat : n = ends_at[u] /\ d = dispatches_at[u]
    BY LastStatements
  <2>1. /\ at[u] = "done" \/ Leaving(u, "last") => step > n /\ ~Open(u, n)
        /\ step <= dispatch_at + 7 => step <= d \/ Open(u, d)
    BY DEF Progressing, Ended, Held
  <2>2. at'[u] = "done" \/ Leaving(u, "last")' => at[u] = "done" \/ Leaving(u, "last")
    BY <1>1 DEF Leaving
  <2>3. Ended(u)'
    BY <1>1, <1>2, <2>1, <2>2 DEF Ended, ends_at, finalize_at, dispatch_at, clear_at, run_at, ed
  <2>4. Held(u)'
    BY <1>1, <1>2, <2>1 DEF Held, dispatches_at, dispatch_at, clear_at, run_at, ed
  <2> QED BY <2>3, <2>4
<1> QED BY <1>1, <1>3, <1>4 DEF Progressing

LEMMA ProgressingThroughout ==
    ASSUME ScriptAssumption, OneCaller
    PROVE  EngineSpec => []Progressing
<1>1. EngineSpec => /\ [](Types /\ Where /\ Stopping)
                    /\ [](RpcInv /\ Attending /\ Living /\ Settled)
  BY AttendsThroughout
<1>2. EngineInit => Progressing
  <2> SUFFICES ASSUME EngineInit PROVE Progressing
    OBVIOUS
  <2>1. /\ step = 1 /\ calling["render"] = Idle /\ \A t \in Spawned : at[t] = "unborn"
        /\ s_resource_callbacks_dispatched = FALSE
    BY DEF EngineInit, RpcInit, ScriptAssumption
  <2>2. Born /\ Releasing
    BY <2>1, Bounds DEF Born, Releasing
  <2>3. ASSUME NEW t \in Spawned PROVE Ended(t) /\ Held(t)
    <3>1. PICK d \in Nat : d = dispatches_at[t] /\ dispatch_at + 1 < d
      BY LastStatements
    <3>2. step <= d
      BY <2>1, <3>1, Bounds
    <3> QED BY <2>1, <3>1, <3>2 DEF Ended, Held, Leaving
  <2> QED BY <2>1, <2>2, <2>3 DEF Progressing, Idle
<1>3. Progressing /\ (Types /\ Where /\ Stopping) /\ (RpcInv /\ Attending /\ Living /\ Settled)
          /\ RpcInv' /\ [EngineNext]_vars => Progressing'
  <2> SUFFICES ASSUME Progressing, Where, RpcInv, Attending, RpcInv', [EngineNext]_vars
               PROVE  Progressing'
    OBVIOUS
  <2>1. CASE Render
    BY <2>1, RenderProgresses
  <2>2. ASSUME NEW t \in Spawned, Runs(t) PROVE Progressing'
    BY <2>2, ThreadProgresses DEF RpcInv
  <2>3. CASE Quits
    BY <2>3, QuitsProgress
  <2>4. CASE HandsOver \/ UNCHANGED vars
    <3> USE DEF run_at, clear_at, dispatch_at, finalize_at, ed, ends_at, dispatches_at
    <3>1. UNCHANGED <<step, at, calling, serving, executed, m_pending, m_callback,
                      m_destruction_started, s_resource_callbacks_dispatched>>
      BY <2>4 DEF HandsOver, vars, rpcVars, slots, engine
    <3>2. /\ \A t : Posting(t)' <=> Posting(t)
          /\ \A t, i : FilledAt(t, i)' <=> FilledAt(t, i)
      BY <3>1 DEF Posting, FilledAt
    <3>3. \A t, i : Open(t, i)' <=> Open(t, i)
      BY <3>1, <3>2 DEF Open
    <3>4. Born' /\ Releasing'
      BY <3>1 DEF Progressing, Born, Releasing
    <3>5. ASSUME NEW t \in Spawned PROVE Ended(t)' /\ Held(t)'
      BY <3>1, <3>3 DEF Progressing, Ended, Held, Leaving
    <3> QED BY <3>1, <3>4, <3>5 DEF Progressing
  <2> QED BY <2>1, <2>2, <2>3, <2>4 DEF EngineNext, Stopped
<1> QED BY <1>1, <1>2, <1>3, PTL DEF EngineSpec

(* A thread goes on unless it has nothing to do where it is.               *)
LEMMA GoesOnUnless ==
    ASSUME RpcInv, ScriptAssumption, Where, NEW t \in Spawned,
           at[t] \notin {"unborn", "run", "done"},
           serving[t].at = "process" => m_pending[t],
           serving[t].at = "execute" => WillEnd(t) \/ t \in queries \cup deletions,
           at[t] = "ahead" /\ serving[t].at = "away" => m_destruction_started \/ t = "logic"
    PROVE  GoesOn(t)
<1>1. /\ serving[t].at \in {"away", "process", "execute", "answer", "decide"}
      /\ serving[t].at = "away" => serving[t] = Away
      /\ at[t] \in Places
  BY ServedWhere DEF RpcInv, Where, Types
<1>2. CASE serving[t].at # "away"
  BY <1>1, <1>2 DEF GoesOn
<1>3. CASE serving[t].at = "away"
  <2>1. \/ at[t] = "init" \/ at[t] \in {"first", "second", "last"}
        \/ at[t] \in {"tick", "try"} \/ at[t] = "ahead"
    BY <1>1 DEF Places
  <2> QED BY <1>1, <1>3, <2>1 DEF GoesOn
<1> QED BY <1>2, <1>3

LEMMA FinalizeIsLast ==
    ASSUME NEW i, NEW x, CallsOfFinalize(i, x) PROVE finalize_at < i
<1>1. finalize_at \in Nat /\ ed \in Nat
  BY Bounds
<1> QED BY <1>1 DEF CallsOfFinalize

(* A call is made by initialize, or comes after run.                       *)
LEMMA StartOrLater ==
    ASSUME NEW i \in 1..Len(script), script[i].do = "call"
    PROVE  CallsOfStart(i, script[i]) \/ run_at < i
<1>0. /\ run_at \in Nat /\ clear_at \in Nat /\ dispatch_at \in Nat /\ finalize_at \in Nat /\ ed \in Nat
      /\ run_at < clear_at /\ clear_at < dispatch_at /\ dispatch_at < finalize_at
  BY Bounds
<1>1. CallsOfBarrier(i, script[i]) => run_at < i
  BY <1>0 DEF CallsOfBarrier
<1>2. CallsOfClear(i, script[i]) => run_at < i
  <2>1. CallsOfClear(i, script[i]) => clear_at < i
    BY <1>0 DEF CallsOfClear
  <2> QED BY <1>0, <2>1
<1>3. CallsOfDispatch(i, script[i]) => run_at < i
  <2>1. CallsOfDispatch(i, script[i]) => dispatch_at < i
    BY <1>0 DEF CallsOfDispatch
  <2> QED BY <1>0, <2>1
<1>4. CallsOfFinalize(i, script[i]) => run_at < i
  <2>1. CallsOfFinalize(i, script[i]) => finalize_at < i
    BY FinalizeIsLast
  <2> QED BY <1>0, <2>1
<1> QED BY <1>1, <1>2, <1>3, <1>4, StatementAt

(* A thread that has been called has been spawned, has not yet ended, and  *)
(* is not in the loop of the editor; network and sound are not called      *)
(* while they idle in their loops.                                         *)
LEMMA CalledIsThere ==
    ASSUME RpcInv, ScriptAssumption, Where, Stopping, Attending, Progressing,
           NEW t \in Spawned, m_pending[t]
    PROVE  /\ at[t] \notin {"unborn", "run", "done"}
           /\ at[t] = "ahead" /\ serving[t].at = "away" => m_destruction_started \/ t = "logic"
<1>0. /\ t \in Place /\ PlacedAt(t) /\ step \in Nat /\ Types /\ (t = "editor" => Editor)
      /\ serving[t].at \in {"away", "process", "execute", "answer", "decide"}
  <2>1. t \in Place /\ serving[t].at \in {"away", "process", "execute", "answer", "decide"}
    BY ServedWhere DEF RpcInv
  <2>2. step \in Nat
    BY Bounds DEF Where, Types
  <2> QED BY <2>1, <2>2 DEF Where, Placed, Spawned
<1> PICK i \in 1..Len(script) : FilledAt(t, i)
  BY DEF Attending, Filled
<1>1. /\ i \in Nat /\ i < step /\ CallAt(t, i) /\ 2 < i
      /\ t = "logic" => 12 + 3 * ed < i
      /\ t \in {"sound", "editor"} => first_at(t) <= i
      /\ script[i].wait => i = step - 1
  BY <1>0, WhenExecuted, InTime DEF FilledAt
<1>2. t = "network" => run_at < i
  <2>1. CASE t = "network"
    <3>1. ~CallsOfStart(i, script[i])
      BY <1>1, <2>1, Fields DEF CallsOfStart, CallAt
    <3> QED BY <1>1, <3>1, StartOrLater DEF CallAt
  <2> QED BY <2>1
<1>3. at[t] # "unborn"
  <2>1. ASSUME NEW j \in 1..Len(script), j < i, script[j] = SpawnOf(t) PROVE at[t] # "unborn"
    <3>1. Spawns(script[j], t) /\ j < step
      BY <1>0, <1>1, <2>1, Fields DEF Spawns
    <3> QED BY <3>1 DEF Progressing, Born
  <2>2. CASE t = "network"
    <3>1. script[5 + 2 * ed] = SpawnOf(t) /\ 5 + 2 * ed \in 1..Len(script) /\ 5 + 2 * ed < i
      BY <1>1, <1>2, <2>2, ScriptSays, Numbers DEF StartSays
    <3> QED BY <2>1, <3>1
  <2>3. CASE t = "sound"
    <3>1. script[6 + 2 * ed] = SpawnOf(t)
      BY <2>3, ScriptSays DEF StartSays
    <3>2. 6 + 2 * ed \in 1..Len(script) /\ 6 + 2 * ed < i
      <4>1. 7 + 2 * ed <= i
        BY <1>1, <2>3 DEF first_at
      <4> QED BY <1>1, <4>1, Numbers
    <3> QED BY <2>1, <3>1, <3>2
  <2>4. CASE t = "logic"
    <3>1. script[9 + 2 * ed] = SpawnOf(t) /\ 9 + 2 * ed \in 1..Len(script) /\ 9 + 2 * ed < i
      BY <1>1, <2>4, ScriptSays, Numbers DEF StartSays
    <3> QED BY <2>1, <3>1
  <2>5. CASE t = "editor"
    <3>1. script[2] = SpawnOf(t) /\ 2 \in 1..Len(script) /\ 2 < i
      BY <1>0, <1>1, <2>5, ScriptSays, Numbers DEF StartSays
    <3> QED BY <2>1, <3>1
  <2> QED BY <1>0, <2>2, <2>3, <2>4, <2>5 DEF Place
<1>4. at[t] # "run"
  <2> SUFFICES ASSUME at[t] = "run" PROVE FALSE
    OBVIOUS
  <2>1. t = "editor" /\ Editor /\ ed = 1 /\ serving[t].at = "away"
    BY <1>0 DEF PlacedAt, InProcess, ed
  <2>2. step > 15 /\ ~Open(t, 15)
    BY <2>1 DEF Attending, Shown
  <2>3. CallAt(t, 15) /\ script[15].wait
    <3>1. script[15] = CallTo("editor", "show_window", "both") /\ 15 \in 1..Len(script)
      <4>1. 12 + 3 * ed = 15
        BY <2>1
      <4> QED BY <4>1, ScriptSays, Numbers DEF StartSays
    <3> QED BY <2>1, <3>1, Fields, Manners DEF CallAt
  <2>4. i > 15
    <3>1. i <= 15 => step <= 15 \/ Open(t, 15)
      BY <1>0, <2>1, <2>3, LaterOpens
    <3> QED BY <1>0, <1>1, <2>2, <3>1
  <2>5. i > run_at
    <3>1. ~CallsOfStart(i, script[i])
      <4>1. CallsOfStart(i, script[i]) => i \in {3, 5, 9, 14, 15} \/ script[i].to = "logic"
        BY <2>1, Fields DEF CallsOfStart
      <4> QED BY <1>1, <2>1, <2>4, <4>1 DEF CallAt
    <3> QED BY <1>1, <3>1, StartOrLater DEF CallAt
  <2>6. m_destruction_started
    BY <1>0, <1>1, <2>5, Bounds DEF Stopping
  <2> QED BY <2>1, <2>6 DEF Stopping
<1>5. at[t] # "done"
  <2> SUFFICES ASSUME at[t] = "done" PROVE FALSE
    OBVIOUS
  <2> PICK n \in Nat : n = ends_at[t] /\ CallAt(t, n) /\ finalize_at < n
    BY LastStatements
  <2>1. step > n /\ ~Open(t, n) /\ serving[t].at # "answer"
    BY <1>0 DEF Progressing, Ended, PlacedAt, InProcess
  <2>2. i <= n
    <3>1. CASE i > finalize_at
      BY <1>1, <3>1, LastCall
    <3>2. CASE ~(i > finalize_at)
      BY <1>1, <3>2, Bounds
    <3> QED BY <3>1, <3>2
  <2>3. step <= n \/ Open(t, n)
    BY <1>0, <2>1, <2>2, LaterOpens
  <2> QED BY <1>0, <2>1, <2>3
<1>6. at[t] = "ahead" /\ serving[t].at = "away" => m_destruction_started \/ t = "logic"
  <2> SUFFICES ASSUME at[t] = "ahead", serving[t].at = "away", t # "logic"
               PROVE  m_destruction_started
    OBVIOUS
  <2>1. t = "network" \/ t = "sound"
    BY <1>0 DEF PlacedAt, Place
  <2>2. run_at < i
    <3>1. CASE t = "sound"
      <4>1. i # first_at(t)
        <5>1. Fresh(t) <=> i = first_at(t)
          BY <1>0, <3>1, FreshExecutes DEF Attending
        <5> QED BY <5>1 DEF Fresh
      <4>2. i # 7 + 2 * ed
        BY <3>1, <4>1 DEF first_at
      <4>3. ~CallsOfStart(i, script[i])
        BY <1>1, <3>1, <4>2, Fields DEF CallsOfStart, CallAt
      <4> QED BY <1>1, <4>3, StartOrLater DEF CallAt
    <3> QED BY <1>2, <2>1, <3>1
  <2> QED BY <1>0, <1>1, <2>2, Bounds DEF Stopping
<1> QED BY <1>3, <1>4, <1>5, <1>6

(* The functions that dispatch the callbacks of a thread in its place      *)
LEMMA WhoDispatches ==
    ASSUME NEW i \in 1..Len(script), script[i].do = "call"
    PROVE  /\ script[i].fn = "finalize_thread_usage" => finalize_at < i
           /\ script[i].fn = "thread_dispatch_callbacks" => CallsOfDispatch(i, script[i])
<1>1. CASE CallsOfStart(i, script[i])
  BY <1>1, Fields DEF CallsOfStart
<1>2. CASE CallsOfBarrier(i, script[i])
  BY <1>2, Fields DEF CallsOfBarrier
<1>3. CASE CallsOfClear(i, script[i])
  BY <1>3, Fields DEF CallsOfClear
<1>4. CASE CallsOfDispatch(i, script[i])
  <2>1. script[i].fn # "finalize_thread_usage"
    BY <1>4, Fields DEF CallsOfDispatch
  <2> QED BY <1>4, <2>1
<1>5. CASE CallsOfFinalize(i, script[i])
  <2>1. script[i].fn # "thread_dispatch_callbacks"
    BY <1>5, Fields DEF CallsOfFinalize
  <2> QED BY <1>5, <2>1, FinalizeIsLast
<1> QED BY <1>1, <1>2, <1>3, <1>4, <1>5, StatementAt

(* The call that the render thread waits for ends, or finds something to   *)
(* dispatch: nobody is waited for before he is released.                   *)
LEMMA AwaitedCallEnds ==
    ASSUME RpcInv, ScriptAssumption, Where, Attending, Settled, Progressing,
           NEW t \in Spawned, RenderWaitsFor(t), serving[t].at = "execute"
    PROVE  WillEnd(t) \/ t \in queries \cup deletions
<1>0. /\ m_pending[t] /\ step \in Nat /\ Types /\ "render" \in Thread
      /\ dispatch_at \in Nat /\ finalize_at \in Nat /\ finalize_at = dispatch_at + 11
  BY Bounds, Parts DEF RenderWaitsFor, Where, Types, ScriptAssumption
<1> PICK i \in 1..Len(script) : FilledAt(t, i)
  BY <1>0 DEF Attending, Filled
<1> PICK fn : fn = script[i].fn
  OBVIOUS
<1>1. i \in Nat /\ i < step /\ CallAt(t, i) /\ m_callback[t].fn = fn
  BY DEF FilledAt, CallOf
<1>2. CASE fn \notin {"thread_dispatch_callbacks", "finalize_thread_usage"}
  BY <1>1, <1>2 DEF WillEnd
<1>3. CASE fn = "finalize_thread_usage"
  <2>1. finalize_at < i
    BY <1>1, <1>3, WhoDispatches DEF CallAt
  <2>2. queries = {}
    BY <1>0, <1>1, <2>1 DEF Settled
  <2> QED BY <1>1, <1>3, <2>2 DEF WillEnd
<1>4. CASE fn = "thread_dispatch_callbacks"
  <2> DEFINE Dispatched(j) ==
        \/ t = "logic" /\ j = dispatch_at + 2
        \/ t = "network" /\ j = dispatch_at + 3
        \/ t = "sound" /\ j = dispatch_at + 4
        \/ t = "editor" /\ j = dispatch_at + 5
  <2>1. Dispatched(i) /\ step <= dispatch_at + 11 /\ ~script[i].wait
    <3>1. CallsOfDispatch(i, script[i])
      BY <1>1, <1>4, WhoDispatches DEF CallAt
    <3>4. Dispatched(i) /\ ~script[i].wait
      BY <1>1, <3>1, Fields, Manners DEF CallsOfDispatch, CallAt
    <3>5. WhileDispatching(t, i) => step <= dispatch_at + 11
      BY <1>0 DEF WhileDispatching, IsFor
    <3>6. ~WhileStarting(t, i) /\ ~WhileSynchronizing(t, i) /\ ~WhileClearing(t, i)
          /\ ~WhileFinalizing(t, i)
      BY <1>4 DEF WhileStarting, WhileSynchronizing, WhileClearing, WhileFinalizing, IsFor
    <3> QED BY <1>0, <3>4, <3>5, <3>6, InTime
  <2>2. dispatch_at + 1 < i /\ i <= dispatch_at + 5
    BY <1>0, <2>1
  <2> HIDE DEF Dispatched
  <2>3. CASE RenderIsAt("wait")
    <3>1. step \in 1..Len(script) /\ script[step].do = "wait"
      BY <1>0, <2>3, RenderStatement DEF Types
    <3>2. /\ script[dispatch_at + 2].do = "call" /\ script[dispatch_at + 3].do = "call"
          /\ script[dispatch_at + 4].do = "call" /\ script[dispatch_at + 5].do = "call"
          /\ script[dispatch_at + 6].do = "local" /\ script[dispatch_at + 7].do = "local"
      BY ScriptSays, Fields DEF DispatchSays
    <3>3. step \notin {dispatch_at + 2, dispatch_at + 3, dispatch_at + 4, dispatch_at + 5,
                       dispatch_at + 6, dispatch_at + 7}
      BY <3>1, <3>2
    <3>4. dispatch_at + 7 < step
      BY <1>0, <1>1, <2>2, <3>3
    <3> QED BY <1>1, <1>4, <3>4 DEF Progressing, Releasing, WillEnd
  <2>4. CASE calling["render"].at \in {"wait", "complete"} /\ calling["render"].to = t
    <3>1. /\ CallAt(t, step - 1) /\ calling["render"].wait = script[step - 1].wait
          /\ step - 1 \in 1..Len(script) /\ script[step - 1].do = "call"
          /\ script[step - 1].to = t
      <4>1. calling["render"] # Idle
        BY <2>4 DEF Idle
      <4> QED BY <2>4, <4>1 DEF Attending, CallerIsAt, CallAt
    <3>2. i # step - 1
      <4>1. CASE calling["render"].at = "wait"
        BY <2>4, <4>1 DEF FilledAt, Posting
      <4>2. CASE calling["render"].at = "complete"
        BY <2>1, <3>1, <4>2 DEF Progressing
      <4> QED BY <2>4, <4>1, <4>2
    <3>3. Dispatched(step - 1)
      <4>1. dispatch_at < step - 1 /\ step - 1 < finalize_at
        BY <1>0, <1>1, <2>1, <2>2
      <4>2. ~CallsOfStart(step - 1, script[step - 1]) /\ ~CallsOfBarrier(step - 1, script[step - 1])
            /\ ~CallsOfClear(step - 1, script[step - 1]) /\ ~CallsOfFinalize(step - 1, script[step - 1])
        <5> PICK j \in 1..Len(script) : j = step - 1 /\ j \in Nat
          BY <1>0, <3>1
        <5>1. CallsOfStart(j, script[j]) => j <= run_at
          BY Numbers DEF CallsOfStart
        <5>2. CallsOfBarrier(j, script[j]) => j <= clear_at
          BY Numbers DEF CallsOfBarrier
        <5>3. CallsOfClear(j, script[j]) => j <= dispatch_at
          BY Numbers DEF CallsOfClear
        <5>4. CallsOfFinalize(j, script[j]) => finalize_at < j
          BY FinalizeIsLast
        <5>5. ~CallsOfStart(j, script[j]) /\ ~CallsOfBarrier(j, script[j])
              /\ ~CallsOfClear(j, script[j]) /\ ~CallsOfFinalize(j, script[j])
          BY <4>1, <5>1, <5>2, <5>3, <5>4, Bounds
        <5> QED BY <5>5
      <4>3. CallsOfDispatch(step - 1, script[step - 1])
        BY <3>1, <4>2, StatementAt
      <4> QED BY <3>1, <4>3, Fields DEF CallsOfDispatch, Dispatched
    <3>4. i = step - 1
      BY <2>1, <3>3 DEF Dispatched
    <3> QED BY <3>2, <3>4
  <2> QED BY <2>3, <2>4 DEF RenderWaitsFor
<1> QED BY <1>2, <1>3, <1>4

(* The engine does not deadlock: the thread whose answer the render thread *)
(* waits for, the threads whose queries it waits for, and the logic whose  *)
(* frame it waits for, have each a step to take without it.                *)
THEOREM AwaitedGoOn ==
    ASSUME ScriptAssumption, OneCaller PROVE EngineSpec => []TheAwaitedGoOn
<1>1. (Types /\ Where /\ Stopping) /\ (RpcInv /\ Attending /\ Living /\ Settled) /\ Progressing
         => TheAwaitedGoOn
  <2> SUFFICES ASSUME Types, Where, Stopping, RpcInv, Attending, Settled, Progressing
               PROVE  TheAwaitedGoOn
    OBVIOUS
  <2>0. step \in Nat
    BY Bounds DEF Types
  <2>1. ASSUME NEW t \in Spawned, RenderWaitsFor(t) PROVE GoesOn(t)
    <3>1. m_pending[t]
      BY <2>1 DEF RenderWaitsFor
    <3>2. serving[t].at = "execute" => WillEnd(t) \/ t \in queries \cup deletions
      BY <2>1, AwaitedCallEnds
    <3> QED BY <3>1, <3>2, CalledIsThere, GoesOnUnless
  <2>2. ASSUME RenderIsAtLocal("wait_and_dispatch_callbacks"), NEW t \in queries \ {"render"}
        PROVE  GoesOn(t)
    <3>1. step \in 1..Len(script) /\ script[step].do = "local"
          /\ script[step].fn = "wait_and_dispatch_callbacks" /\ calling["render"] = Idle
      BY <2>2, RenderStatement DEF RenderIsAtLocal, RenderIsAt, Types
    <3>2. t \in Spawned
      BY <2>2, AskingAssumption DEF Types, ManagerTypes
    <3>3. step = dispatch_at + 6
      <4>1. step = dispatch_at + 6 \/ step = finalize_at + 11 + 2 * ed
        BY <3>1, LocalsAre
      <4>2. step = finalize_at + 11 + 2 * ed => dispatch_at + 6 < step
        BY Numbers
      <4> QED BY <2>2, <4>1, <4>2 DEF Settled
    <3> PICK d \in Nat : d = dispatches_at[t] /\ d <= dispatch_at + 5
                         /\ script[d].fn = "thread_dispatch_callbacks"
      BY <3>2, LastStatements
    <3>4. Open(t, d)
      <4>1. step <= dispatch_at + 7 /\ ~(step <= d)
        BY <3>3, Numbers
      <4> QED BY <3>2, <4>1 DEF Progressing, Held
    <3>5. m_pending[t] /\ FilledAt(t, d)
      BY <3>1, <3>4 DEF Open, Posting, Idle
    <3> QED BY <2>2, <3>2, <3>5, CalledIsThere, GoesOnUnless
  <2>3. ASSUME RenderIsAtLocal("run"), ~m_destruction_started
        PROVE  GoesOn("logic")
    <3>1. step \in 1..Len(script) /\ step = run_at /\ calling["render"] = Idle
      <4>1. step \in 1..Len(script) /\ script[step].do = "local" /\ script[step].fn = "run"
            /\ calling["render"] = Idle
        BY <2>3, RenderStatement DEF RenderIsAtLocal, RenderIsAt, Types
      <4> QED BY <4>1, LocalsAre
    <3>2. "logic" \in Spawned /\ PlacedAt("logic") /\ "logic" \in Slot
      BY DEF Spawned, Where, Placed, ScriptAssumption
    <3>3. at["logic"] # "unborn"
      <4>1. script[9 + 2 * ed] = SpawnOf("logic") /\ 9 + 2 * ed \in 1..Len(script)
            /\ 9 + 2 * ed < step
        <5>1. script[9 + 2 * ed] = SpawnOf("logic")
          BY ScriptSays DEF StartSays
        <5> QED BY <3>1, <5>1, Numbers
      <4>2. Spawns(script[9 + 2 * ed], "logic")
        BY <4>1, Fields DEF Spawns
      <4> QED BY <3>2, <4>1, <4>2 DEF Progressing, Born
    <3>4. at["logic"] \notin {"run", "done", "last"}
      <4>1. ~(step > finalize_at)
        BY <3>1, Bounds
      <4> QED BY <2>3, <3>2, <4>1 DEF PlacedAt, Attending, Ending, Progressing
    <3>5. serving["logic"].at # "process"
      BY <3>2, <3>4 DEF PlacedAt, InProcess
    <3>6. serving["logic"].at # "execute"
      <4> SUFFICES ASSUME serving["logic"].at = "execute" PROVE FALSE
        OBVIOUS
      <4>1. m_pending["logic"]
        BY <3>2 DEF RpcInv, CalleeKnowsCall
      <4> PICK i \in 1..Len(script) : FilledAt("logic", i)
        BY <3>2, <4>1 DEF Attending, Filled
      <4>2. CallAt("logic", i) /\ i < run_at /\ ~script[i].wait
        BY <3>1 DEF FilledAt
      <4>3. CallsOfStart(i, script[i])
        BY <4>2, StartOrLater, Bounds DEF CallAt
      <4> QED BY <4>2, <4>3, Fields, Manners DEF CallsOfStart, CallAt
    <3> QED BY <3>2, <3>3, <3>4, <3>5, <3>6, GoesOnUnless
  <2> QED BY <2>1, <2>2, <2>3 DEF TheAwaitedGoOn
<1> QED BY <1>1, AttendsThroughout, ProgressingThroughout, PTL

=============================================================================
