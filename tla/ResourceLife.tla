---------------------------- MODULE ResourceLife ----------------------------
(***************************************************************************)
(* What the resources manager promises of an unmanaged resource, whatever  *)
(* lists it passes through and whoever looks it up meanwhile.  When nobody *)
(* holds it any more a thread condemns it, unless a lookup rescues it      *)
(* before.  From then on it is with one thread; it gets to the one it was  *)
(* created for through the resources thread, and is destroyed there once,  *)
(* whereby it lets go of the resource it points to.  It does not promise   *)
(* as much of a resource that was rescued: if it is let go of before the   *)
(* thread it was rescued from is done, a second thread condemns it too.    *)
(***************************************************************************)
CONSTANTS User, Thread, resources, Resource,
          Cached,   (* the resources that can be looked up                   *)
          Owner,    (* [Resource -> the thread it was created for]           *)
          Inner     (* [Resource -> the one it points to, or none]           *)

VARIABLES holders,  (* [Resource -> the users and resources that point to it]*)
          keeper,   (* [Resource -> whose turn it is once it is condemned]   *)
          gone,     (* the resources that are destroyed                      *)
          rescued,  (* those that were looked up when nobody held them       *)
          twice     (* those that were condemned once more                   *)

Init == /\ holders \in [Resource -> SUBSET (User \cup Resource)]
        /\ keeper = [r \in Resource |-> {}]
        /\ gone = {} /\ rescued = {} /\ twice = {}

Held(r) == keeper[r] = {} /\ r \notin gone

Acquire(u, r) == /\ u \notin holders[r]
                 /\ r \in Cached /\ Held(r)
                 /\ holders' = [holders EXCEPT ![r] = @ \cup {u}]
                 /\ rescued' = IF holders[r] = {} THEN rescued \cup {r} ELSE rescued
                 /\ UNCHANGED <<keeper, gone, twice>>

Release(u, r) == /\ u \in holders[r]
                 /\ holders' = [holders EXCEPT ![r] = @ \ {u}]
                 /\ UNCHANGED <<keeper, gone, rescued, twice>>

(* t has r, and then the threads ts have it                                *)
Pass(r, t, ts) == /\ keeper[r] = {t} /\ keeper' = [keeper EXCEPT ![r] = ts]
                  /\ UNCHANGED <<rescued, twice>>

Forgotten(r) == holders[r] = {} /\ Held(r)

Condemn(t, r) == /\ keeper' = [keeper EXCEPT ![r] = {t}]
                 /\ UNCHANGED <<holders, gone, rescued, twice>>

CondemnAgain(r) == /\ r \in rescued /\ holders[r] = {} /\ ~Held(r)
                   /\ twice' = twice \cup {r}
                   /\ UNCHANGED <<holders, keeper, gone, rescued>>

Collect(t, r) == Pass(r, t, {resources}) /\ UNCHANGED <<holders, gone>>

Deliver(r) == Pass(r, resources, {Owner[r]}) /\ UNCHANGED <<holders, gone>>

Destroy(r) == /\ r \notin gone /\ gone' = gone \cup {r}
              /\ Pass(r, Owner[r], {})
              /\ holders' = [q \in Resource |->
                                IF q = Inner[r] THEN holders[q] \ {r} ELSE holders[q]]

Next == \E r \in Resource :
            \/ Deliver(r) \/ Destroy(r) \/ CondemnAgain(r)
            \/ Forgotten(r) /\ \E t \in Thread : Condemn(t, r)
            \/ \E t \in keeper[r] : Collect(t, r)
            \/ \E u \in User : Acquire(u, r) \/ Release(u, r)

Spec == Init /\ [][Next]_<<holders, keeper, gone, rescued, twice>>
=============================================================================
