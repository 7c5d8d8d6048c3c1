----------------------------- MODULE OpLifecycle -----------------------------
(***************************************************************************)
(* What the engine promises its caller, without the network: the life of   *)
(* each exo_op slot (spec 3 "Lifecycle" and 4.4) and of the device (spec 3 *)
(* "Process-wide engine state").  A slot is Free, Queued by the caller or  *)
(* the activation gate, Sent, Live (a registered subscription, with or     *)
(* without a notification to acknowledge), or finished with Success or     *)
(* Error.  Only the caller takes a slot out of a finished phase; only      *)
(* exo_init, a completed activation, or a restart changes the CIK the      *)
(* device presents.  ExoSystem is checked to implement this specification. *)
(***************************************************************************)
CONSTANTS
  Slots,      \* indices of the caller's exo_op array; slot 0 activates
  Keys,       \* CIKs
  NoKey       \* the empty CIK

VARIABLES
  phase,      \* phase[s]: where slot s is in its life
  kind,       \* kind[s]: the operation slot s holds (its type)
  device,     \* the device lifecycle state
  key         \* the CIK the device presents

vars == <<phase, kind, device, key>>

UserKinds == {"Write", "Read", "Subscribe"}
Done == {"Success", "Error"}

\* Every slot Free; the engine itself untouched.
AllFree == [s \in Slots |-> "Free"]
NoKinds == [s \in Slots |-> "Null"]

\* The engine starts before exo_init, or (as subscribe.c runs) once the
\* device is activated and the caller has staged its first operations.
Init ==
  /\ device \in {"Uninitialized", "Good"}
  /\ key \in Keys \cup {NoKey}
  /\ phase \in [Slots -> {"Free", "Queued"}]
  /\ phase[0] = "Free"
  /\ kind \in [Slots -> UserKinds \cup {"Null"}]
  /\ \A s \in Slots : kind[s] = "Null" <=> phase[s] = "Free"
  /\ device = "Uninitialized" => phase = AllFree /\ key = NoKey

\* exo_init reads the stored CIK and may fail.
Load ==
  /\ device = "Uninitialized"
  /\ device' \in {"Uninitialized", "Initialized"}
  /\ key' \in Keys \cup {NoKey}
  /\ UNCHANGED <<phase, kind>>

\* The activation gate takes the free slot 0.
Gate ==
  /\ device \in {"Initialized", "BadCik"}
  /\ phase[0] = "Free"
  /\ phase' = [phase EXCEPT ![0] = "Queued"]
  /\ kind' = [kind EXCEPT ![0] = "Activate"]
  /\ UNCHANGED <<device, key>>

\* The caller stages an operation in a free slot.
Stage(s) ==
  /\ phase[s] = "Free"
  /\ phase' = [phase EXCEPT ![s] = "Queued"]
  /\ kind' \in {[kind EXCEPT ![s] = t] : t \in UserKinds}
  /\ UNCHANGED <<device, key>>

\* A queued request goes out.
Send(s) ==
  /\ device # "Uninitialized"
  /\ phase[s] = "Queued"
  /\ phase' = [phase EXCEPT ![s] = "Sent"]
  /\ UNCHANGED <<kind, device, key>>

\* The answer to a data request ends it; a rejected CIK may mark the device.
Reply(s) ==
  /\ kind[s] \in UserKinds
  /\ phase[s] = "Sent"
  /\ \E p \in Done :
       /\ phase' = [phase EXCEPT ![s] = p]
       /\ device' \in {device} \cup (IF p = "Error" THEN {"BadCik"} ELSE {})
  /\ UNCHANGED <<kind, key>>

\* The answer to the activation frees slot 0 and settles the device: with a
\* new CIK, or without one on the assumption it is already activated.
Activated ==
  /\ kind[0] = "Activate"
  /\ phase[0] = "Sent"
  /\ phase' = [phase EXCEPT ![0] = "Free"]
  /\ kind' = [kind EXCEPT ![0] = "Null"]
  /\ \/ device' = "Good" /\ key' \in Keys
     \/ device' \in {device, "Good"} /\ UNCHANGED key

\* A deadline passes: a read or write fails, a subscription registers again.
Expire(s) ==
  /\ \/ kind[s] \in {"Write", "Read"} /\ phase[s] = "Sent"
        /\ phase' = [phase EXCEPT ![s] = "Error"]
     \/ kind[s] = "Subscribe" /\ phase[s] \in {"Sent", "Live"}
        /\ phase' = [phase EXCEPT ![s] = "Queued"]
  /\ UNCHANGED <<kind, device, key>>

\* A live subscription delivers a new value, or fails on one it cannot hold.
Notice(s) ==
  /\ kind[s] = "Subscribe"
  /\ phase[s] = "Live"
  /\ phase' \in {[phase EXCEPT ![s] = p] : p \in Done}
  /\ UNCHANGED <<kind, device, key>>

\* exo_op_done: a finished slot is freed, a subscription goes back to Live.
Collect(s) ==
  /\ phase[s] \in Done
  /\ phase' = [phase EXCEPT ![s] = IF kind[s] = "Subscribe" THEN "Live" ELSE "Free"]
  /\ kind' = IF kind[s] = "Subscribe" THEN kind ELSE [kind EXCEPT ![s] = "Null"]
  /\ UNCHANGED <<device, key>>

\* The device restarts: everything held in RAM is gone.
Reset ==
  /\ phase' = AllFree
  /\ kind' = NoKinds
  /\ device' = "Uninitialized"
  /\ key' = NoKey

Next ==
  \/ Load \/ Gate \/ Activated \/ Reset
  \/ \E s \in Slots : Stage(s) \/ Send(s) \/ Reply(s) \/ Expire(s) \/ Notice(s) \/ Collect(s)

Spec == Init /\ [][Next]_vars
=============================================================================
