-------------------------------- MODULE Effect --------------------------------
(***************************************************************************)
(* What the notification worker promises about a recipient of an           *)
(* operation, whatever the queue, the storage and the provider do:         *)
(*                                                                         *)
(*   - the provider accepts at most one request, and sees no request       *)
(*     after it, nor after the journal has said "notified" or "failed";    *)
(*   - a verdict is given once, and is never wrong: "notified" is said of  *)
(*     an accepted request, "failed" when there was none, and "unknown"    *)
(*     whenever that cannot be told.                                       *)
(*                                                                         *)
(* Module WorkerEffect shows that Worker implements this; module           *)
(* Distribution uses it in the place of Worker.                            *)
(***************************************************************************)
EXTENDS Naturals

CONSTANTS
  Recipients,
  MaxAttempts   \* config.MaxAttempts

VARIABLES
  tries,    \* requests the provider has seen, per recipient
  mailed,   \* requests it has accepted
  verdict   \* what the journal says

vars == <<tries, mailed, verdict>>

Init ==
  /\ tries = [r \in Recipients |-> 0]
  /\ mailed = [r \in Recipients |-> 0]
  /\ verdict = [r \in Recipients |-> "open"]

\* A request reaches the provider.  A worker that another one has judged to
\* be gone may still make the request that the verdict "unknown" allows for.
Attempt(r) ==
  /\ verdict[r] \in {"open", "unknown"}
  /\ mailed[r] = 0
  /\ tries[r] < MaxAttempts
  /\ tries' = [tries EXCEPT ![r] = @ + 1]
  /\ \E accepted \in {0, 1} : mailed' = [mailed EXCEPT ![r] = accepted]
  /\ UNCHANGED verdict

Conclude(r, v) ==
  /\ verdict[r] = "open"
  /\ v = "notified" => mailed[r] = 1
  /\ v = "failed" => mailed[r] = 0
  /\ verdict' = [verdict EXCEPT ![r] = v]
  /\ UNCHANGED <<tries, mailed>>

Next ==
  \E r \in Recipients :
    Attempt(r) \/ \E v \in {"notified", "failed", "unknown"} : Conclude(r, v)

Spec == Init /\ [][Next]_vars

(***************************************************************************)
(* What a recipient can rely on at any time: no more than one accepted     *)
(* request, no more requests than the attempts allowed, and a verdict that *)
(* is true.                                                                *)
(***************************************************************************)
Kept ==
  /\ DOMAIN tries = Recipients /\ DOMAIN mailed = Recipients /\ DOMAIN verdict = Recipients
  /\ \A r \in Recipients :
       /\ tries[r] \in 0..MaxAttempts
       /\ mailed[r] \in {0, 1} /\ mailed[r] <= tries[r]
       /\ verdict[r] \in {"open", "notified", "failed", "unknown"}
       /\ verdict[r] = "notified" => mailed[r] = 1
       /\ verdict[r] = "failed" => mailed[r] = 0

(***************************************************************************)
(* What can never be taken back: an accepted request and a verdict stay,   *)
(* and after either there is no further request, but for the one that the  *)
(* verdict "unknown" allows for.                                           *)
(***************************************************************************)
Irrevocable ==
  [][\A r \in Recipients :
       /\ verdict[r] # "open" => verdict'[r] = verdict[r]
       /\ mailed[r] = 1 => mailed'[r] = 1
       /\ mailed[r] = 1 \/ verdict[r] \in {"notified", "failed"} =>
            tries'[r] = tries[r] /\ mailed'[r] = mailed[r]]_vars
==============================================================================
