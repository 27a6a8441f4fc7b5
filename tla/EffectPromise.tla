----------------------------- MODULE EffectPromise -----------------------------
(***************************************************************************)
(* What the broker promises a caller about an accepted effect, with no     *)
(* versions, leases, attempts or processes: the effect happens at most     *)
(* once; the ledger calls it succeeded only after it happened and void     *)
(* only if it has not and never will; everything else it leaves to a human.*)
(* Broker implements this specification while the classes' contracts hold. *)
(***************************************************************************)
EXTENDS Naturals

CONSTANT Ids

VARIABLES
    verdict,    \* what the ledger says of each effect
    performed   \* how often the target performed it

Verdicts == {"none", "open", "succeeded", "void", "human", "decided"}

PromiseInit ==
    /\ verdict = [i \in Ids |-> "none"]
    /\ performed = [i \in Ids |-> 0]

Say(i, from, to) ==
    /\ verdict[i] = from
    /\ verdict' = [verdict EXCEPT ![i] = to]
    /\ UNCHANGED performed

Accept(i) == Say(i, "none", "open")

\* Once per effect, and only while nobody has been told how it ended.
Perform(i) ==
    /\ verdict[i] = "open" /\ performed[i] = 0
    /\ performed' = [performed EXCEPT ![i] = 1]
    /\ UNCHANGED verdict

Succeed(i) == performed[i] = 1 /\ Say(i, "open", "succeeded")

Void(i) == performed[i] = 0 /\ Say(i, "open", "void")

HandOver(i) == Say(i, "open", "human")

Decide(i) == Say(i, "human", "decided")

PromiseNext ==
    \E i \in Ids : \/ Accept(i) \/ Perform(i) \/ Succeed(i)
                   \/ Void(i) \/ HandOver(i) \/ Decide(i)

PromiseSpec == PromiseInit /\ [][PromiseNext]_<<verdict, performed>>
=============================================================================
