-------------------------------- MODULE Consent --------------------------------
(***************************************************************************)
(* What the approval protocol promises about one kind of effect (the files *)
(* a run creates): a run asks at most once, the question is answered or    *)
(* lapses at most once, and the run's effect changes only while it holds   *)
(* the consent it was given.                                               *)
(***************************************************************************)
CONSTANTS
    Run,      \* who asks
    Effects,  \* what a run can have done
    NoEffect  \* the member of Effects a run starts with

VARIABLES phase, effect

Phases == {"idle", "asked", "confirmed", "closed"}

Init ==
    /\ phase = [r \in Run |-> "idle"]
    /\ effect = [r \in Run |-> NoEffect]

\* The only step that touches the files of a run.
Act(r) ==
    /\ phase[r] = "confirmed"
    /\ \E e \in Effects : effect' = [effect EXCEPT ![r] = e]
    /\ phase' \in {phase, [phase EXCEPT ![r] = "closed"]}

\* Questions lapse, runs end: several in one step when the process that held
\* their questions dies.
ClosesAmong(S) ==
    /\ phase' \in [Run -> Phases]
    /\ \A s \in S : phase'[s] \in {phase[s], "closed"}
    /\ UNCHANGED effect

Close == ClosesAmong(Run)

\* A run asks, and may displace older questions.
Ask(r) ==
    /\ phase[r] = "idle"
    /\ ClosesAmong(Run \ {r})
    /\ phase'[r] = "asked"

\* An answer is accepted; questions that have lapsed are closed with it.
Confirm(r) ==
    /\ phase[r] = "asked"
    /\ ClosesAmong(Run \ {r})
    /\ phase'[r] = "confirmed"

Next ==
    \/ \E r \in Run : Ask(r) \/ Confirm(r) \/ Act(r)
    \/ Close

Spec == Init /\ [][Next]_<<phase, effect>>

=============================================================================
