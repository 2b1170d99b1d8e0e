------------------------------ MODULE Permits ------------------------------
(***************************************************************************)
(* What a person may rely on who is asked for permission: one question at  *)
(* a time, about one call of one worker; the word given last before it is  *)
(* settled is the one that counts, no word is a refusal, and it counts for *)
(* that call alone, or for the call's rule until the task ends.            *)
(***************************************************************************)
CONSTANTS Workers, Modes, Calls

VARIABLES
    mode,     \* of the task
    standing, \* rules allowed for the rest of it
    question, \* the worker and the call that are asked about, if any
    word,     \* what was said last about them
    running   \* the calls that run, with their workers

vars == <<mode, standing, question, word, running>>

Init ==
    /\ mode \in Modes /\ standing = {}
    /\ question = {} /\ word = "none" /\ running = {}

Idle(w) == \A x \in question \cup running : x.worker # w

\* A call that needs no question.
Run(w, c) ==
    /\ Idle(w)
    /\ c.level # "blocked" /\ (mode = "read_only" => c.reads)
    /\ mode = "review" /\ c.level = "caution" => c.rule \in standing
    /\ running' = running \cup {[worker |-> w, call |-> c]}
    /\ UNCHANGED <<mode, standing, question, word>>

Ask(w, c) ==
    /\ Idle(w) /\ question = {}
    /\ mode = "review" /\ c.level = "caution"
    /\ question' = {[worker |-> w, call |-> c]}
    /\ UNCHANGED <<mode, standing, word, running>>

\* The person may have second thoughts; a stop refuses in the person's name.
Say(s) == question # {} /\ word' = s /\ UNCHANGED <<mode, standing, question, running>>

Refuse ==
    /\ question # {} /\ word \in {"none", "reject"}
    /\ question' = {} /\ word' = "none"
    /\ UNCHANGED <<mode, standing, running>>

Allow ==
    /\ word \in {"allow_once", "allow_task"}
    /\ running' = running \cup question /\ question' = {} /\ word' = "none"
    /\ standing' = IF word = "allow_task"
                     THEN standing \cup {x.call.rule : x \in question} ELSE standing
    /\ UNCHANGED mode

Return(w) ==
    /\ running' = {x \in running : x.worker # w}
    /\ UNCHANGED <<mode, standing, question, word>>

BeginTask(m) ==
    /\ question = {} /\ running = {}
    /\ mode' = m /\ standing' = {} /\ UNCHANGED <<question, word, running>>

Next ==
    \/ \E w \in Workers, c \in Calls : Run(w, c) \/ Ask(w, c)
    \/ \E s \in {"allow_once", "allow_task", "reject"} : Say(s)
    \/ Refuse \/ Allow
    \/ \E w \in Workers : Return(w)
    \/ \E m \in Modes : BeginTask(m)

Spec == Init /\ [][Next]_vars
=============================================================================
