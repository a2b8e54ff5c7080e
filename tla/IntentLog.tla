----------------------------- MODULE IntentLog -----------------------------
(***************************************************************************)
(* What a store of committed intent promises, without its files: one log   *)
(* of contents, one entry per committed generation, that grows at its end  *)
(* while the store serves and that recovery may cut back but never empty.  *)
(* IntentStore implements it (IntentStore!LogSpec).                        *)
(***************************************************************************)
EXTENDS Naturals, Sequences

CONSTANT Content        \* what a generation can hold

VARIABLES log,          \* the contents of generations 1 .. Len(log)
          serving       \* an open store answers

(* Types of the log. *)
TypeOK ==
    /\ log \in Seq(Content)
    /\ serving \in BOOLEAN

Init ==
    /\ log = <<>>
    /\ serving = TRUE

(* Exactly one generation joins the log, after every earlier one. *)
Commit ==
    /\ serving
    /\ \E c \in Content : log' = Append(log, c)
    /\ UNCHANGED serving

Stop ==
    /\ serving
    /\ serving' = FALSE
    /\ UNCHANGED log

(* Opening keeps a prefix of the log: whatever was lost was lost from the  *)
(* end, and a log that held a commit is never taken for a fresh one. The   *)
(* open may still fail after that, so it need not serve.                   *)
Recover ==
    /\ ~ serving
    /\ serving' \in BOOLEAN
    /\ \E n \in 0 .. Len(log) :
        /\ n = 0 => log = <<>>
        /\ log' = SubSeq(log, 1, n)

Next == Commit \/ Stop \/ Recover

vars == <<log, serving>>

Spec == Init /\ [][Next]_vars
=============================================================================
