----------------------------- MODULE SourceChoice -----------------------------
(***************************************************************************)
(* What datasource.Discover promises its caller (datasource.go:20-27,      *)
(* README.md, "Or let the binary discover"): the user-data of the first    *)
(* source, in the documented order, that has any; an error if that         *)
(* user-data is no good; "not found" if no source has any.                 *)
(*                                                                         *)
(* Sources come and go while the probes run, one after the other, and a    *)
(* read may fail.  So the promise is about two sets: what had user-data at *)
(* some moment of the discovery may answer it; what had user-data all      *)
(* along must not be passed over, unless a read has failed.                *)
(***************************************************************************)
EXTENDS Integers

CONSTANTS
    Sources,
    Pending, NotFound,  \* the answer is awaited; no source has user-data
    NoAnswer            \* nobody asked, or the process died

VARIABLES
    ready,   \* the sources that have user-data now
    sound,   \* those whose user-data is a config
    rank,    \* the documented order: the lowest rank comes first
    may,     \* had user-data at some moment since the discovery began
    must,    \* have had it since then, and no read that failed was for them
    failed,  \* how many calls have failed so far
    answer   \* what the caller got: NotFound, or a source and its verdict

svars == <<ready, sound, rank, may, must, failed, answer>>

Init ==
    /\ ready \subseteq Sources /\ sound \subseteq Sources
    /\ rank \in [Sources -> Nat]
    /\ may = {} /\ must = {} /\ failed = 0 /\ answer = NoAnswer

\* A discovery among the sources that the caller's flags leave.
Begin(asked) ==
    /\ answer # Pending /\ answer' = Pending
    /\ may' = ready \cap asked /\ must' = ready \cap asked
    /\ UNCHANGED <<ready, sound, rank, failed>>

\* What is left of must: only a failure takes a source out that is ready.
Left == {left \in SUBSET must : failed' = failed => left = must}

\* The world, or a read that fails: must only shrinks, may only grows.
Change ==
    /\ failed' >= failed /\ ready' \subseteq Sources
    /\ may \subseteq may' /\ may' \subseteq may \cup ready'
    /\ \E left \in Left : must' = left \cap ready'
    /\ UNCHANGED <<sound, rank, answer>>

\* What the discovery saw goes with it.
Ends(a) ==
    /\ answer = Pending /\ answer' = a
    /\ may' = {} /\ must' = {} /\ failed' >= failed
    /\ UNCHANGED <<ready, sound, rank>>

\* A source is good for a config only if its user-data is one; an error is
\* the fault of its user-data, or of a read that failed.
AnswerFrom(s, config) ==
    /\ s \in may
    /\ \E left \in Left :
          /\ \A t \in left : rank[s] <= rank[t]
          /\ IF config THEN s \in sound ELSE s \notin sound \cap left
    /\ Ends([from |-> s, config |-> config])

AnswerNotFound == {} \in Left /\ Ends(NotFound)

\* The process dies.
Abandon == Ends(NoAnswer)

Next ==
    \/ \E asked \in SUBSET Sources : Begin(asked)
    \/ Change
    \/ \E s \in Sources, config \in BOOLEAN : AnswerFrom(s, config)
    \/ AnswerNotFound
    \/ Abandon

Spec == Init /\ [][Next]_svars
==============================================================================
