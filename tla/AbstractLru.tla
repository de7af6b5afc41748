---------------------------- MODULE AbstractLru ----------------------------
(***************************************************************************)
(* What a cache of TLS sessions with eviction of the least recently used   *)
(* promises to a server: a sequence of sessions, the most recently saved   *)
(* or loaded one first.                                                    *)
(***************************************************************************)
EXTENDS Integers, Sequences, SequencesExt

CONSTANTS
  Ids,       \* session identifiers
  Vals,      \* what is kept of a session: version, suite, master secret
  Capacity   \* how many sessions there is room for

NotFound == "not found"

VARIABLES
  sessions,  \* sequence of [id, val, live], most recently used first
  result     \* what the last call was, and what it returned

vars == <<sessions, result>>

\* A call with its identifier, and what it was given or gave.
Did(op, id, val, answer) == [op |-> op, id |-> id, val |-> val, answer |-> answer]

NoCall == [op |-> "none"]

Init == sessions = <<>> /\ result = NoCall

-----------------------------------------------------------------------------
Known(s) == {s[k].id : k \in DOMAIN s}

PlaceOf(s, id) == CHOOSE k \in DOMAIN s : s[k].id = id

\* A new session comes first; the last one leaves when there is no room.  An
\* identifier that is known, were it forgotten, is not saved again.
Saved(s, id, val) ==
  IF id \in Known(s) \/ Capacity = 0 THEN s
  ELSE <<[id |-> id, val |-> val, live |-> TRUE]>> \o
         (IF Len(s) = Capacity THEN Front(s) ELSE s)

Live(s, id) == id \in Known(s) /\ s[PlaceOf(s, id)].live

\* A session that is found comes first.
Loaded(s, id) ==
  IF Live(s, id)
    THEN <<s[PlaceOf(s, id)]>> \o RemoveAt(s, PlaceOf(s, id))
    ELSE s

Answer(s, id) == IF Live(s, id) THEN s[PlaceOf(s, id)].val ELSE NotFound

\* A forgotten session keeps its place until it is the last.
Forgotten(s, id) ==
  IF id \in Known(s) THEN [s EXCEPT ![PlaceOf(s, id)].live = FALSE] ELSE s

Next ==
  LET before == sessions
      after == sessions'
  IN \E id \in Ids :
       \/ /\ after = Loaded(before, id)
          /\ result' = Did("load", id, NotFound, Answer(before, id))
       \/ /\ after = Forgotten(before, id)
          /\ result' = Did("forget", id, NotFound, NotFound)
       \/ \E val \in Vals :
            /\ after = Saved(before, id, val)
            /\ result' = Did("save", id, val, NotFound)

Spec == Init /\ [][Next]_vars
=============================================================================
