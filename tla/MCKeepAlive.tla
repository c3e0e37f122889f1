---------------------------- MODULE MCKeepAlive ----------------------------
(***************************************************************************)
(* Scripts for TLC: every kind of frame followed by every kind, and the    *)
(* longer ones in which a state left behind by one frame would show.       *)
(***************************************************************************)
EXTENDS KeepAlive

Good == [magic |-> "BRDR", version |-> 2, msg_type |-> 1, request_id |-> 7]

WithBody(v, n) == [len |-> HeaderSize + 1, header |-> Good, verdict |-> v, batch_count |-> n]
WithLength(n) == [len |-> n, header |-> Good, verdict |-> Ok, batch_count |-> 1]
WithHeader(h) == [len |-> HeaderSize + 1, header |-> h, verdict |-> Ok, batch_count |-> 1]

Single == WithBody(Ok, 1)
Batch == WithBody(Ok, 2)
Malformed == WithBody(ValidationError, 1)
OverBudget == WithBody(ResourceLimit, 1)
NoBody == WithLength(HeaderSize)
Tiny == WithLength(1)
Huge == WithLength(MaxMessageBytes + 1)
Shutdown == WithLength(0)
WrongMagic == WithHeader([Good EXCEPT !.magic = "other"])
WrongVersion == WithHeader([Good EXCEPT !.version = 1])
WrongType == WithHeader([Good EXCEPT !.msg_type = 2, !.request_id = 8])

Kinds == {Batch, Malformed, OverBudget, NoBody, Tiny, Huge, Shutdown, WrongMagic}

AllPairs == {<<>>, <<WrongVersion>>, <<WrongType>>} \cup {<<a, b>> : a \in Kinds, b \in Kinds}
Pairs == {<<Single, Batch>>, <<Tiny, Single>>, <<Huge, Single>>, <<Malformed, Single>>,
          <<Single, Shutdown>>, <<Shutdown, Single>>}
Triples == {<<Batch, WrongMagic, Single>>, <<Tiny, Huge, Batch>>, <<Single, Shutdown, Single>>}
AllScripts == AllPairs \cup Pairs \cup Triples

\* Scripts a client may write to the end before it reads: what the server has to
\* answer before the last frame is read fits in a stdout pipe of two cells.
SmallAnswers ==
  {<<Tiny, Malformed>>, <<OverBudget, Shutdown>>, <<NoBody, Batch>>, <<Tiny, Huge, Batch>>}
MCDisciplines ==
  [s \in AllScripts |->
     {"concurrent", "lockstep"} \cup (IF s \in SmallAnswers THEN {"writeAll"} ELSE {})]
=============================================================================
