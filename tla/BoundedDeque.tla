---------------------------- MODULE BoundedDeque ----------------------------
(***************************************************************************)
(* What the kernel's message queue promises: a queue of bounded length that*)
(* is written at either end and read at its head, one whole operation at a *)
(* time.  A queue that is not created has capacity 0.                      *)
(***************************************************************************)
EXTENDS Naturals, Sequences

CONSTANTS Values,   \* messages
          MaxLen,   \* the longest queue
          Nothing   \* nothing was read yet

VARIABLES capacity, \* the length of the queue, 0 when there is none
          content,  \* its messages, the next to be read first
          read      \* the message the latest read returned

vars == <<capacity, content, read>>

Init ==
  /\ capacity = 0
  /\ content = <<>>
  /\ read = Nothing

Create(len) ==
  /\ capacity = 0
  /\ capacity' = len
  /\ content' = <<>>
  /\ read' = read

Delete ==
  /\ capacity' = 0
  /\ content' = <<>>
  /\ read' = read

WriteTail(v) ==
  /\ Len(content) < capacity
  /\ content' = Append(content, v)
  /\ UNCHANGED <<capacity, read>>

WriteHead(v) ==
  /\ Len(content) < capacity
  /\ content' = <<v>> \o content
  /\ UNCHANGED <<capacity, read>>

Read ==
  /\ content # <<>>
  /\ read' = Head(content)
  /\ content' = Tail(content)
  /\ UNCHANGED capacity

Next ==
  \/ \E len \in 1 .. MaxLen : Create(len)
  \/ Delete
  \/ \E v \in Values : WriteTail(v) \/ WriteHead(v)
  \/ Read

Spec == Init /\ [][Next]_vars
=============================================================================
