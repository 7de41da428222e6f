---------------------------- MODULE AccountCache ----------------------------
(***************************************************************************)
(* The cache of a data centre account: the ping-pong buffer                *)
(* (PingPongBuffer.c) as Account::Commit, Account::Publish and             *)
(* Account::Pull use it.  All of them run in the LVGL task.  Publish holds *)
(* the read buffer while it calls the subscribers back, and a callback may *)
(* lead to another Commit; none of the callbacks of this program reads the *)
(* cache that is being published.                                          *)
(***************************************************************************)
EXTENDS Naturals

CONSTANTS Value, None

ASSUME NoneAssumption == None \notin Value

VARIABLES buffer,        \* contents of the two buffers; None while never written
          writeIndex, readIndex, readAvaliable,
          publishing     \* Publish is calling its subscribers back

cacheVars == <<buffer, writeIndex, readIndex, readAvaliable, publishing>>

Index == {0, 1}
Other(i) == 1 - i

CacheTypeOK ==
  /\ buffer \in [Index -> Value \cup {None}]
  /\ writeIndex \in Index
  /\ readIndex \in Index
  /\ readAvaliable \in [Index -> BOOLEAN]
  /\ publishing \in BOOLEAN

\* PingPongBuffer_Init, from the constructor of the account.
CacheInit ==
  /\ buffer = [i \in Index |-> None]
  /\ writeIndex = 0
  /\ readIndex = 0
  /\ readAvaliable = [i \in Index |-> FALSE]
  /\ publishing = FALSE

\* PingPongBuffer_GetReadBuf: buffer 0 first; the index it sets, if there is one.
Readable   == readAvaliable[0] \/ readAvaliable[1]
GetReadBuf == IF readAvaliable[0] THEN 0 ELSE 1

\* PingPongBuffer_SetReadDone(i), i being the read index.
SetReadDone(i) == readAvaliable' = [readAvaliable EXCEPT ![i] = FALSE]

\* Mutant: the write index is used without looking at the read index.
WriteIndexAlone == writeIndex

\* PingPongBuffer_GetWriteBuf never gives away the buffer read last.
GetWriteBuf == IF writeIndex = readIndex THEN Other(readIndex) ELSE writeIndex

\* PingPongBuffer_SetWriteDone(i), i being the write index.
SetWriteDone(i) ==
  /\ readAvaliable' = [readAvaliable EXCEPT ![i] = TRUE]
  /\ writeIndex' = Other(i)

\* Account::Commit of data of the right size.
Commit(v) ==
  /\ buffer' = [buffer EXCEPT ![GetWriteBuf] = v]
  /\ SetWriteDone(GetWriteBuf)
  /\ UNCHANGED <<readIndex, publishing>>

\* Account::Publish up to the first callback, and from the last one on.
PublishBegin ==
  /\ ~publishing
  /\ Readable
  /\ readIndex' = GetReadBuf
  /\ publishing' = TRUE
  /\ UNCHANGED <<buffer, writeIndex, readAvaliable>>

PublishEnd ==
  /\ publishing
  /\ SetReadDone(readIndex)
  /\ publishing' = FALSE
  /\ UNCHANGED <<buffer, writeIndex, readIndex>>

\* Mutant: SetReadDone is forgotten.
PullKeeps ==
  /\ ~publishing
  /\ Readable
  /\ readIndex' = GetReadBuf
  /\ UNCHANGED <<buffer, writeIndex, readAvaliable, publishing>>

\* Account::Pull from a publisher without a callback.
Pull ==
  /\ ~publishing
  /\ Readable
  /\ readIndex' = GetReadBuf
  /\ SetReadDone(GetReadBuf)
  /\ UNCHANGED <<buffer, writeIndex, publishing>>

CacheNext == (\E v \in Value : Commit(v)) \/ PublishBegin \/ PublishEnd \/ Pull

CacheSpec == CacheInit /\ [][CacheNext]_cacheVars

-----------------------------------------------------------------------------
\* Outside Publish the buffer read last is used up, so at most one buffer is
\* readable and "buffer 0 first" cannot bring back an older value; inside, the
\* buffer in the subscribers' hands still counts as readable and is written.
OnlyOneFresh ==
  /\ readAvaliable[readIndex] = publishing
  /\ \A i \in Index : readAvaliable[i] => buffer[i] # None

\* The cache seen as a LatestValue.
freshValue == IF readAvaliable[Other(readIndex)] THEN buffer[Other(readIndex)] ELSE None
heldValue  == IF publishing THEN buffer[readIndex] ELSE None

Latest == INSTANCE LatestValue WITH fresh <- freshValue, held <- heldValue

\* The two buffers and four flags implement the abstract cache: Publish and
\* Pull always get the last committed value, no value is delivered twice, and
\* what Publish shows its subscribers stays put while callbacks commit.
ImplementsLatestValue == Latest!Spec
=============================================================================
