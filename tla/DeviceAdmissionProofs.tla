------------------------ MODULE DeviceAdmissionProofs ------------------------
(***************************************************************************)
(* Proofs about DeviceAdmission and AdmissionOrder, for any attempts,      *)
(* requests, channels and limits.                                          *)
(*                                                                         *)
(* A step of the protocol is a step of ScopeFence or leaves the fence      *)
(* alone, so FenceInv holds here as well.  BaseInv adds what is on the     *)
(* wire: the request in flight on the player's channel and the answer to   *)
(* it are those its delivery waits for, and what arrives late on a channel *)
(* it gave up finds its command owned.  OpensFenced says which OPENs are   *)
(* shut out, SessionsSettled why BEGIN and CANCEL create no lease; neither *)
(* depends on when a device proof arrives.  The last part maps the         *)
(* protocol to the request of DeviceRequest.                               *)
(***************************************************************************)
EXTENDS AdmissionOrder, ScopeFenceProofs, SequenceTheorems

\* All channels are those of one peer.
ThePeer == CHOOSE p \in Peers : \A c \in Channels : PeerOf[c] = p
Seat(id) == <<ThePeer, id>>

AttemptOps == {"OPEN", "RECOVER_OPEN"}
StageOps == {"CHUNK", "COMMIT"}
SubmitOps == {"BEGIN", "CHUNK", "COMMIT"}
AskingSteps == {"RECOVER", "RECOVER_AGAIN", "RECHECK", "LASTCHECK"}

(* A scope that is not in the table is remembered nowhere.                 *)
AbsentIsBlank ==
    \A k \in Keys \ table :
        generation[k] = 0 /\ holder[k] = NoChannel /\ retired[k] = {} /\ barrier[k] = 0

(* Channels are used one after the other; the host knows those that are    *)
(* open.                                                                   *)
ChannelsInOrder ==
    /\ chan \in {NoChannel, lastChan}
    /\ \A c \in Channels :
        /\ c > lastChan => link[c] = "NONE" /\ sent[c] = None
        /\ c \in registered <=> link[c] = "OPEN"
        /\ c \in registered => c \notin down
        /\ answer[c] # None => c = chan
        /\ link[c] = "PROOF" => answer[c] = None

(* Every stage has its transfer and the other way round.                   *)
StagesTracked ==
    /\ \A c \in Channels : stage[c] # None => StageOf(c) \in transfers
    /\ \A t \in transfers : stage[t.channel] # None /\ t = StageOf(t.channel)
    /\ IsFiniteSet(Staging)
    /\ Cardinality(Staging) <= MaxTransfers

(* What is on its way belongs to a command of the outbox.                  *)
Owned(c) ==
    /\ sent[c].op \in AttemptOps => outbox[OPEN(sent[c].id)] # "NONE"
    /\ sent[c].op \notin AttemptOps => session # None /\ sent[c].session = session
    /\ sent[c].op \in SubmitOps => outbox[SUBMIT(sent[c].id)] # "NONE"
    /\ sent[c].op \in StageOps => stage[c] = None \/ stage[c].request = sent[c].id
    /\ sent[c].op = "CANCEL" =>
        outbox[CANCEL(sent[c].id)] # "NONE" /\ sent[c].id \in submitted

(* So does what the host stored, holds in RAM or is executing.             *)
HostOwned ==
    /\ \A a \in opened : outbox[OPEN(a)] # "NONE"
    /\ \A r \in submitted : outbox[SUBMIT(r)] # "NONE"
    /\ \A r \in Requests :
        /\ log[r] # <<>> => r \in submitted
        /\ log[r] = <<"CANCELLED">> => outbox[CANCEL(r)] \in {"PENDING", "ACK"}
    /\ \A c \in Channels :
        /\ stage[c] # None => outbox[SUBMIT(stage[c].request)] # "NONE"
        /\ sent[c] # None => Owned(c)
    /\ \A a \in Attempts : Seat(Attempt(a)) \in table => outbox[OPEN(a)] # "NONE"

BusyInside ==
    busy # NoChannel =>
        /\ busy \in registered
        /\ sent[busy] # None
        /\ sent[busy].op \in AttemptOps
        /\ sent[busy].id \in opened
        /\ Seat(Attempt(sent[busy].id)) \in table

(* The commands of the player, one at a time, and what it knows.           *)
OutboxKinds ==
    /\ \A a \in Attempts : outbox[OPEN(a)] # "SETTLED"
    /\ \A r \in Requests : outbox[SUBMIT(r)] \in {"NONE", "PENDING", "ACK"}
    /\ \A r \in Requests : outbox[CANCEL(r)] # "ABSENT"
    /\ \A m, n \in Pending : m = n

PlayerKnows ==
    /\ \A a \in Attempts :
        /\ outbox[OPEN(a)] = "ACK" <=> session = a
        /\ outbox[OPEN(a)] = "ACK" => a \in opened
        /\ outbox[OPEN(a)] = "PENDING" => session = None
    /\ request # None => outbox[SUBMIT(request)] = "ACK"
    /\ \A r \in Requests :
        /\ outbox[SUBMIT(r)] # "NONE" => session # None
        /\ outbox[SUBMIT(r)] = "ACK" => r \in submitted
        /\ outbox[SUBMIT(r)] # "ACK" => view[r] = <<>>
        /\ outbox[CANCEL(r)] # "NONE" => outbox[SUBMIT(r)] = "ACK"
        /\ outbox[CANCEL(r)] = "PENDING" => request = r
        /\ outbox[CANCEL(r)] = "ACK" => log[r] = <<"CANCELLED">>
        /\ outbox[CANCEL(r)] = "SETTLED" => view[r] # <<>> /\ log[r] # <<"CANCELLED">>
        /\ Extends(log[r], view[r])

(* The delivery in progress.                                               *)
StepsOf(m) ==
    CASE m[1] = "OPEN"   -> {"DELIVER", "RECOVER"}
      [] m[1] = "SUBMIT" -> {"RECONCILE", "DELIVER", "RECOVER", "REDELIVER", "APPLY"}
      [] m[1] = "CANCEL" -> Steps \ {"IDLE", "APPLY"}

FlowFits ==
    /\ flow.step = "IDLE" => flow.cmd = None
    /\ flow.cmd = None => flow.step \in {"IDLE", "RECONCILE"}
    /\ flow.cmd # None => flow.step \in StepsOf(flow.cmd)
    /\ flow.cmd # None /\ flow.step # "APPLY" => flow.cmd \in Pending
    /\ flow.step = "APPLY" =>
        /\ Pending = {}
        /\ request # None /\ flow.cmd = SUBMIT(request)
        /\ Extends(log[request], flow.log)
    /\ flow.step # "APPLY" => flow.log = <<>>
    /\ flow.step = "RECONCILE" => session # None
    /\ flow.step # "IDLE" => chan # NoChannel

(* The request in flight on the player's channel is the one it waits for.  *)
SentFits ==
    chan # NoChannel /\ sent[chan] # None =>
        /\ answer[chan] = None
        /\ flow.step \notin {"IDLE", "APPLY"}
        /\ flow.step = "RECONCILE" => sent[chan] = ReconcileRpc
        /\ flow.step \in {"DELIVER", "REDELIVER"} =>
            IF flow.cmd[1] = "SUBMIT"
            THEN sent[chan].op \in SubmitOps /\ sent[chan].id = flow.cmd[2]
            ELSE sent[chan] = DeliverRpc(flow.cmd)
        /\ flow.step \in AskingSteps => sent[chan] = RecoverRpc(flow.cmd)

\* The request that the player asks about.
Subject ==
    IF flow.step = "RECONCILE" THEN request
    ELSE IF flow.cmd[1] = "OPEN" THEN None ELSE flow.cmd[2]

(* The answer on its way is true.                                          *)
AnswerFits ==
    chan # NoChannel /\ answer[chan] # None =>
        /\ flow.step \notin {"IDLE", "APPLY"}
        /\ answer[chan].kind = "ACK" =>
            IF Subject = None THEN answer[chan].log = <<>>
            ELSE Subject \in submitted /\ Extends(log[Subject], answer[chan].log)
        /\ answer[chan].kind = "ACK" /\ flow.step # "RECONCILE" /\ flow.cmd[1] = "OPEN"
            => flow.cmd[2] \in opened
        /\ answer[chan].kind \in {"READY", "CHUNK_OK"} /\ flow.step # "RECONCILE"
           /\ flow.cmd[1] = "SUBMIT"
            => stage[chan] = None \/ stage[chan].request = flow.cmd[2]

BaseInv ==
    /\ TypeOK
    /\ FenceInv
    /\ ClosedIsEmpty
    /\ AbsentIsBlank
    /\ ChannelsInOrder
    /\ StagesTracked
    /\ HostOwned
    /\ BusyInside
    /\ OutboxKinds
    /\ PlayerKnows
    /\ FlowFits
    /\ SentFits
    /\ AnswerFits
    /\ OneActiveRequest

-----------------------------------------------------------------------------
\* The player knows, or is about to be told, that the host never saw an OPEN.
Absent(a) ==
    \/ outbox[OPEN(a)] = "ABSENT"
    \/ /\ chan # NoChannel
       /\ answer[chan] # None
       /\ answer[chan].kind = "NOT_FOUND"
       /\ flow.cmd = OPEN(a)

\* The channel's OPEN, or its recovery, is about attempt a.
Opens(c, a) == sent[c] # None /\ sent[c].op = "OPEN" /\ sent[c].id = a
Recovers(c, a) == sent[c] # None /\ sent[c].op = "RECOVER_OPEN" /\ sent[c].id = a

\* An OPEN on this channel comes too late, or will have been overtaken.
TooLate(c, a) ==
    IF link[c] = "PROOF"
    THEN \E d \in Channels : d > c /\ ordinal[d] # 0
    ELSE c \in registered => <<c, Seat(Attempt(a))>> \in fenced

OpenFenced(c, a) ==
    /\ \A d \in Channels : Recovers(d, a) => c < d
    /\ a \notin opened \cup overtaken /\ (Seat(Attempt(a)) \in table \/ Absent(a))
        => TooLate(c, a)

(* The attempts that were not overtaken: one that the player was told is   *)
(* unknown stays so, because its OPEN comes too late.                      *)
OpensFenced ==
    /\ \A a \in Attempts : Absent(a) => a \notin opened \/ a \in overtaken
    /\ \A c \in Channels, a \in Attempts : Opens(c, a) => OpenFenced(c, a)

OrderInv == BaseInv /\ OpensFenced

-----------------------------------------------------------------------------
\* The requests that a channel can begin with.
FirstOps == {"OPEN", "RECOVER_OPEN", "RECOVER"}

\* A bind of the session would create no lease.
Settled(s) == Seat(Session(s)) \in table \/ Cardinality(table) = MaxScopes

(* A session is settled before anything else is asked of it on a channel.  *)
SessionsSettled ==
    /\ \A c \in Channels : link[c] = "PROOF" => sent[c] # None /\ sent[c].op \in FirstOps
    /\ \A a \in opened : Seat(Attempt(a)) \in table =>
        Settled(a) \/ (busy # NoChannel /\ sent[busy].id = a)
    /\ \A c \in registered :
        sent[c] # None /\ sent[c].op \notin FirstOps => Settled(sent[c].session)
    /\ chan \in registered /\ sent[chan] = None /\ session # None => Settled(session)
    /\ /\ chan \in registered /\ answer[chan] # None /\ answer[chan].kind = "ACK"
       /\ flow.cmd # None /\ flow.cmd[1] = "OPEN"
       => Settled(flow.cmd[2])

-----------------------------------------------------------------------------
(* No value of the protocol is None.                                       *)
LEMMA RpcIsNotNone == \A x \in Rpcs : x # None
  BY DEF Rpcs, None

LEMMA ReplyIsNotNone == \A x \in Replies : x # None
  BY DEF Replies, None

LEMMA CommandIsNotNone == \A m \in Commands : m # None
  BY DEF Commands, None

LEMMA StageIsNotNone ==
    \A x \in [request : Requests, session : Attempts, received : 0..1] : x # None
  BY DEF None

LEMMA NoneIsNoId ==
    /\ None \notin Attempts
    /\ None \notin Requests
  BY AdmissionAssumption

(* Commands are told apart by their kind and their subject.                *)
LEMMA CommandForms ==
    /\ \A a \in Attempts : OPEN(a) \in Commands /\ OPEN(a)[1] = "OPEN" /\ OPEN(a)[2] = a
    /\ \A r \in Requests :
        /\ SUBMIT(r) \in Commands /\ SUBMIT(r)[1] = "SUBMIT" /\ SUBMIT(r)[2] = r
        /\ CANCEL(r) \in Commands /\ CANCEL(r)[1] = "CANCEL" /\ CANCEL(r)[2] = r
    /\ \A m \in Commands :
        \/ m[1] = "OPEN" /\ m[2] \in Attempts /\ m = OPEN(m[2])
        \/ m[1] = "SUBMIT" /\ m[2] \in Requests /\ m = SUBMIT(m[2])
        \/ m[1] = "CANCEL" /\ m[2] \in Requests /\ m = CANCEL(m[2])
  BY DEF Commands, OPEN, SUBMIT, CANCEL

LEMMA CommandsDiffer ==
    /\ \A x, y : OPEN(x) # SUBMIT(y) /\ OPEN(x) # CANCEL(y) /\ SUBMIT(x) # CANCEL(y)
    /\ \A x, y : OPEN(x) = OPEN(y) => x = y
    /\ \A x, y : SUBMIT(x) = SUBMIT(y) => x = y
    /\ \A x, y : CANCEL(x) = CANCEL(y) => x = y
  BY DEF OPEN, SUBMIT, CANCEL

(* All channels use one seat per scope.                                    *)
LEMMA KeyIsSeat ==
    ASSUME NEW c \in Channels
    PROVE  \A id : Key(c, id) = Seat(id)
<1>1. PeerOf[c] \in Peers /\ \A d \in Channels : PeerOf[d] = PeerOf[c]
  BY AdmissionAssumption, FenceAssumption
<1>2. ThePeer \in Peers /\ \A d \in Channels : PeerOf[d] = ThePeer
  BY <1>1 DEF ThePeer
<1> QED BY <1>2 DEF Key, Seat

LEMMA SeatsDiffer ==
    /\ \A a, b : Seat(Attempt(a)) # Seat(Session(b))
    /\ \A a, b : Seat(Attempt(a)) = Seat(Attempt(b)) => a = b
    /\ \A a, b : Seat(Session(a)) = Seat(Session(b)) => a = b
  BY DEF Seat, Attempt, Session

LEMMA ScopeOfAttempt ==
    \A a \in Attempts : Attempt(a) \in ScopeIds /\ Session(a) \in ScopeIds
  BY AdmissionAssumption DEF Attempt, Session

(* What it means that one history extends another.                         *)
LEMMA ShortSequences ==
    ASSUME NEW S, NEW x \in S, NEW y \in S
    PROVE  /\ <<>> \in Seq(S) /\ Len(<<>>) = 0
           /\ <<x>> \in Seq(S) /\ Len(<<x>>) = 1 /\ <<x>>[1] = x
           /\ <<x, y>> \in Seq(S) /\ Len(<<x, y>>) = 2
           /\ <<x, y>>[1] = x /\ <<x, y>>[2] = y
  OBVIOUS

LEMMA HistoryLengths ==
    ASSUME NEW h \in Histories
    PROVE  /\ h \in Seq(Statuses)
           /\ Len(h) \in 0..2
           /\ Len(h) = 0 <=> h = <<>>
           /\ Len(h) = 2 <=> h = <<"IN_REVIEW", "REJECTED">>
<1>1. "IN_REVIEW" \in Statuses /\ "REJECTED" \in Statuses /\ "CANCELLED" \in Statuses
  BY DEF Statuses, Closing
<1>2. CASE h = <<>>
  BY <1>1, <1>2, ShortSequences
<1>3. CASE h \in {<<"CANCELLED">>, <<"REJECTED">>, <<"IN_REVIEW">>}
  <2>1. h \in Seq(Statuses) /\ Len(h) = 1
    <3>1. \A x \in Statuses : <<x>> \in Seq(Statuses) /\ Len(<<x>>) = 1
      BY ShortSequences
    <3> QED BY <1>1, <1>3, <3>1
  <2>2. Len(<<"IN_REVIEW", "REJECTED">>) = 2 /\ Len(<<>>) = 0
    BY <1>1, ShortSequences
  <2> QED BY <2>1, <2>2
<1>4. CASE h = <<"IN_REVIEW", "REJECTED">>
  <2>1. h \in Seq(Statuses) /\ Len(h) = 2
    BY <1>1, <1>4, ShortSequences
  <2>2. Len(<<>>) = 0
    BY <1>1, ShortSequences
  <2> QED BY <1>4, <2>1, <2>2
<1> QED BY <1>2, <1>3, <1>4 DEF Histories

LEMMA FirstOfTwo ==
    SubSeq(<<"IN_REVIEW", "REJECTED">>, 1, 1) = <<"IN_REVIEW">>
<1> DEFINE g == <<"IN_REVIEW", "REJECTED">>
           f == <<"IN_REVIEW">>
<1>s. "IN_REVIEW" \in Statuses /\ "REJECTED" \in Statuses
  BY DEF Statuses, Closing
<1>1. g \in Seq(Statuses) /\ Len(g) = 2 /\ g[1] = "IN_REVIEW" /\ g[2] = "REJECTED"
  BY <1>s, ShortSequences
<1>2. f \in Seq(Statuses) /\ Len(f) = 1 /\ f[1] = "IN_REVIEW"
  BY <1>s, ShortSequences
<1> HIDE DEF g, f
<1>3. /\ SubSeq(g, 1, 1) \in Seq(Statuses)
      /\ Len(SubSeq(g, 1, 1)) = 1
      /\ SubSeq(g, 1, 1)[1] = g[1]
  <2>1. \A i \in 1..1 : g[i] \in Statuses
    BY <1>1, <1>s
  <2>2. 1 \in 1..2 /\ 1 \in 0..2
    OBVIOUS
  <2> QED BY <1>1, <2>1, <2>2, SubSeqProperties
<1>4. \A i \in 1..Len(f) : SubSeq(g, 1, 1)[i] = f[i]
  BY <1>1, <1>2, <1>3
<1> QED BY <1>2, <1>3, <1>4, SeqEqual DEF g, f

LEMMA ExtendsTable ==
    ASSUME NEW g \in Histories, NEW h \in Histories
    PROVE  Extends(g, h) <=>
              \/ h = <<>>
              \/ g = h
              \/ h = <<"IN_REVIEW">> /\ g = <<"IN_REVIEW", "REJECTED">>
<1>1. /\ g \in Seq(Statuses) /\ Len(g) \in 0..2
      /\ h \in Seq(Statuses) /\ Len(h) \in 0..2
  BY HistoryLengths
<1>2. SubSeq(g, 1, 0) = <<>>
  BY <1>1, SubSeqEmpty
<1>3. SubSeq(g, 1, Len(g)) = g
  BY <1>1, SubSeqFull
<1>4. CASE Len(h) = 0
  BY <1>1, <1>2, <1>4, HistoryLengths DEF Extends
<1>5. CASE Len(h) = Len(g)
  <2>1. h = <<"IN_REVIEW">> => g # <<"IN_REVIEW", "REJECTED">>
    BY <1>5
  <2> QED BY <1>1, <1>3, <1>5, <2>1, HistoryLengths DEF Extends
<1>6. CASE Len(h) > Len(g)
  <2>1. h # <<>> /\ g # h /\ g # <<"IN_REVIEW", "REJECTED">>
    BY <1>1, <1>6, HistoryLengths
  <2> QED BY <1>1, <1>6, <2>1 DEF Extends
<1>7. CASE Len(h) = 1 /\ Len(g) = 2
  <2>1. g = <<"IN_REVIEW", "REJECTED">>
    BY <1>7, HistoryLengths
  <2>2. h # <<>>
    BY <1>7, HistoryLengths
  <2>3. g # h
    BY <1>7
  <2>4. Extends(g, h) <=> SubSeq(g, 1, 1) = h
    BY <1>7 DEF Extends
  <2> QED BY <2>1, <2>2, <2>3, <2>4, FirstOfTwo
<1> QED BY <1>1, <1>4, <1>5, <1>6, <1>7

LEMMA HistoryValues ==
    /\ <<>> \in Histories /\ <<"CANCELLED">> \in Histories
    /\ <<"CANCELLED">> # <<>> /\ <<"CANCELLED">> # <<"IN_REVIEW">>
    /\ <<"CANCELLED">> # <<"IN_REVIEW", "REJECTED">>
    /\ <<"IN_REVIEW">> # <<>> /\ <<"IN_REVIEW", "REJECTED">> # <<>>
    /\ <<"REJECTED">> # <<>> /\ <<"REJECTED">> # <<"CANCELLED">>
    /\ <<"IN_REVIEW">> # <<"IN_REVIEW", "REJECTED">>
  BY DEF Histories

LEMMA StatusTable ==
    /\ Status(<<>>) = "PENDING"
    /\ Status(<<"CANCELLED">>) = "CANCELLED"
    /\ Status(<<"REJECTED">>) = "REJECTED"
    /\ Status(<<"IN_REVIEW">>) = "IN_REVIEW"
    /\ Status(<<"IN_REVIEW", "REJECTED">>) = "REJECTED"
  BY DEF Status

LEMMA ExtendsIsTransitive ==
    ASSUME NEW f \in Histories, NEW g \in Histories, NEW h \in Histories,
           Extends(f, g), Extends(g, h)
    PROVE  Extends(f, h)
  BY ExtendsTable, HistoryValues

(* A decision of the GM extends the history, and reopens nothing.          *)
LEMMA DecisionExtends ==
    ASSUME NEW h \in Histories, NEW status \in {"IN_REVIEW", "REJECTED"},
           Status(h) \in IF status = "IN_REVIEW" THEN {"PENDING"}
                                                 ELSE {"PENDING", "IN_REVIEW"}
    PROVE  /\ Append(h, status) \in Histories
           /\ Extends(Append(h, status), h)
           /\ Append(h, status) # <<>> /\ Append(h, status) # <<"CANCELLED">>
           /\ Status(h) \notin Closing
<1>1. h = <<>> \/ (h = <<"IN_REVIEW">> /\ status = "REJECTED")
  <2>1. Status(h) \in {"PENDING", "IN_REVIEW"}
    OBVIOUS
  <2>2. Status(h) = "IN_REVIEW" => status = "REJECTED"
    OBVIOUS
  <2>3. h = <<>> \/ h = <<"IN_REVIEW">>
    <3>1. h \notin {<<"CANCELLED">>, <<"REJECTED">>, <<"IN_REVIEW", "REJECTED">>}
      BY <2>1, StatusTable
    <3> QED BY <3>1 DEF Histories
  <2>4. CASE h = <<"IN_REVIEW">>
    <3>1. Status(h) = "IN_REVIEW"
      BY <2>4, StatusTable
    <3> QED BY <2>2, <2>4, <3>1
  <2> QED BY <2>3, <2>4
<1>2. CASE h = <<>>
  <2>1. Append(h, status) = <<status>>
    <3>1. <<>> \in Seq(Statuses) /\ status \in Statuses
      BY DEF Statuses, Closing
    <3> QED BY <1>2, <3>1, AppendIsConcat, ConcatEmptySeq
  <2>2. <<status>> \in Histories /\ <<status>> # <<"CANCELLED">> /\ <<status>> # <<>>
    BY DEF Histories
  <2> QED BY <1>2, <2>1, <2>2, ExtendsTable, StatusTable DEF Histories, Closing
<1>3. CASE h = <<"IN_REVIEW">> /\ status = "REJECTED"
  <2>1. Append(h, status) = <<"IN_REVIEW", "REJECTED">>
    <3>1. h \in Seq(Statuses) /\ status \in Statuses /\ Len(h) = 1 /\ h[1] = "IN_REVIEW"
      BY <1>3 DEF Statuses, Closing
    <3>2. /\ Append(h, status) \in Seq(Statuses)
          /\ Len(Append(h, status)) = 2
          /\ Append(h, status)[1] = "IN_REVIEW"
          /\ Append(h, status)[2] = "REJECTED"
      BY <1>3, <3>1, AppendProperties
    <3>3. /\ <<"IN_REVIEW", "REJECTED">> \in Seq(Statuses)
          /\ Len(<<"IN_REVIEW", "REJECTED">>) = 2
      BY <3>1, ShortSequences DEF Statuses, Closing
    <3>4. <<"IN_REVIEW", "REJECTED">>[1] = "IN_REVIEW" /\ <<"IN_REVIEW", "REJECTED">>[2] = "REJECTED"
      OBVIOUS
    <3> DEFINE g == Append(h, status)
               f == <<"IN_REVIEW", "REJECTED">>
    <3>5. Len(g) = Len(f) /\ \A i \in 1..Len(g) : g[i] = f[i]
      BY <3>2, <3>3, <3>4
    <3> QED BY <3>2, <3>3, <3>5, SeqEqual
  <2>2. <<"IN_REVIEW", "REJECTED">> \in Histories
    BY DEF Histories
  <2> QED BY <1>3, <2>1, <2>2, ExtendsTable, StatusTable, HistoryValues DEF Closing
<1> QED BY <1>1, <1>2, <1>3

-----------------------------------------------------------------------------
(* What a request on the wire carries.                                     *)
LEMMA RpcForms ==
    \A x \in Rpcs :
        /\ x = Rpc(x.op, x.id, x.session)
        /\ x.op \in AttemptOps => x.id \in Attempts /\ x.session = None
        /\ x.op \notin AttemptOps =>
            /\ x.op \in SubmitOps \cup {"RECOVER", "CANCEL"}
            /\ x.id \in Requests /\ x.session \in Attempts
  BY DEF Rpcs, Rpc, AttemptOps, SubmitOps

LEMMA SentTyped ==
    ASSUME TypeOK, NEW c \in Channels, sent[c] # None
    PROVE  sent[c] \in Rpcs
  BY DEF TypeOK

LEMMA SeatTyped ==
    ASSUME NEW c \in Channels, NEW a \in Attempts
    PROVE  /\ Attempt(a) \in ScopeIds /\ Session(a) \in ScopeIds
           /\ Key(c, Attempt(a)) = Seat(Attempt(a))
           /\ Key(c, Session(a)) = Seat(Session(a))
           /\ Seat(Attempt(a)) \in Keys /\ Seat(Session(a)) \in Keys
<1>1. Attempt(a) \in ScopeIds /\ Session(a) \in ScopeIds
  BY ScopeOfAttempt
<1>2. Key(c, Attempt(a)) = Seat(Attempt(a)) /\ Key(c, Session(a)) = Seat(Session(a))
  BY KeyIsSeat
<1> QED BY <1>1, <1>2, KeyInKeys

(* Taking a scope is a recovery in the fence, or changes nothing.          *)
LEMMA AssignIsFenceStep ==
    ASSUME NEW c \in Channels, NEW id \in ScopeIds, Assign(c, id)
    PROVE  [FenceNext]_fenceVars
  BY DEF Assign, FenceNext

LEMMA HostStepIsFenceStep ==
    ASSUME TypeOK, BusyInside, NEW c \in Channels, HostServes(c)
    PROVE  [FenceNext]_fenceVars
<1>s. sent[c] # None => sent[c] \in Rpcs
  BY SentTyped
<1>b. busy = c => sent[c] \in Rpcs /\ sent[c].op \in AttemptOps
  <2>1. c # NoChannel
    BY FenceAssumption
  <2> QED BY <1>s, <2>1 DEF BusyInside
<1>1. CASE HostOpens(c)
  <2>1. sent[c].id \in Attempts
    BY <1>s, <1>1, RpcForms DEF HostOpens, Executing, AttemptOps
  <2>2. Bind(c, Attempt(sent[c].id))
    BY <1>1 DEF HostOpens
  <2> QED BY <2>1, <2>2, ScopeOfAttempt DEF FenceNext
<1>2. CASE HostBindsSession(c)
  <2>1. sent[c].id \in Attempts
    BY <1>b, <1>2, RpcForms DEF HostBindsSession
  <2>2. Bind(c, Session(sent[c].id))
    BY <1>2 DEF HostBindsSession
  <2> QED BY <2>1, <2>2, ScopeOfAttempt DEF FenceNext
<1>3. CASE HostRefusesOpen(c) \/ HostRefusesRecovery(c) \/ HostRefusesRequest(c)
  <2>1. Refuse(c)
    BY <1>3 DEF HostRefusesOpen, HostRefusesRecovery, HostRefusesRequest
  <2> QED BY <2>1 DEF Refuse
<1>4. CASE HostRecoversAttempt(c)
  <2>1. sent[c].id \in Attempts
    BY <1>s, <1>4, RpcForms DEF HostRecoversAttempt, Executing, AttemptOps
  <2>2. Assign(c, Attempt(sent[c].id))
    BY <1>4 DEF HostRecoversAttempt
  <2> QED BY <2>1, <2>2, ScopeOfAttempt, AssignIsFenceStep
<1>5. CASE HostRecoversSession(c)
  <2>1. sent[c].id \in Attempts
    BY <1>b, <1>5, RpcForms DEF HostRecoversSession
  <2>2. Assign(c, Session(sent[c].id))
    BY <1>5 DEF HostRecoversSession
  <2> QED BY <2>1, <2>2, ScopeOfAttempt, AssignIsFenceStep
<1>6. CASE HostRecoversRequest(c)
  <2>1. sent[c].session \in Attempts
    BY <1>s, <1>6, RpcForms DEF HostRecoversRequest, Executing, AttemptOps
  <2>2. Assign(c, Session(sent[c].session))
    BY <1>6 DEF HostRecoversRequest
  <2> QED BY <2>1, <2>2, ScopeOfAttempt, AssignIsFenceStep
<1>7. CASE HostBegins(c)
  <2>1. sent[c].session \in Attempts
    BY <1>s, <1>7, RpcForms DEF HostBegins, Executing, AttemptOps
  <2>2. UNCHANGED fenceVars \/ TrackTransfer(c, Session(sent[c].session), "STAGE")
    BY <1>7 DEF HostBegins
  <2> QED BY <2>1, <2>2, ScopeOfAttempt, AdmissionAssumption DEF FenceNext
<1>8. CASE HostTakesChunk(c) \/ HostCancels(c)
  BY <1>8 DEF HostTakesChunk, HostCancels
<1>9. CASE HostCommits(c)
  <2>1. ReleaseTransfer(StageOf(c))
    BY <1>9 DEF HostCommits
  <2>2. StageOf(c) \in transfers
    BY <2>1 DEF ReleaseTransfer
  <2> QED BY <2>1, <2>2 DEF FenceNext
<1> QED
  BY <1>1, <1>2, <1>3, <1>4, <1>5, <1>6, <1>7, <1>8, <1>9 DEF HostServes

LEMMA PlayerReadsOnly ==
    ASSUME PlayerReads
    PROVE  UNCHANGED <<hostVars, fenceVars>>
  BY DEF PlayerReads, PlayerSettlesCancel, PlayerReconciles, PlayerReconcileFails,
         PlayerEndsOpen, PlayerSendsBatch, PlayerEndsSubmit, PlayerAppliesCurrent,
         PlayerEndsCancel, PlayerRedelivers, PlayerRechecks, PlayerStaysPending,
         PlayerOnly

PlayerStep ==
    \/ \E a \in Attempts : PlayerOpens(a)
    \/ \E r \in Requests : PlayerSubmits(r)
    \/ PlayerCancels
    \/ PlayerRecovers
    \/ PlayerRefreshes
    \/ PlayerReads
    \/ PlayerLeavesChannel

LEMMA PlayerStepOnly ==
    ASSUME PlayerStep
    PROVE  UNCHANGED <<hostVars, fenceVars>>
  BY PlayerReadsOnly
  DEF PlayerStep, PlayerOpens, PlayerSubmits, PlayerCancels, PlayerRecovers,
      PlayerRefreshes, PlayerLeavesChannel, PlayerOnly

(* Every step of the protocol is one of the fence, or leaves it alone.     *)
LEMMA StepIsFenceStep ==
    ASSUME TypeOK, BusyInside, [Next]_vars
    PROVE  [FenceNext]_fenceVars
<1>1. ASSUME NEW c \in Channels, HostAcceptsProof(c) PROVE [FenceNext]_fenceVars
  BY <1>1 DEF HostAcceptsProof, FenceNext
<1>2. ASSUME NEW c \in Channels, HostServes(c) PROVE [FenceNext]_fenceVars
  BY <1>2, HostStepIsFenceStep
<1>3. ASSUME NEW c \in Channels, HostLosesChannel(c) \/ HostLosesProof(c)
      PROVE  [FenceNext]_fenceVars
  BY <1>3 DEF HostLosesChannel, HostLosesProof, FenceNext
<1>4. CASE HostStops \/ HostStarts
  BY <1>4 DEF HostStops, HostStarts, FenceNext
<1>5. ASSUME NEW r \in Requests, NEW status \in {"IN_REVIEW", "REJECTED"},
             GmDecides(r, status)
      PROVE  [FenceNext]_fenceVars
  BY <1>5 DEF GmDecides
<1>6. CASE CampaignAdvances
  BY <1>6 DEF CampaignAdvances
<1>7. CASE PlayerStep
  BY <1>7, PlayerStepOnly
<1>8. CASE UNCHANGED vars
  BY <1>8 DEF vars
<1> QED
  BY <1>1, <1>2, <1>3, <1>4, <1>5, <1>6, <1>7, <1>8 DEF Next, PlayerStep

(* What the fence keeps besides FenceInv.                                  *)
FenceKept ==
    /\ FenceInv' /\ ClosedIsEmpty' /\ AbsentIsBlank'
    /\ fenced \subseteq fenced'

LEMMA FenceKeeps ==
    ASSUME FenceInv, ClosedIsEmpty, AbsentIsBlank, [FenceNext]_fenceVars
    PROVE  FenceKept
<1>1. FenceInv' /\ ClosedIsEmpty'
  BY NextKeepsInv
<1> DEFINE Kept == AbsentIsBlank' /\ fenced \subseteq fenced'
<1>2. ASSUME NEW c \in Channels,
             Register(c) \/ NativeClose(c)
      PROVE  Kept
  BY <1>2 DEF Register, NativeClose, scopeVars, AbsentIsBlank
<1>3. ASSUME NEW c \in Channels, CloseChannel(c) PROVE Kept
  <2>1. fenced' = fenced
    BY <1>3 DEF CloseChannel
  <2>2. CASE EmptyTable
    BY <2>1, <2>2 DEF EmptyTable, AbsentIsBlank
  <2>3. CASE ~EmptyTable
    <3>1. /\ UNCHANGED <<table, generation, holder, barrier>>
          /\ retired' = [k \in Keys |-> IF holder[k] = c THEN retired[k] \cup {c}
                                                         ELSE retired[k]]
      BY <1>3, <2>3 DEF CloseChannel
    <3> QED BY <2>1, <3>1, FenceAssumption DEF AbsentIsBlank
  <2> QED BY <2>2, <2>3
<1>4. ASSUME NEW c \in Channels, NEW id \in ScopeIds,
             Bind(c, id) \/ \E fails \in BOOLEAN : Recover(c, id, fails)
      PROVE  Kept
  <2> DEFINE k == Key(c, id)
  <2> DEFINE Others == \A j \in Keys \ {k} :
                /\ generation'[j] = generation[j] /\ holder'[j] = holder[j]
                /\ retired'[j] = retired[j] /\ barrier'[j] = barrier[j]
  <2>1. table' = table \cup {k} /\ Others /\ fenced \subseteq fenced'
    <3>1. CASE Bind(c, id)
      BY <3>1 DEF Bind, FenceInv, FenceTypeOK
    <3>2. ASSUME NEW fails \in BOOLEAN, Recover(c, id, fails)
          PROVE  table' = table \cup {k} /\ Others /\ fenced \subseteq fenced'
      BY <3>2 DEF Recover, FenceInv, FenceTypeOK
    <3> QED BY <1>4, <3>1, <3>2
  <2> HIDE DEF k
  <2> QED BY <2>1 DEF AbsentIsBlank
<1>5. ASSUME \/ \E c \in Channels, id \in ScopeIds, x \in TransferIds :
                  TrackTransfer(c, id, x)
             \/ \E t \in transfers : ReleaseTransfer(t)
      PROVE  Kept
  <2>1. UNCHANGED <<scopeVars, fenced>>
    BY <1>5 DEF TrackTransfer, ReleaseTransfer
  <2> QED BY <2>1 DEF scopeVars, AbsentIsBlank
<1>6. ASSUME Close PROVE Kept
  BY <1>6 DEF Close, EmptyTable, AbsentIsBlank
<1>7. ASSUME Reopen PROVE Kept
  BY <1>7 DEF Reopen, scopeVars, AbsentIsBlank
<1>8. ASSUME UNCHANGED fenceVars PROVE Kept
  BY <1>8 DEF fenceVars, scopeVars, AbsentIsBlank
<1>9. Kept
  <2>1. CASE FenceNext
    BY <2>1, <1>2, <1>3, <1>4, <1>5, <1>6, <1>7 DEF FenceNext
  <2> QED BY <2>1, <1>8
<1> QED BY <1>1, <1>9 DEF FenceKept

-----------------------------------------------------------------------------
(***************************************************************************)
(* What the host does with the RPC of a channel, part by part.             *)
(***************************************************************************)
StageRecords == [request : Requests, session : Attempts, received : 0..1]

\* The durable state of the host.
StoresWhatWasAsked(c) ==
    /\ opened' \in {opened, opened \cup {sent[c].id}}
    /\ opened' # opened => sent[c].op = "OPEN"
    /\ \/ submitted' = submitted
       \/ /\ stage[c] # None
          /\ submitted' = submitted \cup {stage[c].request}
          /\ stage[c].request \in submitted \/ SessionIsFree
    /\ \/ log' = log
       \/ /\ sent[c].op = "CANCEL"
          /\ log[sent[c].id] \in {<<>>, <<"CANCELLED">>}
          /\ log' = [log EXCEPT ![sent[c].id] = <<"CANCELLED">>]
    /\ campaign' = campaign

\* Its stages.
KeepsStages(c) ==
    /\ stage' \in [Channels -> StageRecords \cup {None}]
    /\ \A d \in Channels : stage'[d] # None =>
        \/ stage[d] # None /\ stage'[d].request = stage[d].request
        \/ /\ d = c /\ sent[c].op = "BEGIN" /\ sent'[c] = None
           /\ stage'[c].request = sent[c].id

\* What it answers is true of the state it leaves.
TrueReply(c, g) ==
    /\ g.kind = "ACK" =>
        IF sent[c].op \in AttemptOps
        THEN g.log = <<>> /\ sent[c].id \in opened'
        ELSE sent[c].id \in submitted' /\ Extends(log'[sent[c].id], g.log)
    /\ g.kind \in {"READY", "CHUNK_OK"} =>
        stage'[c] = None \/ stage'[c].request = sent[c].id
    /\ g.kind = "NOT_FOUND" =>
        sent[c].op = "RECOVER" \/ (sent[c].op = "RECOVER_OPEN" /\ sent[c].id \notin opened')

Replied(c, g) ==
    /\ sent' = [sent EXCEPT ![c] = None]
    /\ answer' = [answer EXCEPT ![c] = IF c = chan THEN g ELSE None]

RepliesTruly(c) ==
    \/ UNCHANGED wireVars
    \/ UNCHANGED link /\ \E g \in Replies : Replied(c, g) /\ TrueReply(c, g)

\* Between two scopes of one RPC.
EntersScopes(c) ==
    \/ busy' = NoChannel
    \/ /\ busy' = c
       /\ UNCHANGED wireVars
       /\ sent[c].op \in AttemptOps
       /\ sent[c].id \in opened'
       /\ Seat(Attempt(sent[c].id)) \in table'

TakesScopes(c) ==
    \/ table' = table
    \/ sent[c].op \in AttemptOps /\ table' = table \cup {Seat(Attempt(sent[c].id))}
    \/ \E a \in Attempts : table' = table \cup {Seat(Session(a))}

ServeFacts(c) ==
    /\ c \in registered
    /\ sent[c] \in Rpcs
    /\ UNCHANGED <<channelVars, playerVars, flowVars>>
    /\ StoresWhatWasAsked(c)
    /\ KeepsStages(c)
    /\ RepliesTruly(c)
    /\ EntersScopes(c)
    /\ TakesScopes(c)

(* The stages, when they stay or are dropped.                              *)
LEMMA StagesKept ==
    ASSUME TypeOK, NEW c \in Channels,
           \/ UNCHANGED stage
           \/ \E tracked : Stages(tracked)
           \/ stage' = [stage EXCEPT ![c] = None]
    PROVE  KeepsStages(c)
<1>1. stage \in [Channels -> StageRecords \cup {None}]
  BY DEF TypeOK, StageRecords
<1>2. /\ stage' \in [Channels -> StageRecords \cup {None}]
      /\ \A d \in Channels : stage'[d] \in {stage[d], None}
  <2>1. CASE UNCHANGED stage
    BY <1>1, <2>1
  <2>2. ASSUME NEW tracked, Stages(tracked)
        PROVE  <1>2
    BY <1>1, <2>2 DEF Stages
  <2>3. CASE stage' = [stage EXCEPT ![c] = None]
    BY <1>1, <2>3
  <2> QED BY <2>1, <2>2, <2>3
<1> QED BY <1>2 DEF KeepsStages

LEMMA RespondFacts ==
    ASSUME NEW c \in Channels, NEW g \in Replies, Respond(c, g), TrueReply(c, g)
    PROVE  RepliesTruly(c) /\ UNCHANGED <<playerVars, flowVars>>
  BY DEF Respond, RepliesTruly, Replied

LEMMA ReplyTyped ==
    /\ \A k \in {"ACK", "NOT_FOUND", "READY", "CHUNK_OK", "REFUSED"} :
        \A h \in Histories : Reply(k, h) \in Replies
    /\ \A k, h : Reply(k, h).kind = k /\ Reply(k, h).log = h
    /\ <<>> \in Histories /\ <<"CANCELLED">> \in Histories
  BY DEF Reply, Replies, Histories

LEMMA ExtendsItself == \A h \in Histories : Extends(h, h) /\ Extends(h, <<>>)
  BY ExtendsTable, HistoryValues

\* The host refuses: nothing is stored, taken or begun.
LEMMA RefusalFacts ==
    ASSUME TypeOK, NEW c \in Channels, c \in registered, sent[c] \in Rpcs,
           Refuse(c), NoHostWrite, UNCHANGED stage, busy' = NoChannel
    PROVE  ServeFacts(c)
<1>1. /\ Respond(c, Reply("REFUSED", <<>>))
      /\ UNCHANGED <<channelVars, scopeVars, transfers>>
  BY DEF Refuse, fenceVars
<1>2. TrueReply(c, Reply("REFUSED", <<>>))
  BY ReplyTyped DEF TrueReply
<1>3. RepliesTruly(c) /\ UNCHANGED <<playerVars, flowVars>>
  BY <1>1, <1>2, RespondFacts, ReplyTyped
<1>4. StoresWhatWasAsked(c)
  BY DEF NoHostWrite, StoresWhatWasAsked
<1>5. KeepsStages(c)
  BY StagesKept
<1>6. EntersScopes(c) /\ TakesScopes(c)
  BY <1>1 DEF EntersScopes, TakesScopes, scopeVars
<1> QED BY <1>1, <1>3, <1>4, <1>5, <1>6 DEF ServeFacts

(* What taking a scope does to the table.                                  *)
LEMMA AssignFacts ==
    ASSUME NEW c \in Channels, NEW id, Bind(c, id) \/ Assign(c, id)
    PROVE  /\ table' = table \cup {Seat(id)}
           /\ UNCHANGED channelVars
<1>1. CASE Bind(c, id)
  BY <1>1, KeyIsSeat DEF Bind
<1>2. CASE Leased(c, Key(c, id)) /\ UNCHANGED fenceVars
  BY <1>2, KeyIsSeat DEF Leased, fenceVars, scopeVars, channelVars
<1>3. CASE Recover(c, id, FALSE)
  BY <1>3, KeyIsSeat DEF Recover
<1> QED BY <1>1, <1>2, <1>3 DEF Assign

LEMMA ExecutingFacts ==
    ASSUME TypeOK, HostOwned, NEW c \in Channels, NEW ops, Executing(c, ops)
    PROVE  /\ busy = NoChannel /\ c \in registered
           /\ sent[c] # None /\ sent[c] \in Rpcs /\ sent[c].op \in ops
           /\ Owned(c)
  BY SentTyped DEF Executing, Live, HostOwned

LEMMA BusyFacts ==
    ASSUME TypeOK, BusyInside, NEW c \in Channels, busy = c
    PROVE  /\ c \in registered
           /\ sent[c] \in Rpcs /\ sent[c].op \in AttemptOps
           /\ sent[c].id \in Attempts /\ sent[c].id \in opened
           /\ Seat(Attempt(sent[c].id)) \in table
<1>1. busy # NoChannel
  BY FenceAssumption
<1>2. sent[c] # None
  BY <1>1 DEF BusyInside
<1> QED BY <1>1, <1>2, SentTyped, RpcForms DEF BusyInside

LEMMA OpensServe ==
    ASSUME TypeOK, HostOwned, NEW c \in Channels, HostOpens(c)
    PROVE  ServeFacts(c)
<1>1. sent[c].op = "OPEN" /\ sent[c] \in Rpcs /\ c \in registered
  BY ExecutingFacts DEF HostOpens
<1>2. table' = table \cup {Seat(Attempt(sent[c].id))} /\ UNCHANGED channelVars
  BY AssignFacts DEF HostOpens
<1>3. /\ opened' = opened \cup {sent[c].id} /\ busy' = c
      /\ UNCHANGED <<submitted, log, campaign, stage, wireVars, playerVars, flowVars>>
  BY DEF HostOpens
<1>4. StoresWhatWasAsked(c)
  BY <1>1, <1>3 DEF StoresWhatWasAsked
<1>5. KeepsStages(c)
  BY <1>3, StagesKept
<1>6. EntersScopes(c) /\ TakesScopes(c) /\ RepliesTruly(c)
  BY <1>1, <1>2, <1>3 DEF EntersScopes, TakesScopes, RepliesTruly, AttemptOps
<1> QED BY <1>1, <1>2, <1>3, <1>4, <1>5, <1>6 DEF ServeFacts

LEMMA SessionServe ==
    ASSUME TypeOK, BusyInside, NEW c \in Channels,
           HostBindsSession(c) \/ HostRecoversSession(c)
    PROVE  ServeFacts(c)
<1>1. /\ c \in registered /\ sent[c] \in Rpcs /\ sent[c].op \in AttemptOps
      /\ sent[c].id \in Attempts /\ sent[c].id \in opened
  BY BusyFacts DEF HostBindsSession, HostRecoversSession
<1>2. table' = table \cup {Seat(Session(sent[c].id))} /\ UNCHANGED channelVars
  BY AssignFacts DEF HostBindsSession, HostRecoversSession
<1>3. busy' = NoChannel /\ Respond(c, Reply("ACK", <<>>)) /\ NoHostWrite
  BY DEF HostBindsSession, HostRecoversSession
<1>4. TrueReply(c, Reply("ACK", <<>>))
  BY <1>1, <1>3, ReplyTyped DEF TrueReply, NoHostWrite
<1>5. RepliesTruly(c) /\ UNCHANGED <<playerVars, flowVars>>
  BY <1>3, <1>4, RespondFacts, ReplyTyped
<1>6. StoresWhatWasAsked(c)
  BY <1>3 DEF NoHostWrite, StoresWhatWasAsked
<1>7. KeepsStages(c)
  BY StagesKept DEF HostBindsSession, HostRecoversSession
<1>8. EntersScopes(c) /\ TakesScopes(c)
  BY <1>1, <1>2, <1>3 DEF EntersScopes, TakesScopes
<1> QED BY <1>1, <1>2, <1>5, <1>6, <1>7, <1>8 DEF ServeFacts

LEMMA AttemptServe ==
    ASSUME TypeOK, HostOwned, NEW c \in Channels, HostRecoversAttempt(c)
    PROVE  ServeFacts(c)
<1>1. /\ sent[c].op = "RECOVER_OPEN" /\ sent[c] \in Rpcs /\ c \in registered
      /\ busy = NoChannel
  BY ExecutingFacts DEF HostRecoversAttempt
<1>2. table' = table \cup {Seat(Attempt(sent[c].id))} /\ UNCHANGED channelVars
  BY AssignFacts DEF HostRecoversAttempt
<1>3. NoHostWrite /\ UNCHANGED stage
  BY DEF HostRecoversAttempt
<1>4. StoresWhatWasAsked(c)
  BY <1>3 DEF NoHostWrite, StoresWhatWasAsked
<1>5. KeepsStages(c)
  BY <1>3, StagesKept
<1>6. TakesScopes(c)
  BY <1>1, <1>2 DEF TakesScopes, AttemptOps
<1>7. RepliesTruly(c) /\ EntersScopes(c) /\ UNCHANGED <<playerVars, flowVars>>
  <2>1. CASE sent[c].id \in opened
    <3>1. busy' = c /\ UNCHANGED <<wireVars, playerVars, flowVars>>
      BY <2>1 DEF HostRecoversAttempt
    <3>2. sent[c].id \in opened'
      BY <2>1, <1>3 DEF NoHostWrite
    <3> QED BY <1>1, <1>2, <3>1, <3>2 DEF RepliesTruly, EntersScopes, AttemptOps
  <2>2. CASE sent[c].id \notin opened
    <3>1. Respond(c, Reply("NOT_FOUND", <<>>)) /\ busy' = NoChannel
      BY <1>1, <2>2 DEF HostRecoversAttempt
    <3>2. TrueReply(c, Reply("NOT_FOUND", <<>>))
      BY <1>1, <1>3, <2>2, ReplyTyped DEF TrueReply, NoHostWrite
    <3> QED BY <3>1, <3>2, RespondFacts, ReplyTyped DEF EntersScopes
  <2> QED BY <2>1, <2>2
<1> QED BY <1>1, <1>2, <1>4, <1>5, <1>6, <1>7 DEF ServeFacts

LEMMA RequestServe ==
    ASSUME TypeOK, HostOwned, NEW c \in Channels, HostRecoversRequest(c)
    PROVE  ServeFacts(c)
<1>1. /\ sent[c].op = "RECOVER" /\ sent[c] \in Rpcs /\ c \in registered
      /\ busy = NoChannel
  BY ExecutingFacts DEF HostRecoversRequest
<1>r. sent[c].id \in Requests /\ sent[c].session \in Attempts
  BY <1>1, RpcForms DEF AttemptOps
<1>2. /\ table' = table \cup {Seat(Session(sent[c].session))}
      /\ UNCHANGED channelVars
  BY AssignFacts DEF HostRecoversRequest
<1>3. NoHostWrite /\ Stages(transfers') /\ busy' = NoChannel
  BY <1>1 DEF HostRecoversRequest
<1>4. StoresWhatWasAsked(c)
  BY <1>3 DEF NoHostWrite, StoresWhatWasAsked
<1>5. KeepsStages(c)
  BY <1>3, StagesKept
<1>6. TakesScopes(c) /\ EntersScopes(c)
  BY <1>r, <1>2, <1>3 DEF TakesScopes, EntersScopes
<1> DEFINE g == IF sent[c].id \in submitted THEN Reply("ACK", log[sent[c].id])
                                            ELSE Reply("NOT_FOUND", <<>>)
<1>7. g \in Replies /\ Respond(c, g)
  BY <1>r, ReplyTyped DEF HostRecoversRequest, TypeOK
<1>8. TrueReply(c, g)
  <2>1. log[sent[c].id] \in Histories /\ log' = log /\ submitted' = submitted
    BY <1>r, <1>3 DEF TypeOK, NoHostWrite
  <2>2. Extends(log[sent[c].id], log[sent[c].id])
    BY <2>1, ExtendsItself
  <2>3. CASE sent[c].id \in submitted
    BY <1>1, <2>1, <2>2, <2>3, ReplyTyped DEF TrueReply, AttemptOps
  <2>4. CASE sent[c].id \notin submitted
    BY <1>1, <2>4, ReplyTyped DEF TrueReply
  <2> QED BY <2>3, <2>4
<1>9. RepliesTruly(c) /\ UNCHANGED <<playerVars, flowVars>>
  BY <1>7, <1>8, RespondFacts
<1> QED BY <1>1, <1>2, <1>4, <1>5, <1>6, <1>9 DEF ServeFacts

LEMMA RefusalsServe ==
    ASSUME TypeOK, HostOwned, BusyInside, NEW c \in Channels,
           HostRefusesOpen(c) \/ HostRefusesRecovery(c) \/ HostRefusesRequest(c)
    PROVE  ServeFacts(c)
<1>1. c \in registered /\ sent[c] \in Rpcs
  <2>1. (\E ops : Executing(c, ops)) \/ busy = c
    BY DEF HostRefusesOpen, HostRefusesRecovery, HostRefusesRequest
  <2> QED BY <2>1, ExecutingFacts, BusyFacts
<1>2. Refuse(c) /\ NoHostWrite /\ UNCHANGED stage /\ busy' = NoChannel
  <2>1. CASE HostRefusesRecovery(c)
    BY <2>1 DEF HostRefusesRecovery
  <2>2. CASE HostRefusesOpen(c) \/ HostRefusesRequest(c)
    <3>1. busy = NoChannel
      BY <2>2 DEF HostRefusesOpen, HostRefusesRequest, Executing
    <3> QED
      BY <2>2, <3>1 DEF HostRefusesOpen, HostRefusesRequest, hostVars, NoHostWrite
  <2> QED BY <2>1, <2>2
<1> QED BY <1>1, <1>2, RefusalFacts

LEMMA BeginServe ==
    ASSUME TypeOK, HostOwned, NEW c \in Channels, HostBegins(c)
    PROVE  ServeFacts(c)
<1>1. /\ sent[c].op = "BEGIN" /\ sent[c] \in Rpcs /\ sent[c] # None /\ c \in registered
      /\ busy = NoChannel
  BY ExecutingFacts DEF HostBegins
<1>r. sent[c].id \in Requests /\ sent[c].session \in Attempts
  BY <1>1, RpcForms DEF AttemptOps
<1>2. NoHostWrite /\ busy' = NoChannel
  BY <1>1 DEF HostBegins
<1>3. StoresWhatWasAsked(c) /\ EntersScopes(c)
  BY <1>2 DEF NoHostWrite, StoresWhatWasAsked, EntersScopes
<1> DEFINE Rest == /\ KeepsStages(c) /\ RepliesTruly(c) /\ TakesScopes(c)
                   /\ UNCHANGED <<channelVars, playerVars, flowVars>>
<1>4. ASSUME sent[c].id \in submitted PROVE Rest
  <2>1. Respond(c, Reply("ACK", log[sent[c].id])) /\ UNCHANGED <<stage, fenceVars>>
    BY <1>4 DEF HostBegins
  <2>2. log[sent[c].id] \in Histories /\ log' = log /\ submitted' = submitted
    BY <1>r, <1>2 DEF TypeOK, NoHostWrite
  <2>3. TrueReply(c, Reply("ACK", log[sent[c].id]))
    BY <1>1, <1>4, <2>2, ReplyTyped, ExtendsItself DEF TrueReply, AttemptOps
  <2>4. RepliesTruly(c) /\ UNCHANGED <<playerVars, flowVars>>
    BY <2>1, <2>2, <2>3, RespondFacts, ReplyTyped
  <2>5. KeepsStages(c)
    BY <2>1, StagesKept
  <2> QED BY <2>1, <2>4, <2>5 DEF TakesScopes, fenceVars, scopeVars
<1>5. ASSUME sent[c].id \notin submitted PROVE Rest
  <2> DEFINE s == [request |-> sent[c].id, received |-> 0, session |-> sent[c].session]
  <2>1. /\ TrackTransfer(c, Session(sent[c].session), "STAGE")
        /\ stage' = [stage EXCEPT ![c] = s]
        /\ Respond(c, Reply("READY", <<>>))
    BY <1>5 DEF HostBegins
  <2>2. UNCHANGED <<channelVars, scopeVars>>
    BY <2>1 DEF TrackTransfer
  <2>3. s \in StageRecords /\ s.request = sent[c].id
    BY <1>r DEF StageRecords
  <2>4. stage \in [Channels -> StageRecords \cup {None}]
    BY DEF TypeOK, StageRecords
  <2> HIDE DEF s
  <2>5. stage' \in [Channels -> StageRecords \cup {None}] /\ stage'[c] = s
        /\ \A d \in Channels \ {c} : stage'[d] = stage[d]
    BY <2>1, <2>3, <2>4
  <2>6. sent'[c] = None
    BY <2>1 DEF Respond, TypeOK
  <2>7. KeepsStages(c)
    BY <1>1, <2>3, <2>5, <2>6 DEF KeepsStages
  <2>8. TrueReply(c, Reply("READY", <<>>))
    BY <2>3, <2>5, ReplyTyped DEF TrueReply
  <2>9. RepliesTruly(c) /\ UNCHANGED <<playerVars, flowVars>>
    BY <2>1, <2>8, RespondFacts, ReplyTyped
  <2> QED BY <2>2, <2>7, <2>9 DEF TakesScopes, scopeVars
<1> HIDE DEF Rest
<1>6. Rest
  BY <1>4, <1>5
<1> QED BY <1>1, <1>3, <1>6 DEF Rest, ServeFacts

LEMMA ChunkServe ==
    ASSUME TypeOK, HostOwned, NEW c \in Channels, HostTakesChunk(c)
    PROVE  ServeFacts(c)
<1>1. /\ sent[c].op = "CHUNK" /\ sent[c] \in Rpcs /\ sent[c] # None /\ c \in registered
      /\ busy = NoChannel /\ Owned(c) /\ stage[c] # None
  BY ExecutingFacts DEF HostTakesChunk, StageUsable
<1>2. /\ NoHostWrite /\ busy' = NoChannel /\ UNCHANGED fenceVars
      /\ stage' = [stage EXCEPT ![c].received = 1]
      /\ Respond(c, Reply("CHUNK_OK", <<>>))
  BY <1>1 DEF HostTakesChunk
<1>3. StoresWhatWasAsked(c) /\ EntersScopes(c)
  BY <1>2 DEF NoHostWrite, StoresWhatWasAsked, EntersScopes
<1>4. stage \in [Channels -> StageRecords \cup {None}]
  BY DEF TypeOK, StageRecords
<1>5. /\ stage' \in [Channels -> StageRecords \cup {None}]
      /\ stage'[c].request = stage[c].request
      /\ \A d \in Channels \ {c} : stage'[d] = stage[d]
  <2>1. stage[c] \in StageRecords
    BY <1>1, <1>4
  <2>2. [stage[c] EXCEPT !.received = 1] \in StageRecords
        /\ [stage[c] EXCEPT !.received = 1].request = stage[c].request
    BY <2>1 DEF StageRecords
  <2>3. stage' = [stage EXCEPT ![c] = [stage[c] EXCEPT !.received = 1]]
    BY <1>2
  <2> QED BY <1>4, <2>2, <2>3
<1>6. KeepsStages(c)
  BY <1>1, <1>5 DEF KeepsStages
<1>7. stage[c].request = sent[c].id
  BY <1>1 DEF Owned, StageOps
<1>8. TrueReply(c, Reply("CHUNK_OK", <<>>))
  BY <1>5, <1>7, ReplyTyped DEF TrueReply
<1>9. RepliesTruly(c) /\ UNCHANGED <<playerVars, flowVars>>
  BY <1>2, <1>8, RespondFacts, ReplyTyped
<1> QED
  BY <1>1, <1>2, <1>3, <1>6, <1>9
  DEF ServeFacts, TakesScopes, fenceVars, scopeVars

LEMMA CommitServe ==
    ASSUME TypeOK, HostOwned, NEW c \in Channels, HostCommits(c)
    PROVE  ServeFacts(c)
<1>1. /\ sent[c].op = "COMMIT" /\ sent[c] \in Rpcs /\ sent[c] # None /\ c \in registered
      /\ busy = NoChannel /\ Owned(c) /\ stage[c] # None
  BY ExecutingFacts DEF HostCommits, StageUsable
<1>r. sent[c].id \in Requests /\ stage[c].request = sent[c].id
  BY <1>1, RpcForms DEF AttemptOps, Owned, StageOps
<1>2. /\ UNCHANGED <<opened, log, campaign>> /\ busy' = NoChannel
      /\ UNCHANGED <<channelVars, scopeVars>>
      /\ stage' = [stage EXCEPT ![c] = None]
  BY <1>1 DEF HostCommits, ReleaseTransfer
<1>3. KeepsStages(c)
  BY <1>2, StagesKept
<1>4. ASSUME MayCommit(c)
      PROVE  /\ StoresWhatWasAsked(c) /\ RepliesTruly(c)
             /\ UNCHANGED <<playerVars, flowVars>>
  <2>1. /\ submitted' = submitted \cup {stage[c].request}
        /\ Respond(c, Reply("ACK", log[stage[c].request]))
    BY <1>4 DEF HostCommits
  <2>2. log[sent[c].id] \in Histories
    BY <1>r DEF TypeOK
  <2>3. TrueReply(c, Reply("ACK", log[stage[c].request]))
    BY <1>1, <1>2, <1>r, <2>1, <2>2, ReplyTyped, ExtendsItself DEF TrueReply, AttemptOps
  <2>4. RepliesTruly(c) /\ UNCHANGED <<playerVars, flowVars>>
    BY <1>r, <2>1, <2>2, <2>3, RespondFacts, ReplyTyped
  <2>5. stage[c].request \in submitted \/ SessionIsFree
    BY <1>4 DEF MayCommit
  <2>6. StoresWhatWasAsked(c)
    BY <1>1, <1>2, <2>1, <2>5 DEF StoresWhatWasAsked
  <2> QED BY <2>4, <2>6
<1>5. ASSUME ~MayCommit(c)
      PROVE  /\ StoresWhatWasAsked(c) /\ RepliesTruly(c)
             /\ UNCHANGED <<playerVars, flowVars>>
  <2>1. submitted' = submitted /\ Respond(c, Reply("REFUSED", <<>>))
    BY <1>5 DEF HostCommits
  <2>2. TrueReply(c, Reply("REFUSED", <<>>))
    BY ReplyTyped DEF TrueReply
  <2>3. RepliesTruly(c) /\ UNCHANGED <<playerVars, flowVars>>
    BY <2>1, <2>2, RespondFacts, ReplyTyped
  <2> QED BY <1>2, <2>1, <2>3 DEF StoresWhatWasAsked
<1>6. /\ StoresWhatWasAsked(c) /\ RepliesTruly(c)
      /\ UNCHANGED <<playerVars, flowVars>>
  BY <1>4, <1>5
<1>7. EntersScopes(c) /\ TakesScopes(c)
  BY <1>2 DEF EntersScopes, TakesScopes, scopeVars
<1> QED BY <1>1, <1>2, <1>3, <1>6, <1>7 DEF ServeFacts

LEMMA CancelServe ==
    ASSUME TypeOK, HostOwned, NEW c \in Channels, HostCancels(c)
    PROVE  ServeFacts(c)
<1>1. /\ sent[c].op = "CANCEL" /\ sent[c] \in Rpcs /\ sent[c] # None /\ c \in registered
      /\ busy = NoChannel /\ Owned(c)
  BY ExecutingFacts DEF HostCancels
<1>r. sent[c].id \in Requests /\ sent[c].id \in submitted
  BY <1>1, RpcForms DEF AttemptOps, Owned
<1>2. /\ log[sent[c].id] \in {<<>>, <<"CANCELLED">>}
      /\ log' = [log EXCEPT ![sent[c].id] = <<"CANCELLED">>]
      /\ Respond(c, Reply("ACK", <<"CANCELLED">>))
      /\ UNCHANGED <<opened, submitted, campaign, stage, fenceVars>>
      /\ busy' = NoChannel
  BY <1>1 DEF HostCancels
<1>3. StoresWhatWasAsked(c)
  BY <1>1, <1>2 DEF StoresWhatWasAsked
<1>4. KeepsStages(c)
  BY <1>2, StagesKept
<1>5. log'[sent[c].id] = <<"CANCELLED">>
  BY <1>2, <1>r DEF TypeOK
<1>6. TrueReply(c, Reply("ACK", <<"CANCELLED">>))
  BY <1>1, <1>2, <1>r, <1>5, ReplyTyped, ExtendsItself DEF TrueReply, AttemptOps
<1>7. RepliesTruly(c) /\ UNCHANGED <<playerVars, flowVars>>
  BY <1>2, <1>6, RespondFacts, ReplyTyped
<1>8. EntersScopes(c) /\ TakesScopes(c)
  BY <1>2 DEF EntersScopes, TakesScopes, fenceVars, scopeVars
<1> QED BY <1>1, <1>2, <1>3, <1>4, <1>7, <1>8 DEF ServeFacts, fenceVars

(* Whatever it executes, the host keeps to that.                           *)
LEMMA HostServesFacts ==
    ASSUME TypeOK, HostOwned, BusyInside, NEW c \in Channels, HostServes(c)
    PROVE  ServeFacts(c)
  BY OpensServe, SessionServe, AttemptServe, RequestServe, RefusalsServe, BeginServe,
     ChunkServe, CommitServe, CancelServe
  DEF HostServes

-----------------------------------------------------------------------------
(***************************************************************************)
(* What such a step keeps.                                                 *)
(***************************************************************************)

\* The host's stored state only grows, a closed request stays closed, and one is
\* cancelled only if its player asked for that and has not been told otherwise.
HostGrows ==
    /\ opened \subseteq opened' /\ submitted \subseteq submitted'
    /\ \A r \in Requests :
        /\ log'[r] \in Histories /\ Extends(log'[r], log[r])
        /\ log'[r] # log[r] => r \in submitted
        /\ Status(log[r]) \in Closing => Status(log'[r]) \in Closing
        /\ log'[r] # log[r] /\ log'[r] = <<"CANCELLED">>
           => outbox[CANCEL(r)] \in {"PENDING", "ACK"}

LEMMA CancelledByOwner ==
    ASSUME BaseInv, NEW r \in Requests,
           outbox[CANCEL(r)] # "NONE", log[r] \in {<<>>, <<"CANCELLED">>}
    PROVE  outbox[CANCEL(r)] \in {"PENDING", "ACK"}
<1>1. outbox[CANCEL(r)] # "ABSENT"
  BY DEF BaseInv, OutboxKinds
<1>2. outbox[CANCEL(r)] # "SETTLED"
  <2>1. SUFFICES ASSUME outbox[CANCEL(r)] = "SETTLED" PROVE FALSE
    OBVIOUS
  <2>2. view[r] # <<>> /\ log[r] # <<"CANCELLED">> /\ Extends(log[r], view[r])
    BY <2>1 DEF BaseInv, PlayerKnows
  <2>3. view[r] \in Histories /\ log[r] = <<>>
    BY <2>2 DEF BaseInv, TypeOK
  <2> QED BY <2>2, <2>3, ExtendsTable, HistoryValues
<1>3. outbox[CANCEL(r)] \in {"NONE", "PENDING", "ACK", "ABSENT", "SETTLED"}
  BY CommandForms DEF BaseInv, TypeOK
<1> QED BY <1>1, <1>2, <1>3

LEMMA ServeGrows ==
    ASSUME BaseInv, NEW c \in Channels, ServeFacts(c)
    PROVE  HostGrows
<1>1. opened \subseteq opened' /\ submitted \subseteq submitted'
  BY DEF ServeFacts, StoresWhatWasAsked
<1>2. ASSUME NEW r \in Requests
      PROVE  /\ log'[r] \in Histories /\ Extends(log'[r], log[r])
             /\ log'[r] # log[r] => r \in submitted
             /\ Status(log[r]) \in Closing => Status(log'[r]) \in Closing
             /\ log'[r] # log[r] /\ log'[r] = <<"CANCELLED">>
                => outbox[CANCEL(r)] \in {"PENDING", "ACK"}
  <2>1. log \in [Requests -> Histories]
    BY DEF BaseInv, TypeOK
  <2>2. CASE log'[r] = log[r]
    BY <2>1, <2>2, ExtendsItself
  <2>3. CASE log'[r] # log[r]
    <3>1. /\ sent[c].op = "CANCEL"
          /\ log[sent[c].id] \in {<<>>, <<"CANCELLED">>}
          /\ log' = [log EXCEPT ![sent[c].id] = <<"CANCELLED">>]
      BY <2>3 DEF ServeFacts, StoresWhatWasAsked
    <3>2. r = sent[c].id /\ log'[r] = <<"CANCELLED">>
      BY <2>1, <2>3, <3>1
    <3>3. sent[c] \in Rpcs /\ sent[c] # None
      BY RpcIsNotNone DEF ServeFacts
    <3>4. r \in submitted /\ outbox[CANCEL(r)] # "NONE"
      BY <3>1, <3>2, <3>3 DEF BaseInv, HostOwned, Owned
    <3>5. outbox[CANCEL(r)] \in {"PENDING", "ACK"}
      BY <3>1, <3>2, <3>4, CancelledByOwner
    <3>6. Extends(<<"CANCELLED">>, log[r]) /\ Status(<<"CANCELLED">>) \in Closing
      BY <3>1, <3>2, HistoryValues, ExtendsTable, StatusTable DEF Closing
    <3> QED BY <3>2, <3>4, <3>5, <3>6, HistoryValues
  <2> QED BY <2>2, <2>3
<1> QED BY <1>1, <1>2 DEF HostGrows

LEMMA ServeKeepsType ==
    ASSUME BaseInv, NEW c \in Channels, ServeFacts(c), FenceKept
    PROVE  TypeOK'
<1>1. FenceTypeOK'
  BY DEF FenceKept, FenceInv
<1>2. opened' \subseteq Attempts
  <2>1. sent[c].op = "OPEN" => sent[c].id \in Attempts
    BY RpcForms DEF ServeFacts, AttemptOps
  <2> QED BY <2>1 DEF BaseInv, TypeOK, ServeFacts, StoresWhatWasAsked
<1>3. submitted' \subseteq Requests /\ campaign' = campaign
  <2>1. stage[c] # None => stage[c].request \in Requests
    BY DEF BaseInv, TypeOK
  <2> QED BY <2>1 DEF BaseInv, TypeOK, ServeFacts, StoresWhatWasAsked
<1>4. log' \in [Requests -> Histories]
  <2>1. log \in [Requests -> Histories] /\ <<"CANCELLED">> \in Histories
    BY HistoryValues DEF BaseInv, TypeOK
  <2> QED BY <2>1 DEF ServeFacts, StoresWhatWasAsked
<1>5. stage' \in [Channels -> StageRecords \cup {None}]
  BY DEF ServeFacts, KeepsStages
<1>6. busy' \in Channels \cup {NoChannel}
  BY DEF ServeFacts, EntersScopes
<1>7. /\ link' = link
      /\ sent' \in [Channels -> Rpcs \cup {None}]
      /\ answer' \in [Channels -> Replies \cup {None}]
  <2>1. /\ sent \in [Channels -> Rpcs \cup {None}]
        /\ answer \in [Channels -> Replies \cup {None}]
    BY DEF BaseInv, TypeOK
  <2> QED BY <2>1 DEF ServeFacts, RepliesTruly, Replied, wireVars
<1>8. UNCHANGED <<outbox, proof, session, request, view, chan, lastChan, flow>>
  BY DEF ServeFacts, playerVars, flowVars
<1> QED
  BY <1>1, <1>2, <1>3, <1>4, <1>5, <1>6, <1>7, <1>8
  DEF BaseInv, TypeOK, StageRecords

\* What was on its way and is still on its way is the same.
LEMMA ServeWire ==
    ASSUME BaseInv, NEW c \in Channels, ServeFacts(c)
    PROVE  /\ link' = link
           /\ \A d \in Channels : sent'[d] # None => sent'[d] = sent[d]
           /\ \A d \in Channels : answer'[d] # None =>
                \/ answer'[d] = answer[d] /\ (sent'[d] # None \/ d # c)
                \/ d = c /\ c = chan /\ TrueReply(c, answer'[c]) /\ sent'[c] = None
<1>1. /\ sent \in [Channels -> Rpcs \cup {None}] /\ sent[c] \in Rpcs
      /\ answer \in [Channels -> Replies \cup {None}]
  BY DEF BaseInv, TypeOK, ServeFacts
<1>2. CASE UNCHANGED wireVars
  BY <1>1, <1>2, RpcIsNotNone DEF wireVars
<1>3. ASSUME UNCHANGED link, NEW g \in Replies, Replied(c, g), TrueReply(c, g)
      PROVE  /\ link' = link
             /\ \A d \in Channels : sent'[d] # None => sent'[d] = sent[d]
             /\ \A d \in Channels : answer'[d] # None =>
                  \/ answer'[d] = answer[d] /\ (sent'[d] # None \/ d # c)
                  \/ d = c /\ c = chan /\ TrueReply(c, answer'[c]) /\ sent'[c] = None
  <2>1. sent'[c] = None /\ \A d \in Channels \ {c} : sent'[d] = sent[d]
    BY <1>1, <1>3 DEF Replied
  <2>2. /\ answer'[c] = IF c = chan THEN g ELSE None
        /\ \A d \in Channels \ {c} : answer'[d] = answer[d]
    BY <1>1, <1>3 DEF Replied
  <2> QED BY <1>3, <2>1, <2>2
<1> QED BY <1>2, <1>3 DEF ServeFacts, RepliesTruly

LEMMA ServeKeepsChannels ==
    ASSUME BaseInv, NEW c \in Channels, ServeFacts(c)
    PROVE  ChannelsInOrder'
<1>1. UNCHANGED <<registered, down, chan, lastChan>> /\ c \in registered
  BY DEF ServeFacts, channelVars, flowVars
<1>2. link[c] = "OPEN"
  BY <1>1 DEF BaseInv, ChannelsInOrder
<1> QED BY <1>1, <1>2, ServeWire DEF BaseInv, ChannelsInOrder

LEMMA ServeKeepsOwned ==
    ASSUME BaseInv, NEW c \in Channels, ServeFacts(c)
    PROVE  HostOwned'
<1>1. UNCHANGED <<outbox, session>> /\ sent[c] \in Rpcs /\ sent[c] # None
  BY RpcIsNotNone DEF ServeFacts, playerVars
<1>2. Owned(c)
  BY <1>1 DEF BaseInv, HostOwned
<1>3. HostGrows
  BY ServeGrows
<1>4. \A a \in opened' : outbox'[OPEN(a)] # "NONE"
  BY <1>1, <1>2 DEF BaseInv, HostOwned, Owned, ServeFacts, StoresWhatWasAsked, AttemptOps
<1>5. \A r \in submitted' : outbox'[SUBMIT(r)] # "NONE"
  BY <1>1 DEF BaseInv, HostOwned, ServeFacts, StoresWhatWasAsked
<1>6. \A r \in Requests :
        /\ log'[r] # <<>> => r \in submitted'
        /\ log'[r] = <<"CANCELLED">> => outbox'[CANCEL(r)] \in {"PENDING", "ACK"}
  BY <1>1, <1>3 DEF BaseInv, HostOwned, HostGrows
<1>7. \A d \in Channels : stage'[d] # None => outbox'[SUBMIT(stage'[d].request)] # "NONE"
  BY <1>1, <1>2 DEF BaseInv, HostOwned, Owned, ServeFacts, KeepsStages, SubmitOps
<1>8. ASSUME NEW d \in Channels, sent'[d] # None
      PROVE  Owned(d)'
  <2>1. sent'[d] = sent[d] /\ Owned(d)
    BY <1>8, ServeWire DEF BaseInv, HostOwned
  <2>2. stage'[d] = None \/ (stage[d] # None /\ stage'[d].request = stage[d].request)
    BY <1>8 DEF ServeFacts, KeepsStages
  <2> QED BY <1>1, <1>3, <2>1, <2>2 DEF Owned, HostGrows
<1>9. \A a \in Attempts : Seat(Attempt(a)) \in table' => outbox'[OPEN(a)] # "NONE"
  <2>1. TakesScopes(c)
    BY DEF ServeFacts
  <2>2. CASE table' = table \/ \E a \in Attempts : table' = table \cup {Seat(Session(a))}
    BY <1>1, <2>2, SeatsDiffer DEF BaseInv, HostOwned
  <2>3. CASE sent[c].op \in AttemptOps /\ table' = table \cup {Seat(Attempt(sent[c].id))}
    BY <1>1, <1>2, <2>3, SeatsDiffer DEF BaseInv, HostOwned, Owned
  <2> QED BY <2>1, <2>2, <2>3 DEF TakesScopes
<1> QED BY <1>4, <1>5, <1>6, <1>7, <1>8, <1>9 DEF HostOwned

LEMMA ServeKeepsBusy ==
    ASSUME BaseInv, NEW c \in Channels, ServeFacts(c)
    PROVE  BusyInside'
<1>1. UNCHANGED registered /\ c \in registered /\ sent[c] \in Rpcs /\ sent[c] # None
  BY RpcIsNotNone DEF ServeFacts, channelVars
<1> QED BY <1>1 DEF ServeFacts, EntersScopes, BusyInside, wireVars

(* A longer history on the host still extends what the player knows.       *)
LEMMA GrowthKeepsKnowledge ==
    ASSUME BaseInv, HostGrows, UNCHANGED <<playerVars, flowVars>>
    PROVE  /\ OutboxKinds' /\ PlayerKnows' /\ FlowFits'
           /\ \A r \in Requests, h \in Histories :
                Extends(log[r], h) => Extends(log'[r], h)
<1>1. UNCHANGED <<outbox, proof, session, request, view, chan, lastChan, flow>>
  BY DEF playerVars, flowVars
<1>2. /\ log \in [Requests -> Histories] /\ view \in [Requests -> Histories]
      /\ flow.log \in Histories /\ request \in Requests \cup {None}
  BY DEF BaseInv, TypeOK
<1>3. \A r \in Requests, h \in Histories : Extends(log[r], h) => Extends(log'[r], h)
  BY <1>2, ExtendsIsTransitive DEF HostGrows
<1>4. OutboxKinds'
  BY <1>1 DEF BaseInv, OutboxKinds, Pending
<1>5. PlayerKnows'
  <2>1. \A a \in Attempts :
        /\ outbox'[OPEN(a)] = "ACK" <=> session' = a
        /\ outbox'[OPEN(a)] = "ACK" => a \in opened'
        /\ outbox'[OPEN(a)] = "PENDING" => session' = None
    BY <1>1 DEF BaseInv, PlayerKnows, HostGrows
  <2>2. request' # None => outbox'[SUBMIT(request')] = "ACK"
    BY <1>1 DEF BaseInv, PlayerKnows
  <2>3. ASSUME NEW r \in Requests
        PROVE  /\ outbox'[SUBMIT(r)] # "NONE" => session' # None
               /\ outbox'[SUBMIT(r)] = "ACK" => r \in submitted'
               /\ outbox'[SUBMIT(r)] # "ACK" => view'[r] = <<>>
               /\ outbox'[CANCEL(r)] # "NONE" => outbox'[SUBMIT(r)] = "ACK"
               /\ outbox'[CANCEL(r)] = "PENDING" => request' = r
    BY <1>1 DEF BaseInv, PlayerKnows, HostGrows
  <2>4. ASSUME NEW r \in Requests
        PROVE  /\ outbox'[CANCEL(r)] = "ACK" => log'[r] = <<"CANCELLED">>
               /\ outbox'[CANCEL(r)] = "SETTLED" =>
                    view'[r] # <<>> /\ log'[r] # <<"CANCELLED">>
    <3>1. Extends(log'[r], log[r]) /\ log'[r] \in Histories /\ log[r] \in Histories
      BY <1>2 DEF HostGrows
    <3>2. log[r] = <<"CANCELLED">> => log'[r] = <<"CANCELLED">>
      BY <3>1, ExtendsTable, HistoryValues
    <3>3. /\ outbox[CANCEL(r)] = "ACK" => log[r] = <<"CANCELLED">>
          /\ outbox[CANCEL(r)] = "SETTLED" => view[r] # <<>> /\ log[r] # <<"CANCELLED">>
      BY DEF BaseInv, PlayerKnows
    <3> QED BY <1>1, <3>2, <3>3 DEF HostGrows
  <2>5. \A r \in Requests : Extends(log'[r], view'[r])
    BY <1>1, <1>2, <1>3 DEF BaseInv, PlayerKnows
  <2> QED BY <2>1, <2>2, <2>3, <2>4, <2>5 DEF PlayerKnows
<1>6. FlowFits'
  <2>1. flow.step = "APPLY" => request \in Requests /\ Extends(log[request], flow.log)
    BY <1>2 DEF BaseInv, FlowFits
  <2>2. flow.step = "APPLY" => Extends(log'[request], flow.log)
    BY <1>2, <1>3, <2>1
  <2> QED BY <1>1, <2>2 DEF BaseInv, FlowFits, Pending
<1> QED BY <1>3, <1>4, <1>5, <1>6

LEMMA ServeKeepsSent ==
    ASSUME BaseInv, NEW c \in Channels, ServeFacts(c)
    PROVE  SentFits'
<1>1. UNCHANGED <<session, request, chan, flow>>
  BY DEF ServeFacts, playerVars, flowVars
<1> SUFFICES ASSUME (chan # NoChannel /\ sent[chan] # None)'
             PROVE  SentFits'
  BY DEF SentFits
<1>2. chan \in Channels /\ chan # NoChannel /\ sent'[chan] # None
  BY <1>1 DEF BaseInv, TypeOK
<1>3. sent'[chan] = sent[chan] /\ sent[chan] # None
  BY <1>2, ServeWire
<1>4. answer[chan] = None
  BY <1>2, <1>3 DEF BaseInv, SentFits
<1>5. answer'[chan] = None
  BY <1>2, <1>4, ServeWire
<1> QED
  BY <1>1, <1>3, <1>5 DEF BaseInv, SentFits, ReconcileRpc, DeliverRpc, RecoverRpc

LEMMA ServeKeepsOneActive ==
    ASSUME BaseInv, NEW c \in Channels, ServeFacts(c)
    PROVE  OneActiveRequest'
<1>1. HostGrows
  BY ServeGrows
<1>2. submitted' \subseteq Requests /\ submitted \subseteq Requests
  <2>1. stage[c] # None => stage[c].request \in Requests
    BY DEF BaseInv, TypeOK
  <2> QED BY <2>1 DEF BaseInv, TypeOK, ServeFacts, StoresWhatWasAsked
<1> SUFFICES ASSUME NEW q \in submitted', NEW r \in submitted',
                    Status(log'[q]) \notin Closing, Status(log'[r]) \notin Closing
             PROVE  q = r
  BY DEF OneActiveRequest
<1>3. \A s \in submitted : Status(log'[s]) \notin Closing => Status(log[s]) \notin Closing
  BY <1>1, <1>2 DEF HostGrows
<1>4. CASE q \in submitted /\ r \in submitted
  BY <1>3, <1>4 DEF BaseInv, OneActiveRequest
<1>5. CASE q \notin submitted \/ r \notin submitted
  <2>1. /\ submitted' = submitted \cup {stage[c].request}
        /\ stage[c].request \notin submitted
        /\ SessionIsFree
    BY <1>5 DEF ServeFacts, StoresWhatWasAsked
  <2>2. \A s \in submitted : Status(log[s]) \in Closing
    BY <2>1 DEF SessionIsFree, Active
  <2> QED BY <1>3, <2>1, <2>2
<1> QED BY <1>4, <1>5

(* The answer the host has just given fits what the player waits for.      *)
LEMMA NewAnswerFits ==
    ASSUME BaseInv, NEW c \in Channels, ServeFacts(c),
           c = chan, TrueReply(c, answer'[c])
    PROVE  /\ flow.step \notin {"IDLE", "APPLY"}
           /\ answer'[chan].kind = "ACK" =>
                IF Subject = None THEN answer'[chan].log = <<>>
                ELSE Subject \in submitted' /\ Extends(log'[Subject], answer'[chan].log)
           /\ answer'[chan].kind = "ACK" /\ flow.step # "RECONCILE"
              /\ flow.cmd[1] = "OPEN"
              => flow.cmd[2] \in opened'
           /\ answer'[chan].kind \in {"READY", "CHUNK_OK"} /\ flow.step # "RECONCILE"
              /\ flow.cmd[1] = "SUBMIT"
              => stage'[chan] = None \/ stage'[chan].request = flow.cmd[2]
<1>1. /\ sent[chan] \in Rpcs /\ sent[chan] # None /\ chan # NoChannel
  BY RpcIsNotNone, FenceAssumption DEF ServeFacts
<1>2. /\ flow.step \notin {"IDLE", "APPLY"}
      /\ flow.step = "RECONCILE" => sent[chan] = ReconcileRpc
      /\ flow.step \in {"DELIVER", "REDELIVER"} =>
            IF flow.cmd[1] = "SUBMIT"
            THEN sent[chan].op \in SubmitOps /\ sent[chan].id = flow.cmd[2]
            ELSE sent[chan] = DeliverRpc(flow.cmd)
      /\ flow.step \in AskingSteps => sent[chan] = RecoverRpc(flow.cmd)
  BY <1>1 DEF BaseInv, SentFits
<1>3. flow.step \in Steps /\ flow.cmd \in Commands \cup {None}
      /\ (flow.step # "IDLE" /\ flow.step # "RECONCILE" => flow.cmd \in Commands)
  BY DEF BaseInv, TypeOK, FlowFits
<1> DEFINE g == answer'[chan]
<1>4. /\ g.kind = "ACK" =>
            IF sent[chan].op \in AttemptOps
            THEN g.log = <<>> /\ sent[chan].id \in opened'
            ELSE sent[chan].id \in submitted' /\ Extends(log'[sent[chan].id], g.log)
      /\ g.kind \in {"READY", "CHUNK_OK"} =>
            stage'[chan] = None \/ stage'[chan].request = sent[chan].id
  BY DEF TrueReply
<1>5. CASE flow.step = "RECONCILE"
  <2>1. sent[chan] = ReconcileRpc /\ Subject = request
    BY <1>2, <1>5 DEF Subject
  <2>2. CASE request = None
    <3>1. sent[chan].op = "RECOVER_OPEN"
      BY <2>1, <2>2 DEF ReconcileRpc, Rpc
    <3> QED BY <1>2, <1>4, <1>5, <2>1, <2>2, <3>1 DEF AttemptOps
  <2>3. CASE request # None
    <3>1. sent[chan].op = "RECOVER" /\ sent[chan].id = request
      BY <2>1, <2>3 DEF ReconcileRpc, Rpc
    <3> QED BY <1>2, <1>4, <1>5, <2>1, <2>3, <3>1 DEF AttemptOps
  <2> QED BY <2>2, <2>3
<1>6. CASE flow.step # "RECONCILE"
  <2>1. /\ flow.cmd \in Commands
        /\ Subject = IF flow.cmd[1] = "OPEN" THEN None ELSE flow.cmd[2]
    BY <1>2, <1>3, <1>6 DEF Subject
  <2>2. CASE flow.cmd[1] = "OPEN"
    <3>1. flow.step \in {"DELIVER", "RECOVER"}
      BY <1>2, <1>6, <2>1, <2>2, CommandIsNotNone DEF BaseInv, FlowFits, StepsOf
    <3>2. sent[chan].op \in AttemptOps /\ sent[chan].id = flow.cmd[2]
      BY <1>2, <2>2, <3>1 DEF DeliverRpc, RecoverRpc, Rpc, AskingSteps, AttemptOps
    <3> QED BY <1>2, <1>4, <1>6, <2>1, <2>2, <3>2
  <2>3. CASE flow.cmd[1] # "OPEN"
    <3>1. flow.cmd[1] \in {"SUBMIT", "CANCEL"} /\ flow.cmd[2] \in Requests
      BY <2>1, <2>3, CommandForms
    <3>2. flow.step \in {"DELIVER", "REDELIVER"} \cup AskingSteps
      BY <1>2, <1>3, <1>6 DEF Steps, AskingSteps
    <3>3. sent[chan].op \notin AttemptOps /\ sent[chan].id = flow.cmd[2]
      <4>1. CASE flow.step \in AskingSteps
        BY <1>2, <2>3, <4>1 DEF RecoverRpc, Rpc, AttemptOps
      <4>2. CASE flow.step \in {"DELIVER", "REDELIVER"}
        BY <1>2, <2>3, <3>1, <4>2 DEF DeliverRpc, Rpc, AttemptOps, SubmitOps
      <4> QED BY <3>2, <4>1, <4>2
    <3> QED BY <1>2, <1>4, <1>6, <2>1, <2>3, <3>1, <3>3, NoneIsNoId
  <2> QED BY <2>2, <2>3
<1> QED BY <1>5, <1>6

\* What an answer on its way relies on, besides the answer itself.
AnswerGrounds ==
    /\ UNCHANGED <<session, request, chan, flow>>
    /\ opened \subseteq opened' /\ submitted \subseteq submitted'
    /\ \A r \in Requests, h \in Histories : Extends(log[r], h) => Extends(log'[r], h)
    /\ chan # NoChannel /\ stage'[chan] # None =>
            stage[chan] # None /\ stage'[chan].request = stage[chan].request

LEMMA OldAnswerFits ==
    ASSUME BaseInv, AnswerGrounds, chan # NoChannel => answer'[chan] = answer[chan]
    PROVE  AnswerFits'
<1> SUFFICES ASSUME (chan # NoChannel /\ answer[chan] # None)'
             PROVE  AnswerFits'
  BY DEF AnswerFits
<1>1. /\ chan \in Channels /\ chan # NoChannel /\ answer'[chan] = answer[chan]
      /\ UNCHANGED <<session, request, chan, flow>>
  BY DEF BaseInv, TypeOK, AnswerGrounds
<1>2. answer[chan] # None /\ answer[chan] \in Replies
  BY <1>1 DEF BaseInv, TypeOK
<1>3. Subject \in Requests \cup {None} \/ flow.step \in {"IDLE", "APPLY"}
  <2>1. flow.step = "RECONCILE" => Subject \in Requests \cup {None}
    BY DEF BaseInv, TypeOK, Subject
  <2>2. flow.step \notin {"IDLE", "RECONCILE"} => flow.cmd \in Commands
    BY DEF BaseInv, TypeOK, FlowFits
  <2>3. flow.cmd \in Commands /\ flow.step # "RECONCILE" => Subject \in Requests \cup {None}
    BY CommandForms DEF Subject
  <2> QED BY <2>1, <2>2, <2>3
<1>4. AnswerFits
  BY DEF BaseInv
<1>5. Subject' = Subject
  BY <1>1 DEF Subject
<1>6. answer[chan].log \in Histories
  BY <1>2 DEF Replies
<1>7. /\ flow.step \notin {"IDLE", "APPLY"}
      /\ answer[chan].kind = "ACK" =>
            IF Subject = None THEN answer[chan].log = <<>>
            ELSE Subject \in submitted /\ Extends(log[Subject], answer[chan].log)
      /\ answer[chan].kind = "ACK" /\ flow.step # "RECONCILE" /\ flow.cmd[1] = "OPEN"
            => flow.cmd[2] \in opened
      /\ answer[chan].kind \in {"READY", "CHUNK_OK"} /\ flow.step # "RECONCILE"
           /\ flow.cmd[1] = "SUBMIT"
            => stage[chan] = None \/ stage[chan].request = flow.cmd[2]
  BY <1>1, <1>2, <1>4 DEF AnswerFits
<1>8. answer[chan].kind = "ACK" =>
            IF Subject = None THEN answer[chan].log = <<>>
            ELSE Subject \in submitted' /\ Extends(log'[Subject], answer[chan].log)
  BY <1>3, <1>6, <1>7 DEF AnswerGrounds
<1>9. /\ flow.cmd[2] \in opened => flow.cmd[2] \in opened'
      /\ stage[chan] = None \/ stage[chan].request = flow.cmd[2]
         => stage'[chan] = None \/ stage'[chan].request = flow.cmd[2]
  BY <1>1 DEF AnswerGrounds
<1> QED BY <1>1, <1>5, <1>7, <1>8, <1>9 DEF AnswerFits

LEMMA ServeKeepsAnswer ==
    ASSUME BaseInv, NEW c \in Channels, ServeFacts(c)
    PROVE  AnswerFits'
<1>1. UNCHANGED <<session, request, chan, flow>>
  BY DEF ServeFacts, playerVars, flowVars
<1>2. Subject' = Subject
  BY <1>1 DEF Subject
<1> SUFFICES ASSUME (chan # NoChannel /\ answer[chan] # None)'
             PROVE  AnswerFits'
  BY DEF AnswerFits
<1>3. chan \in Channels /\ chan # NoChannel /\ answer'[chan] # None
  BY <1>1 DEF BaseInv, TypeOK
<1>4. CASE c = chan /\ TrueReply(c, answer'[c])
  BY <1>1, <1>2, <1>4, NewAnswerFits DEF AnswerFits
<1>5. CASE answer'[chan] = answer[chan] /\ (sent'[chan] # None \/ chan # c)
  <2>1. stage'[chan] # None =>
            stage[chan] # None /\ stage'[chan].request = stage[chan].request
    BY <1>3, <1>5 DEF ServeFacts, KeepsStages
  <2>2. HostGrows
    BY ServeGrows
  <2>3. \A r \in Requests, h \in Histories : Extends(log[r], h) => Extends(log'[r], h)
    BY <2>2, GrowthKeepsKnowledge DEF ServeFacts
  <2>4. AnswerGrounds
    BY <1>1, <2>1, <2>2, <2>3 DEF AnswerGrounds, HostGrows
  <2> QED BY <1>5, <2>4, OldAnswerFits
<1> QED BY <1>3, <1>4, <1>5, ServeWire

-----------------------------------------------------------------------------
(***************************************************************************)
(* Stages and transfers.                                                   *)
(***************************************************************************)

\* Stages are dropped together with their transfers.
StagesShrink ==
    /\ transfers' \subseteq transfers
    /\ \A d \in Channels : stage'[d] # None =>
        /\ stage[d] # None /\ stage'[d].session = stage[d].session
        /\ StageOf(d) \in transfers'
    /\ \A t \in transfers' : stage'[t.channel] # None

LEMMA ShrinkingKeepsTracked ==
    ASSUME TypeOK, StagesTracked, StagesShrink
    PROVE  StagesTracked'
<1>1. \A d \in Channels : stage'[d] # None => StageOf(d)' = StageOf(d)
  BY DEF StagesShrink, StageOf
<1>2. \A t \in transfers : t.channel \in Channels
  BY DEF TypeOK, FenceTypeOK, Transfer
<1>3. \A t \in transfers' : stage'[t.channel] # None /\ t = StageOf(t.channel)'
  BY <1>1, <1>2 DEF StagesShrink, StagesTracked
<1>4. Staging' \subseteq Staging
  BY DEF StagesShrink, Staging
<1>5. IsFiniteSet(Staging') /\ Cardinality(Staging') <= Cardinality(Staging)
  BY <1>4, FS_Subset DEF StagesTracked
<1>6. IsFiniteSet(Staging) /\ Cardinality(Staging) <= MaxTransfers
  BY DEF StagesTracked
<1>7. Cardinality(Staging) \in Nat /\ Cardinality(Staging') \in Nat /\ MaxTransfers \in Nat
  BY <1>5, <1>6, FS_CardinalityType, AdmissionAssumption
<1>8. Cardinality(Staging') <= MaxTransfers
  BY <1>5, <1>6, <1>7
<1> QED BY <1>1, <1>3, <1>5, <1>8 DEF StagesTracked, StagesShrink

LEMMA StandingStages ==
    ASSUME TypeOK, StagesTracked, UNCHANGED <<stage, transfers>>
    PROVE  StagesTracked'
<1>1. StagesShrink
  BY DEF StagesShrink, StagesTracked
<1> QED BY <1>1, ShrinkingKeepsTracked

\* A takeover drops the stages whose transfer it revokes.
LEMMA RevokedStages ==
    ASSUME TypeOK, StagesTracked, transfers' \subseteq transfers, Stages(transfers')
    PROVE  StagesTracked'
<1>1. \A t \in transfers : t.channel \in Channels /\ stage[t.channel] # None
                           /\ t = StageOf(t.channel)
  BY DEF TypeOK, FenceTypeOK, Transfer, StagesTracked
<1>2. \A d \in Channels :
        stage'[d] = IF \E t \in transfers' : t.channel = d THEN stage[d] ELSE None
  BY DEF Stages
<1>3. \A t \in transfers' : stage'[t.channel] # None
  BY <1>1, <1>2
<1>4. ASSUME NEW d \in Channels, stage'[d] # None
      PROVE  /\ stage[d] # None /\ stage'[d] = stage[d] /\ StageOf(d) \in transfers'
  BY <1>1, <1>2, <1>4
<1>5. StagesShrink
  BY <1>3, <1>4 DEF StagesShrink
<1> QED BY <1>5, ShrinkingKeepsTracked

LEMMA NewStageTracked ==
    ASSUME TypeOK, HostOwned, StagesTracked, NEW c \in Channels,
           sent[c].id \notin submitted, HostBegins(c)
    PROVE  StagesTracked'
<1>1. /\ sent[c].op = "BEGIN" /\ sent[c] \in Rpcs
  BY ExecutingFacts DEF HostBegins
<1>r. sent[c].id \in Requests /\ sent[c].session \in Attempts
  BY <1>1, RpcForms DEF AttemptOps
<1> DEFINE s == [request |-> sent[c].id, received |-> 0, session |-> sent[c].session]
           k == Key(c, Session(sent[c].session))
           u == [channel |-> c, key |-> k, id |-> "STAGE"]
<1>2. /\ stage[c] = None /\ Cardinality(Staging) < MaxTransfers
      /\ transfers' = transfers \cup {u}
      /\ stage' = [stage EXCEPT ![c] = s]
  BY DEF HostBegins, MayBegin, TrackTransfer
<1>3. s \in StageRecords /\ s.session = sent[c].session /\ s # None
  BY <1>r, StageIsNotNone DEF StageRecords
<1> HIDE DEF s
<1>4. stage'[c] = s /\ \A d \in Channels \ {c} : stage'[d] = stage[d]
  BY <1>2 DEF TypeOK
<1>5. StageOf(c)' = u
  BY <1>3, <1>4 DEF StageOf
<1>6. \A d \in Channels \ {c} : StageOf(d)' = StageOf(d)
  BY <1>4 DEF StageOf
<1>7. \A t \in transfers : t.channel \in Channels \ {c} /\ t = StageOf(t.channel)
                           /\ stage[t.channel] # None
  BY <1>2 DEF TypeOK, FenceTypeOK, Transfer, StagesTracked
<1>8. \A d \in Channels : stage'[d] # None => StageOf(d)' \in transfers'
  BY <1>2, <1>4, <1>5, <1>6 DEF StagesTracked
<1>9. \A t \in transfers' : stage'[t.channel] # None /\ t = StageOf(t.channel)'
  <2>1. u.channel = c
    OBVIOUS
  <2> HIDE DEF u
  <2> QED BY <1>2, <1>3, <1>4, <1>5, <1>6, <1>7, <2>1
<1>10. Staging' = Staging \cup {c} /\ c \notin Staging
  BY <1>2, <1>3, <1>4 DEF Staging
<1>11. /\ IsFiniteSet(Staging) /\ IsFiniteSet(Staging')
       /\ Cardinality(Staging') = Cardinality(Staging) + 1
       /\ Cardinality(Staging) \in Nat
  BY <1>10, FS_AddElement, FS_CardinalityType DEF StagesTracked
<1>12. Cardinality(Staging') <= MaxTransfers
  BY <1>2, <1>11, AdmissionAssumption
<1> QED BY <1>8, <1>9, <1>11, <1>12 DEF StagesTracked

LEMMA ServeKeepsTracked ==
    ASSUME BaseInv, NEW c \in Channels, HostServes(c)
    PROVE  StagesTracked'
<1>i. TypeOK /\ HostOwned /\ StagesTracked
  BY DEF BaseInv
<1>1. CASE HostOpens(c) \/ HostBindsSession(c)
  <2>1. UNCHANGED <<stage, transfers>>
    BY <1>1 DEF HostOpens, HostBindsSession, Bind
  <2> QED BY <1>i, <2>1, StandingStages
<1>2. CASE HostRefusesOpen(c) \/ HostRefusesRecovery(c) \/ HostRefusesRequest(c)
  <2>1. UNCHANGED <<stage, transfers>>
    BY <1>2 DEF HostRefusesOpen, HostRefusesRecovery, HostRefusesRequest, Refuse,
                fenceVars, hostVars
  <2> QED BY <1>i, <2>1, StandingStages
<1>3. CASE HostRecoversAttempt(c)
  <2>1. UNCHANGED stage
    BY <1>3 DEF HostRecoversAttempt
  <2>2. \A t \in transfers : t.channel \in Channels /\ t = StageOf(t.channel)
    BY <1>i DEF TypeOK, FenceTypeOK, Transfer, StagesTracked
  <2>3. \A t \in transfers : t.key # Key(c, Attempt(sent[c].id))
    BY <2>2, KeyIsSeat, SeatsDiffer DEF StageOf
  <2>4. transfers' = transfers
    BY <1>3, <2>3 DEF HostRecoversAttempt, Assign, Recover, fenceVars
  <2> QED BY <1>i, <2>1, <2>4, StandingStages
<1>4. CASE HostRecoversSession(c) \/ HostRecoversRequest(c)
  <2>1. Stages(transfers') /\ \E id : Assign(c, id)
    BY <1>4 DEF HostRecoversSession, HostRecoversRequest
  <2>2. transfers' \subseteq transfers
    BY <2>1 DEF Assign, Recover, fenceVars
  <2> QED BY <1>i, <2>1, <2>2, RevokedStages
<1>5. CASE HostBegins(c)
  <2>1. CASE sent[c].id \in submitted
    <3>1. UNCHANGED <<stage, transfers>>
      BY <1>5, <2>1 DEF HostBegins, fenceVars
    <3> QED BY <1>i, <3>1, StandingStages
  <2> QED BY <1>i, <1>5, <2>1, NewStageTracked
<1>6. CASE HostTakesChunk(c)
  <2>1. /\ stage' = [stage EXCEPT ![c].received = 1]
        /\ transfers' = transfers /\ stage[c] # None
    BY <1>6 DEF HostTakesChunk, StageUsable, fenceVars
  <2>2. stage \in [Channels -> StageRecords \cup {None}]
    BY <1>i DEF TypeOK, StageRecords
  <2>3. /\ [stage[c] EXCEPT !.received = 1] \in StageRecords
        /\ [stage[c] EXCEPT !.received = 1].session = stage[c].session
    BY <2>1, <2>2 DEF StageRecords
  <2>4. /\ stage' = [stage EXCEPT ![c] = [stage[c] EXCEPT !.received = 1]]
    BY <2>1
  <2>5. /\ stage'[c] # None /\ stage'[c].session = stage[c].session
        /\ \A d \in Channels \ {c} : stage'[d] = stage[d]
    BY <2>2, <2>3, <2>4, StageIsNotNone DEF StageRecords
  <2>6. \A t \in transfers : t.channel \in Channels /\ stage[t.channel] # None
    BY <1>i DEF TypeOK, FenceTypeOK, Transfer, StagesTracked
  <2>7. StagesShrink
    BY <1>i, <2>1, <2>5, <2>6 DEF StagesShrink, StagesTracked
  <2> QED BY <1>i, <2>7, ShrinkingKeepsTracked
<1>7. CASE HostCommits(c)
  <2>1. /\ stage' = [stage EXCEPT ![c] = None] /\ stage[c] # None
        /\ transfers' = transfers \ {StageOf(c)}
    BY <1>7 DEF HostCommits, StageUsable, ReleaseTransfer
  <2>2. stage'[c] = None /\ \A d \in Channels \ {c} : stage'[d] = stage[d]
    BY <1>i, <2>1 DEF TypeOK
  <2>3. \A t \in transfers : t.channel \in Channels /\ stage[t.channel] # None
                             /\ t = StageOf(t.channel)
    BY <1>i DEF TypeOK, FenceTypeOK, Transfer, StagesTracked
  <2>4. \A d \in Channels \ {c} : StageOf(d) # StageOf(c)
    <3>1. \A d : StageOf(d).channel = d
      BY DEF StageOf
    <3> QED BY <3>1
  <2>5. StagesShrink
    BY <1>i, <2>1, <2>2, <2>3, <2>4 DEF StagesShrink, StagesTracked
  <2> QED BY <1>i, <2>5, ShrinkingKeepsTracked
<1>8. CASE HostCancels(c)
  <2>1. UNCHANGED <<stage, transfers>>
    BY <1>8 DEF HostCancels, fenceVars
  <2> QED BY <1>i, <2>1, StandingStages
<1> QED BY <1>1, <1>2, <1>3, <1>4, <1>5, <1>6, <1>7, <1>8 DEF HostServes

(* A step of the host on behalf of a channel.                              *)
LEMMA ServeKeepsBase ==
    ASSUME BaseInv, FenceKept, NEW c \in Channels, HostServes(c)
    PROVE  BaseInv'
<1>1. ServeFacts(c)
  BY HostServesFacts DEF BaseInv
<1>2. HostGrows /\ UNCHANGED <<playerVars, flowVars>>
  BY <1>1, ServeGrows DEF ServeFacts
<1>3. TypeOK' /\ FenceInv' /\ ClosedIsEmpty' /\ AbsentIsBlank'
  BY <1>1, ServeKeepsType DEF FenceKept
<1>4. ChannelsInOrder' /\ StagesTracked' /\ HostOwned' /\ BusyInside'
  BY <1>1, ServeKeepsChannels, ServeKeepsTracked, ServeKeepsOwned, ServeKeepsBusy
<1>5. OutboxKinds' /\ PlayerKnows' /\ FlowFits'
  BY <1>2, GrowthKeepsKnowledge
<1>6. SentFits' /\ AnswerFits' /\ OneActiveRequest'
  BY <1>1, ServeKeepsSent, ServeKeepsAnswer, ServeKeepsOneActive
<1> QED BY <1>3, <1>4, <1>5, <1>6 DEF BaseInv

-----------------------------------------------------------------------------
(***************************************************************************)
(* The other steps of the host.                                            *)
(***************************************************************************)

\* A step that stores nothing and puts nothing on the wire.
QuietStep ==
    /\ UNCHANGED <<opened, submitted, log, answer, playerVars, flowVars>>
    /\ campaign' \in 1..MaxCampaign
    /\ link' \in [Channels -> {"NONE", "PROOF", "OPEN", "GONE"}]
    /\ sent' \in [Channels -> Rpcs \cup {None}]
    /\ \A d \in Channels : sent'[d] \in {sent[d], None}
    /\ stage' \in [Channels -> StageRecords \cup {None}]
    /\ \A d \in Channels : stage'[d] \in {stage[d], None}
    /\ busy' \in {busy, NoChannel}
    /\ table' \subseteq table

LEMMA QuietKeepsBase ==
    ASSUME BaseInv, FenceKept, QuietStep, ChannelsInOrder', StagesTracked', BusyInside'
    PROVE  BaseInv'
<1>1. UNCHANGED <<opened, submitted, log, answer, outbox, proof, session, request, view,
                  chan, lastChan, flow, playerVars, flowVars>>
  BY DEF QuietStep, playerVars, flowVars
<1>2. TypeOK'
  BY <1>1 DEF BaseInv, TypeOK, FenceKept, FenceInv, QuietStep, StageRecords
<1>3. HostOwned'
  <2>1. ASSUME NEW d \in Channels, sent'[d] # None PROVE Owned(d)'
    <3>1. sent'[d] = sent[d] /\ Owned(d)
      BY <2>1 DEF QuietStep, BaseInv, HostOwned
    <3> QED BY <1>1, <3>1 DEF Owned, QuietStep
  <2>2. \A d \in Channels : stage'[d] # None => outbox'[SUBMIT(stage'[d].request)] # "NONE"
    BY <1>1 DEF QuietStep, BaseInv, HostOwned
  <2>3. \A a \in Attempts : Seat(Attempt(a)) \in table' => outbox'[OPEN(a)] # "NONE"
    BY <1>1 DEF QuietStep, BaseInv, HostOwned
  <2> QED BY <1>1, <2>1, <2>2, <2>3 DEF BaseInv, HostOwned
<1>4. HostGrows
  <2>1. \A r \in Requests : log[r] \in Histories
    BY DEF BaseInv, TypeOK
  <2> QED BY <1>1, <2>1, ExtendsItself DEF HostGrows
<1>5. OutboxKinds' /\ PlayerKnows' /\ FlowFits'
  BY <1>1, <1>4, GrowthKeepsKnowledge
<1>6. SentFits'
  <2> SUFFICES ASSUME (chan # NoChannel /\ sent[chan] # None)' PROVE SentFits'
    BY DEF SentFits
  <2>1. chan \in Channels /\ chan # NoChannel /\ sent'[chan] = sent[chan]
    BY <1>1 DEF BaseInv, TypeOK, QuietStep
  <2> QED BY <1>1, <2>1 DEF BaseInv, SentFits, ReconcileRpc, DeliverRpc, RecoverRpc
<1>7. AnswerFits'
  <2>1. AnswerGrounds
    BY <1>1 DEF AnswerGrounds, QuietStep, BaseInv, TypeOK
  <2> QED BY <1>1, <2>1, OldAnswerFits
<1>8. OneActiveRequest'
  BY <1>1 DEF BaseInv, OneActiveRequest
<1> QED
  BY <1>2, <1>3, <1>5, <1>6, <1>7, <1>8 DEF BaseInv, FenceKept

LEMMA AcceptKeepsBase ==
    ASSUME BaseInv, FenceKept, NEW c \in Channels, HostAcceptsProof(c)
    PROVE  BaseInv'
<1>1. /\ link[c] = "PROOF" /\ c \notin down
      /\ registered' = registered \cup {c}
      /\ link' = [link EXCEPT ![c] = "OPEN"]
      /\ UNCHANGED <<down, table, transfers>>
      /\ UNCHANGED <<opened, submitted, log, campaign, stage, busy, sent, answer,
                     playerVars, flowVars, chan, lastChan>>
  BY DEF HostAcceptsProof, Register, scopeVars, hostVars, flowVars
<1>2. link \in [Channels -> {"NONE", "PROOF", "OPEN", "GONE"}]
  BY DEF BaseInv, TypeOK
<1>3. QuietStep
  BY <1>1, <1>2 DEF QuietStep, BaseInv, TypeOK, StageRecords
<1>4. StagesTracked'
  BY <1>1, StandingStages DEF BaseInv
<1>5. BusyInside'
  BY <1>1 DEF BaseInv, BusyInside
<1>6. ChannelsInOrder'
  <2>1. link'[c] = "OPEN" /\ \A d \in Channels \ {c} : link'[d] = link[d]
    BY <1>1, <1>2
  <2> QED BY <1>1, <2>1 DEF BaseInv, ChannelsInOrder
<1> QED BY <1>3, <1>4, <1>5, <1>6, QuietKeepsBase

LEMMA LostProofKeepsBase ==
    ASSUME BaseInv, FenceKept, NEW c \in Channels, HostLosesProof(c)
    PROVE  BaseInv'
<1>1. /\ link[c] = "PROOF" /\ link' = [link EXCEPT ![c] = "GONE"]
      /\ sent' = [sent EXCEPT ![c] = None]
      /\ UNCHANGED <<registered, down, table, transfers>>
      /\ UNCHANGED <<opened, submitted, log, campaign, stage, busy, answer,
                     playerVars, flowVars, chan, lastChan>>
  BY DEF HostLosesProof, fenceVars, channelVars, scopeVars, hostVars, flowVars
<1>2. /\ link \in [Channels -> {"NONE", "PROOF", "OPEN", "GONE"}]
      /\ sent \in [Channels -> Rpcs \cup {None}]
  BY DEF BaseInv, TypeOK
<1>3. /\ link'[c] = "GONE" /\ \A d \in Channels \ {c} : link'[d] = link[d]
      /\ sent'[c] = None /\ \A d \in Channels \ {c} : sent'[d] = sent[d]
      /\ link' \in [Channels -> {"NONE", "PROOF", "OPEN", "GONE"}]
      /\ sent' \in [Channels -> Rpcs \cup {None}]
  BY <1>1, <1>2
<1>4. QuietStep
  BY <1>1, <1>3 DEF QuietStep, BaseInv, TypeOK, StageRecords
<1>5. StagesTracked'
  BY <1>1, StandingStages DEF BaseInv
<1>6. BusyInside'
  <2>1. busy # NoChannel => busy # c
    BY <1>1 DEF BaseInv, BusyInside, ChannelsInOrder, TypeOK
  <2>2. busy # NoChannel => sent'[busy] = sent[busy]
    BY <1>3, <2>1 DEF BaseInv, TypeOK
  <2> QED BY <1>1, <2>2 DEF BaseInv, BusyInside
<1>7. ChannelsInOrder'
  BY <1>1, <1>3 DEF BaseInv, ChannelsInOrder
<1> QED BY <1>4, <1>5, <1>6, <1>7, QuietKeepsBase

LEMMA LossKeepsBase ==
    ASSUME BaseInv, FenceKept, NEW c \in Channels, HostLosesChannel(c)
    PROVE  BaseInv'
<1>1. /\ busy # c /\ link[c] = "OPEN" /\ c \in registered
      /\ registered' = registered \ {c} /\ down' = down \cup {c}
      /\ transfers' = {t \in transfers : t.channel # c}
      /\ table' = IF registered = {c} THEN {} ELSE table
      /\ link' = [link EXCEPT ![c] = "GONE"]
      /\ sent' = [sent EXCEPT ![c] = None]
      /\ stage' = [stage EXCEPT ![c] = None]
      /\ UNCHANGED <<opened, submitted, log, campaign, busy, answer, playerVars,
                     flowVars, chan, lastChan>>
  BY DEF HostLosesChannel, CloseChannel, EmptyTable, flowVars
<1>2. /\ link \in [Channels -> {"NONE", "PROOF", "OPEN", "GONE"}]
      /\ sent \in [Channels -> Rpcs \cup {None}]
      /\ stage \in [Channels -> StageRecords \cup {None}]
  BY DEF BaseInv, TypeOK, StageRecords
<1>3. QuietStep
  BY <1>1, <1>2 DEF QuietStep, BaseInv, TypeOK
<1>4. StagesTracked'
  <2>1. \A t \in transfers : t.channel \in Channels /\ stage[t.channel] # None
    BY DEF BaseInv, TypeOK, FenceTypeOK, Transfer, StagesTracked
  <2>2. stage'[c] = None /\ \A d \in Channels \ {c} : stage'[d] = stage[d]
    BY <1>1, <1>2
  <2>3. \A d : StageOf(d).channel = d
    BY DEF StageOf
  <2>4. StagesShrink
    BY <1>1, <2>1, <2>2, <2>3 DEF StagesShrink, BaseInv, StagesTracked
  <2> QED BY <2>4, ShrinkingKeepsTracked DEF BaseInv
<1>5. BusyInside'
  BY <1>1, <1>2 DEF BaseInv, BusyInside, TypeOK
<1>6. ChannelsInOrder'
  <2>1. link'[c] = "GONE" /\ \A d \in Channels \ {c} : link'[d] = link[d]
    BY <1>1, <1>2
  <2>2. \A d \in Channels : sent'[d] \in {sent[d], None}
    BY <1>3 DEF QuietStep
  <2> QED BY <1>1, <2>1, <2>2 DEF BaseInv, ChannelsInOrder
<1> QED BY <1>3, <1>4, <1>5, <1>6, QuietKeepsBase

LEMMA StopKeepsBase ==
    ASSUME BaseInv, FenceKept, HostStops
    PROVE  BaseInv'
<1>1. /\ registered' = {} /\ transfers' = {} /\ table' = {}
      /\ link' = [c \in Channels |-> IF link[c] = "NONE" THEN "NONE" ELSE "GONE"]
      /\ sent' = [c \in Channels |-> None]
      /\ stage' = [c \in Channels |-> None]
      /\ busy' = NoChannel
      /\ UNCHANGED <<opened, submitted, log, campaign, answer, playerVars, flowVars,
                     chan, lastChan>>
  BY DEF HostStops, Close, EmptyTable, NoHostWrite, flowVars
<1>2. QuietStep
  BY <1>1 DEF QuietStep, BaseInv, TypeOK
<1>3. StagesTracked'
  <2>1. StagesShrink
    BY <1>1 DEF StagesShrink
  <2> QED BY <2>1, ShrinkingKeepsTracked DEF BaseInv
<1>4. BusyInside'
  BY <1>1 DEF BusyInside
<1>5. ChannelsInOrder'
  BY <1>1 DEF BaseInv, ChannelsInOrder
<1> QED BY <1>2, <1>3, <1>4, <1>5, QuietKeepsBase

LEMMA QuietHostKeepsBase ==
    ASSUME BaseInv, FenceKept, HostStarts \/ CampaignAdvances \/ UNCHANGED vars
    PROVE  BaseInv'
<1>1. /\ UNCHANGED <<opened, submitted, log, stage, busy, link, sent, answer,
                     playerVars, flowVars, chan, lastChan>>
      /\ UNCHANGED <<registered, down, table, transfers>>
      /\ campaign' \in 1..MaxCampaign
  <2>1. campaign \in 1..MaxCampaign
    BY DEF BaseInv, TypeOK
  <2>2. CASE HostStarts
    BY <2>1, <2>2 DEF HostStarts, Reopen, hostVars, wireVars, flowVars, scopeVars
  <2>3. CASE CampaignAdvances
    <3>1. campaign' \in 1..MaxCampaign
      BY <2>1, <2>3, AdmissionAssumption DEF CampaignAdvances
    <3> QED
      BY <2>3, <3>1 DEF CampaignAdvances, fenceVars, channelVars, scopeVars, wireVars,
                        flowVars
  <2>4. CASE UNCHANGED vars
    BY <2>1, <2>4 DEF vars, hostVars, fenceVars, channelVars, scopeVars, wireVars, flowVars
  <2> QED BY <2>2, <2>3, <2>4
<1>2. QuietStep
  BY <1>1 DEF QuietStep, BaseInv, TypeOK, StageRecords
<1>3. StagesTracked'
  BY <1>1, StandingStages DEF BaseInv
<1>4. BusyInside'
  BY <1>1 DEF BaseInv, BusyInside
<1>5. ChannelsInOrder'
  BY <1>1 DEF BaseInv, ChannelsInOrder
<1> QED BY <1>2, <1>3, <1>4, <1>5, QuietKeepsBase

LEMMA DecisionKeepsBase ==
    ASSUME BaseInv, FenceKept, NEW r \in Requests,
           NEW status \in {"IN_REVIEW", "REJECTED"}, GmDecides(r, status)
    PROVE  BaseInv'
<1>1. /\ r \in submitted
      /\ Status(log[r]) \in IF status = "IN_REVIEW" THEN {"PENDING"}
                                                    ELSE {"PENDING", "IN_REVIEW"}
      /\ log' = [log EXCEPT ![r] = Append(log[r], status)]
      /\ UNCHANGED <<opened, submitted, campaign, stage, busy, fenceVars, wireVars,
                     playerVars, flowVars>>
  BY DEF GmDecides
<1>2. UNCHANGED <<registered, down, table, transfers, link, sent, answer, outbox, proof,
                  session, request, view, chan, lastChan, flow>>
  BY <1>1 DEF fenceVars, channelVars, scopeVars, wireVars, playerVars, flowVars
<1>3. log \in [Requests -> Histories]
  BY DEF BaseInv, TypeOK
<1>4. /\ Append(log[r], status) \in Histories
      /\ Extends(Append(log[r], status), log[r])
      /\ Append(log[r], status) # <<>> /\ Append(log[r], status) # <<"CANCELLED">>
      /\ Status(log[r]) \notin Closing
  <2>1. log[r] \in Histories
    BY <1>3
  <2> QED BY <1>1, <2>1, DecisionExtends
<1> DEFINE h == Append(log[r], status)
<1> HIDE DEF h
<1>5. log'[r] = h /\ \A q \in Requests \ {r} : log'[q] = log[q]
  BY <1>1, <1>3 DEF h
<1>6. HostGrows
  <2>1. ASSUME NEW q \in Requests
        PROVE  /\ log'[q] \in Histories /\ Extends(log'[q], log[q])
               /\ log'[q] # log[q] => q \in submitted
               /\ Status(log[q]) \in Closing => Status(log'[q]) \in Closing
               /\ log'[q] # log[q] /\ log'[q] = <<"CANCELLED">>
                  => outbox[CANCEL(q)] \in {"PENDING", "ACK"}
    <3>1. CASE q = r
      BY <1>1, <1>4, <1>5, <3>1 DEF h
    <3>2. CASE q # r
      BY <1>3, <1>5, <3>2, ExtendsItself
    <3> QED BY <3>1, <3>2
  <2> QED BY <1>1, <2>1 DEF HostGrows
<1>7. log' \in [Requests -> Histories]
  BY <1>1, <1>3, <1>4
<1>8. TypeOK'
  BY <1>1, <1>2, <1>7 DEF BaseInv, TypeOK, FenceKept, FenceInv
<1>9. OutboxKinds' /\ PlayerKnows' /\ FlowFits'
  BY <1>1, <1>6, GrowthKeepsKnowledge
<1>10. HostOwned'
  <2>1. \A d \in Channels : sent'[d] # None => Owned(d)'
    BY <1>1, <1>2 DEF BaseInv, HostOwned, Owned
  <2>2. \A q \in Requests :
          /\ log'[q] # <<>> => q \in submitted'
          /\ log'[q] = <<"CANCELLED">> => outbox'[CANCEL(q)] \in {"PENDING", "ACK"}
    BY <1>1, <1>2, <1>6 DEF BaseInv, HostOwned, HostGrows
  <2> QED BY <1>1, <1>2, <2>1, <2>2 DEF BaseInv, HostOwned
<1>11. SentFits'
  BY <1>2 DEF BaseInv, SentFits, ReconcileRpc, DeliverRpc, RecoverRpc
<1>12. AnswerFits'
  <2>1. AnswerGrounds
    BY <1>1, <1>2, <1>6, GrowthKeepsKnowledge DEF AnswerGrounds
  <2> QED BY <1>2, <2>1, OldAnswerFits
<1>13. OneActiveRequest'
  <2>1. \A q \in submitted : Status(log'[q]) \notin Closing => Status(log[q]) \notin Closing
    BY <1>6 DEF HostGrows, BaseInv, TypeOK
  <2> QED BY <1>1, <2>1 DEF BaseInv, OneActiveRequest
<1>14. ChannelsInOrder' /\ BusyInside'
  BY <1>1, <1>2 DEF BaseInv, ChannelsInOrder, BusyInside
<1>15. StagesTracked'
  BY <1>1, <1>2, StandingStages DEF BaseInv
<1> QED
  BY <1>8, <1>9, <1>10, <1>11, <1>12, <1>13, <1>14, <1>15 DEF BaseInv, FenceKept

-----------------------------------------------------------------------------
(***************************************************************************)
(* The steps of the player.                                                *)
(***************************************************************************)
HostStands == UNCHANGED <<hostVars, fenceVars>>

WireFits ==
    /\ link' \in [Channels -> {"NONE", "PROOF", "OPEN", "GONE"}]
    /\ sent' \in [Channels -> Rpcs \cup {None}]
    /\ answer' \in [Channels -> Replies \cup {None}]
    /\ chan' \in Channels \cup {NoChannel}
    /\ lastChan' \in Nat
    /\ ChannelsInOrder'
    /\ BusyInside'
    /\ AnswerFits'

PlayerTyped ==
    /\ outbox' \in [Commands -> {"NONE", "PENDING", "ACK", "ABSENT", "SETTLED"}]
    /\ proof' \in [Commands -> 0..MaxCampaign]
    /\ session' \in Attempts \cup {None}
    /\ request' \in Requests \cup {None}
    /\ view' \in [Requests -> Histories]
    /\ flow' \in [cmd : Commands \cup {None}, step : Steps, log : Histories]

\* A command never leaves the outbox, and the session stays.
OutboxGrows ==
    /\ \A m \in Commands : outbox[m] # "NONE" => outbox'[m] # "NONE"
    /\ \A r \in Requests :
        log[r] = <<"CANCELLED">> /\ outbox[CANCEL(r)] \in {"PENDING", "ACK"}
        => outbox'[CANCEL(r)] \in {"PENDING", "ACK"}
    /\ session # None => session' = session

\* Nothing on the wire but, at most, a request of the player on its channel.
SendsOwned ==
    \A d \in Channels : sent'[d] # None => sent'[d] = sent[d] \/ Owned(d)'

LEMMA PlayerKeepsBase ==
    ASSUME BaseInv, FenceKept, HostStands, WireFits, PlayerTyped, OutboxGrows, SendsOwned,
           OutboxKinds', PlayerKnows', FlowFits', SentFits'
    PROVE  BaseInv'
<1>1. /\ UNCHANGED <<opened, submitted, log, campaign, stage, busy>>
      /\ UNCHANGED <<table, transfers>>
  BY DEF HostStands, hostVars, fenceVars, scopeVars
<1>2. TypeOK'
  BY <1>1 DEF BaseInv, TypeOK, FenceKept, FenceInv, WireFits, PlayerTyped
<1>3. StagesTracked'
  BY <1>1, StandingStages DEF BaseInv
<1>4. HostOwned'
  <2>1. ASSUME NEW d \in Channels, sent'[d] # None PROVE Owned(d)'
    <3>1. CASE sent'[d] = sent[d]
      <4>1. Owned(d) /\ sent[d] \in Rpcs
        BY <2>1, <3>1, SentTyped DEF BaseInv, HostOwned
      <4>2. /\ sent[d].op \in AttemptOps => OPEN(sent[d].id) \in Commands
            /\ sent[d].op \in SubmitOps => SUBMIT(sent[d].id) \in Commands
            /\ sent[d].op = "CANCEL" => CANCEL(sent[d].id) \in Commands
        BY <4>1, RpcForms, CommandForms DEF AttemptOps, SubmitOps
      <4> QED BY <1>1, <3>1, <4>1, <4>2 DEF Owned, OutboxGrows
    <3>2. CASE Owned(d)'
      BY <3>2
    <3> QED BY <2>1, <3>1, <3>2 DEF SendsOwned
  <2>2. /\ \A a \in opened : outbox'[OPEN(a)] # "NONE"
        /\ \A r \in submitted : outbox'[SUBMIT(r)] # "NONE"
        /\ \A a \in Attempts : Seat(Attempt(a)) \in table => outbox'[OPEN(a)] # "NONE"
    <3>1. opened \subseteq Attempts /\ submitted \subseteq Requests
      BY DEF BaseInv, TypeOK
    <3> QED BY <3>1, CommandForms DEF BaseInv, HostOwned, OutboxGrows
  <2>3. \A c \in Channels : stage[c] # None => outbox'[SUBMIT(stage[c].request)] # "NONE"
    <3>1. \A c \in Channels : stage[c] # None => stage[c].request \in Requests
      BY DEF BaseInv, TypeOK
    <3> QED BY <3>1, CommandForms DEF BaseInv, HostOwned, OutboxGrows
  <2>4. \A r \in Requests :
          /\ log[r] # <<>> => r \in submitted
          /\ log[r] = <<"CANCELLED">> => outbox'[CANCEL(r)] \in {"PENDING", "ACK"}
    BY DEF BaseInv, HostOwned, OutboxGrows
  <2> QED BY <1>1, <2>1, <2>2, <2>3, <2>4 DEF HostOwned
<1>5. OneActiveRequest'
  BY <1>1 DEF BaseInv, OneActiveRequest
<1> QED BY <1>2, <1>3, <1>4, <1>5 DEF BaseInv, FenceKept, WireFits

(* The player's channel, its order and the wire.                           *)
LEMMA ChannelOrder ==
    ASSUME BaseInv
    PROVE  /\ lastChan \in Nat /\ chan \in {NoChannel, lastChan}
           /\ chan \in Channels \cup {NoChannel}
           /\ \A c \in Channels : c \in Nat /\ c # NoChannel
           /\ chan # NoChannel /\ (answer[chan] # None \/ flow.step \in {"IDLE", "APPLY"})
              => sent[chan] = None
           /\ flow.step \in {"IDLE", "APPLY"} /\ chan # NoChannel => answer[chan] = None
  BY AdmissionAssumption
  DEF BaseInv, TypeOK, ChannelsInOrder, SentFits, AnswerFits

(* It sends nothing: it keeps its channel after an answer, or leaves it.   *)
LEMMA SilentWire ==
    ASSUME BaseInv, HostStands, NEW S \in SUBSET Steps,
           (NoSend /\ Answered(S)) \/ PlayerLeavesChannel
    PROVE  WireFits /\ SendsOwned /\ SentFits'
<1>h. UNCHANGED <<registered, down, table, opened, busy, submitted, stage>>
  BY DEF HostStands, hostVars, fenceVars, channelVars, scopeVars
<1>1. CASE NoSend /\ Answered(S)
  <2>1. /\ UNCHANGED <<link, sent, chan, lastChan>>
        /\ answer' = [c \in Channels |-> None]
        /\ chan # NoChannel /\ answer[chan] # None
    BY <1>1 DEF NoSend, Answered
  <2>2. /\ answer' \in [Channels -> Replies \cup {None}]
        /\ \A c \in Channels : answer'[c] = None
    BY <2>1
  <2>3. chan \in Channels /\ sent[chan] = None
    BY <2>1, ChannelOrder
  <2>4. SendsOwned
    BY <2>1 DEF SendsOwned
  <2>5. SentFits' /\ AnswerFits'
    BY <2>1, <2>2, <2>3 DEF SentFits, AnswerFits
  <2>6. ChannelsInOrder'
    BY <1>h, <2>1, <2>2 DEF BaseInv, ChannelsInOrder
  <2>7. BusyInside'
    BY <1>h, <2>1 DEF BaseInv, BusyInside
  <2>8. /\ link' \in [Channels -> {"NONE", "PROOF", "OPEN", "GONE"}]
        /\ sent' \in [Channels -> Rpcs \cup {None}]
        /\ chan' \in Channels \cup {NoChannel} /\ lastChan' \in Nat
    BY <2>1 DEF BaseInv, TypeOK
  <2> QED BY <2>2, <2>4, <2>5, <2>6, <2>7, <2>8 DEF WireFits
<1>2. CASE PlayerLeavesChannel
  <2>1. /\ UNCHANGED <<link, sent, lastChan>>
        /\ answer' = [c \in Channels |-> None]
        /\ chan' = NoChannel
    BY <1>2 DEF PlayerLeavesChannel
  <2>2. /\ answer' \in [Channels -> Replies \cup {None}]
        /\ \A c \in Channels : answer'[c] = None
    BY <2>1
  <2>3. SendsOwned
    BY <2>1 DEF SendsOwned
  <2>4. SentFits' /\ AnswerFits'
    BY <2>1 DEF SentFits, AnswerFits
  <2>5. ChannelsInOrder'
    BY <1>h, <2>1, <2>2 DEF BaseInv, ChannelsInOrder
  <2>6. BusyInside'
    BY <1>h, <2>1 DEF BaseInv, BusyInside
  <2>7. /\ link' \in [Channels -> {"NONE", "PROOF", "OPEN", "GONE"}]
        /\ sent' \in [Channels -> Rpcs \cup {None}]
        /\ chan' \in Channels \cup {NoChannel} /\ lastChan' \in Nat
    BY <2>1 DEF BaseInv, TypeOK
  <2> QED BY <2>2, <2>3, <2>4, <2>5, <2>6, <2>7 DEF WireFits
<1> QED BY <1>1, <1>2

(* It sends a request, on its channel or on a new one.                     *)
LEMMA SendingWire ==
    ASSUME BaseInv, HostStands, NEW rpc \in Rpcs,
           \/ Send(rpc) /\ (answer[chan] # None \/ flow.step = "IDLE")
           \/ ConnectAndSend(rpc)
    PROVE  /\ WireFits
           /\ chan' \in Channels /\ sent'[chan'] = rpc /\ answer'[chan'] = None
           /\ \A d \in Channels \ {chan'} : sent'[d] \in {sent[d], None}
<1>h. UNCHANGED <<registered, down, table, opened, busy, submitted, stage>>
  BY DEF HostStands, hostVars, fenceVars, channelVars, scopeVars
<1>t. /\ link \in [Channels -> {"NONE", "PROOF", "OPEN", "GONE"}]
      /\ sent \in [Channels -> Rpcs \cup {None}]
      /\ answer \in [Channels -> Replies \cup {None}]
  BY DEF BaseInv, TypeOK
<1>b. busy # NoChannel =>
        /\ busy \in Channels /\ link[busy] = "OPEN" /\ sent[busy] # None
  BY DEF BaseInv, BusyInside, ChannelsInOrder, TypeOK
<1>1. CASE Send(rpc) /\ (answer[chan] # None \/ flow.step = "IDLE")
  <2>1. /\ chan # NoChannel /\ UNCHANGED <<link, chan, lastChan>>
        /\ sent' = [sent EXCEPT ![chan] = rpc]
        /\ answer' = [answer EXCEPT ![chan] = None]
    BY <1>1 DEF Send
  <2>2. chan \in Channels /\ sent[chan] = None /\ lastChan \in Nat /\ chan = lastChan
    BY <1>1, <2>1, ChannelOrder
  <2>3. /\ sent' \in [Channels -> Rpcs \cup {None}] /\ sent'[chan] = rpc
        /\ \A d \in Channels \ {chan} : sent'[d] = sent[d]
    BY <1>t, <2>1, <2>2
  <2>4. /\ answer' \in [Channels -> Replies \cup {None}] /\ answer'[chan] = None
        /\ \A d \in Channels \ {chan} : answer'[d] = answer[d]
    BY <1>t, <2>1, <2>2
  <2>5. AnswerFits'
    BY <2>1, <2>4 DEF AnswerFits
  <2>6. ChannelsInOrder'
    <3>1. \A c \in Channels : c > lastChan => c # chan
      BY <2>2, ChannelOrder
    <3> QED BY <1>h, <2>1, <2>3, <2>4, <3>1 DEF BaseInv, ChannelsInOrder
  <2>7. BusyInside'
    <3>1. busy # NoChannel => sent'[busy] = sent[busy]
      BY <1>b, <2>2, <2>3
    <3> QED BY <1>h, <3>1 DEF BaseInv, BusyInside
  <2> QED BY <1>t, <2>1, <2>2, <2>3, <2>4, <2>5, <2>6, <2>7 DEF WireFits
<1>2. CASE ConnectAndSend(rpc)
  <2> DEFINE n == lastChan + 1
  <2>1. /\ n \in Channels /\ lastChan' = n /\ chan' = n
        /\ link' = [link EXCEPT ![n] = "PROOF"]
        /\ sent' = [sent EXCEPT ![n] = rpc]
        /\ answer' = [c \in Channels |-> None]
    BY <1>2 DEF ConnectAndSend, NextChannel
  <2>2. lastChan \in Nat /\ n \in Nat /\ n > lastChan /\ \A c \in Channels : c \in Nat
    BY ChannelOrder
  <2>3. link[n] = "NONE"
    BY <2>1, <2>2 DEF BaseInv, ChannelsInOrder
  <2>4. \A c \in Channels : c > n => c > lastChan /\ c # n
    BY <2>2
  <2> HIDE DEF n
  <2>5. /\ link' \in [Channels -> {"NONE", "PROOF", "OPEN", "GONE"}]
        /\ sent' \in [Channels -> Rpcs \cup {None}]
        /\ answer' \in [Channels -> Replies \cup {None}]
        /\ link'[n] = "PROOF" /\ sent'[n] = rpc /\ \A c \in Channels : answer'[c] = None
        /\ \A d \in Channels \ {n} : link'[d] = link[d] /\ sent'[d] = sent[d]
    BY <1>t, <2>1
  <2>7. ChannelsInOrder'
    <3>1. chan' \in {NoChannel, lastChan'}
      BY <2>1
    <3>2. ASSUME NEW c \in Channels
          PROVE  /\ c > lastChan' => link'[c] = "NONE" /\ sent'[c] = None
                 /\ c \in registered' <=> link'[c] = "OPEN"
                 /\ c \in registered' => c \notin down'
                 /\ answer'[c] # None => c = chan'
                 /\ link'[c] = "PROOF" => answer'[c] = None
      <4>1. c \in registered <=> link[c] = "OPEN"
        BY DEF BaseInv, ChannelsInOrder
      <4>2. c \in registered => c \notin down
        BY DEF BaseInv, ChannelsInOrder
      <4>3. c > lastChan => link[c] = "NONE" /\ sent[c] = None
        BY DEF BaseInv, ChannelsInOrder
      <4>4. CASE c = n
        <5>1. ~(n > n)
          BY <2>2, ChannelOrder, <2>1
        <5> QED BY <1>h, <2>1, <2>3, <2>5, <4>1, <4>4, <5>1
      <4>5. CASE c # n
        <5>1. c > n => c > lastChan
          BY <2>4
        <5> QED BY <1>h, <2>1, <2>5, <4>1, <4>2, <4>3, <4>5, <5>1
      <4> QED BY <4>4, <4>5
    <3> QED BY <3>1, <3>2 DEF ChannelsInOrder
  <2>8. BusyInside'
    <3>1. busy # NoChannel => busy # n /\ sent'[busy] = sent[busy]
      BY <1>b, <2>3, <2>5
    <3> QED BY <1>h, <3>1 DEF BaseInv, BusyInside
  <2>9. AnswerFits'
    BY <2>1, <2>5 DEF AnswerFits
  <2> QED BY <2>1, <2>2, <2>5, <2>7, <2>8, <2>9 DEF WireFits
<1> QED BY <1>1, <1>2

LEMMA RpcTyped ==
    /\ \A a \in Attempts, op \in AttemptOps :
        /\ Rpc(op, a, None) \in Rpcs /\ Rpc(op, a, None).op = op /\ Rpc(op, a, None).id = a
    /\ \A r \in Requests, s \in Attempts,
          op \in {"RECOVER", "BEGIN", "CHUNK", "COMMIT", "CANCEL"} :
        /\ Rpc(op, r, s) \in Rpcs /\ Rpc(op, r, s).op = op /\ Rpc(op, r, s).id = r
        /\ Rpc(op, r, s).session = s
  BY DEF Rpc, Rpcs, AttemptOps

LEMMA FlowTyped ==
    /\ \A m \in Commands \cup {None}, s \in Steps :
        /\ Flow(m, s) \in [cmd : Commands \cup {None}, step : Steps, log : Histories]
        /\ Flow(m, s).cmd = m /\ Flow(m, s).step = s /\ Flow(m, s).log = <<>>
    /\ Idle = Flow(None, "IDLE")
    /\ Idle \in [cmd : Commands \cup {None}, step : Steps, log : Histories]
    /\ Idle.cmd = None /\ Idle.step = "IDLE" /\ Idle.log = <<>>
  BY HistoryValues DEF Flow, Idle, Steps

(* What the player reads.                                                  *)
LEMMA ReadingFacts ==
    ASSUME BaseInv, NEW S \in SUBSET Steps, Answered(S)
    PROVE  /\ chan \in Channels /\ chan # NoChannel /\ Got # None
           /\ Got \in Replies /\ Got.log \in Histories
           /\ flow.step \in S /\ flow.step \notin {"IDLE", "APPLY"}
           /\ flow.step # "RECONCILE" =>
                flow.cmd \in Commands /\ flow.cmd \in Pending
           /\ Got.kind = "ACK" =>
                IF Subject = None THEN Got.log = <<>>
                ELSE Subject \in submitted /\ Extends(log[Subject], Got.log)
<1>1. chan \in Channels /\ chan # NoChannel /\ Got # None /\ flow.step \in S /\ Got = answer[chan]
  BY DEF Answered, Got, BaseInv, TypeOK
<1>2. Got \in Replies
  BY <1>1 DEF BaseInv, TypeOK
<1>3. AnswerFits /\ FlowFits /\ flow.step \in Steps
  BY DEF BaseInv, TypeOK
<1>4. flow.step \notin {"IDLE", "APPLY"}
  BY <1>1, <1>3 DEF AnswerFits
<1> QED BY <1>1, <1>2, <1>3, <1>4 DEF AnswerFits, FlowFits, Replies, Pending

LEMMA AdvanceFacts ==
    ASSUME BaseInv, NEW r \in Requests, NEW h \in Histories,
           Extends(log[r], h), Advance(r, h)
    PROVE  /\ view' \in [Requests -> Histories]
           /\ \A q \in Requests \ {r} : view'[q] = view[q]
           /\ Extends(log[r], view'[r])
           /\ view[r] # <<>> \/ h # <<>> => view'[r] # <<>>
<1>1. /\ view \in [Requests -> Histories] /\ log[r] \in Histories
      /\ Extends(log[r], view[r])
  BY DEF BaseInv, TypeOK, PlayerKnows
<1>2. CASE Extends(h, view[r])
  <2>1. view' = [view EXCEPT ![r] = h]
    BY <1>2 DEF Advance
  <2>2. view[r] # <<>> => h # <<>>
    BY <1>1, <1>2, ExtendsTable, HistoryValues
  <2> QED BY <1>1, <2>1, <2>2
<1>3. CASE ~Extends(h, view[r])
  <2>1. view' = view
    BY <1>3 DEF Advance
  <2>2. view[r] # <<>>
    BY <1>1, <1>3, ExtendsItself
  <2> QED BY <1>1, <2>1, <2>2
<1> QED BY <1>2, <1>3

(* A history the player appends.                                           *)
LEMMA AdvanceKeepsKnowledge ==
    ASSUME BaseInv, HostStands, NEW r \in Requests, NEW h \in Histories,
           outbox[SUBMIT(r)] = "ACK", Extends(log[r], h),
           Advance(r, h) \/ UNCHANGED view,
           UNCHANGED <<outbox, proof, session, request>>
    PROVE  /\ OutboxKinds' /\ PlayerKnows' /\ OutboxGrows
           /\ Pending' = Pending
           /\ outbox' \in [Commands -> {"NONE", "PENDING", "ACK", "ABSENT", "SETTLED"}]
           /\ proof' \in [Commands -> 0..MaxCampaign]
           /\ session' \in Attempts \cup {None}
           /\ request' \in Requests \cup {None}
           /\ view' \in [Requests -> Histories]
<1>h. UNCHANGED <<opened, submitted, log>>
  BY DEF HostStands, hostVars
<1>1. /\ view' \in [Requests -> Histories]
      /\ \A q \in Requests \ {r} : view'[q] = view[q]
      /\ Extends(log[r], view'[r])
      /\ view[r] # <<>> => view'[r] # <<>>
  <2>1. CASE UNCHANGED view
    BY <2>1 DEF BaseInv, TypeOK, PlayerKnows
  <2>2. CASE Advance(r, h)
    BY <2>2, AdvanceFacts
  <2> QED BY <2>1, <2>2
<1>2. OutboxKinds' /\ OutboxGrows /\ Pending' = Pending
  BY DEF BaseInv, OutboxKinds, OutboxGrows, Pending
<1>3. PlayerKnows'
  <2>1. \A a \in Attempts :
        /\ outbox'[OPEN(a)] = "ACK" <=> session' = a
        /\ outbox'[OPEN(a)] = "ACK" => a \in opened'
        /\ outbox'[OPEN(a)] = "PENDING" => session' = None
    BY <1>h DEF BaseInv, PlayerKnows
  <2>2. request' # None => outbox'[SUBMIT(request')] = "ACK"
    BY DEF BaseInv, PlayerKnows
  <2>3. ASSUME NEW q \in Requests
        PROVE  /\ outbox'[SUBMIT(q)] # "NONE" => session' # None
               /\ outbox'[SUBMIT(q)] = "ACK" => q \in submitted'
               /\ outbox'[SUBMIT(q)] # "ACK" => view'[q] = <<>>
               /\ outbox'[CANCEL(q)] # "NONE" => outbox'[SUBMIT(q)] = "ACK"
               /\ outbox'[CANCEL(q)] = "PENDING" => request' = q
               /\ outbox'[CANCEL(q)] = "ACK" => log'[q] = <<"CANCELLED">>
               /\ outbox'[CANCEL(q)] = "SETTLED" =>
                    view'[q] # <<>> /\ log'[q] # <<"CANCELLED">>
               /\ Extends(log'[q], view'[q])
    <3>1. CASE q = r
      BY <1>h, <1>1, <3>1 DEF BaseInv, PlayerKnows
    <3>2. CASE q # r
      BY <1>h, <1>1, <3>2 DEF BaseInv, PlayerKnows
    <3> QED BY <3>1, <3>2
  <2> QED BY <2>1, <2>2, <2>3 DEF PlayerKnows
<1> QED BY <1>1, <1>2, <1>3 DEF BaseInv, TypeOK

(* Nothing the player knows changes.                                       *)
LEMMA StandingKnowledge ==
    ASSUME BaseInv, HostStands, UNCHANGED playerVars
    PROVE  /\ OutboxKinds' /\ PlayerKnows' /\ OutboxGrows
           /\ Pending' = Pending
           /\ outbox' \in [Commands -> {"NONE", "PENDING", "ACK", "ABSENT", "SETTLED"}]
           /\ proof' \in [Commands -> 0..MaxCampaign]
           /\ session' \in Attempts \cup {None}
           /\ request' \in Requests \cup {None}
           /\ view' \in [Requests -> Histories]
  BY DEF HostStands, hostVars, playerVars, BaseInv, TypeOK, OutboxKinds, PlayerKnows,
         OutboxGrows, Pending

(* Two steps that finish a delivery.                                       *)
LEMMA IdleFits ==
    ASSUME flow' = Idle
    PROVE  FlowFits'
  BY FlowTyped DEF FlowFits

LEMMA UnconfirmedKeepsBase ==
    ASSUME BaseInv, FenceKept, PlayerReconcileFails \/ PlayerStaysPending
    PROVE  BaseInv'
<1>1. /\ HostStands /\ UNCHANGED playerVars /\ NoSend /\ flow' = Idle
      /\ \E S \in SUBSET Steps : Answered(S)
  <2>1. {"RECONCILE"} \subseteq Steps /\ {"DELIVER", "REDELIVER", "RECOVER"} \subseteq Steps
        /\ {"RECHECK", "LASTCHECK"} \subseteq Steps /\ {"LASTCHECK"} \subseteq Steps
    BY DEF Steps
  <2>2. Unconfirmed /\ PlayerOnly
    BY DEF PlayerReconcileFails, PlayerStaysPending
  <2>3. \E S \in SUBSET Steps : Answered(S)
    BY <2>1 DEF PlayerReconcileFails, PlayerStaysPending
  <2> QED BY <2>2, <2>3 DEF Unconfirmed, Finish, PlayerOnly, HostStands
<1>2. WireFits /\ SendsOwned /\ SentFits'
  BY <1>1, SilentWire
<1>3. OutboxKinds' /\ PlayerKnows' /\ OutboxGrows /\ PlayerTyped
  BY <1>1, StandingKnowledge, FlowTyped DEF PlayerTyped
<1> QED BY <1>1, <1>2, <1>3, IdleFits, PlayerKeepsBase

LEMMA LeavesKeepsBase ==
    ASSUME BaseInv, FenceKept, PlayerLeavesChannel
    PROVE  BaseInv'
<1>1. HostStands /\ UNCHANGED playerVars /\ flow' = Idle
  BY DEF PlayerLeavesChannel, PlayerOnly, HostStands
<1>2. WireFits /\ SendsOwned /\ SentFits'
  <2>1. {} \in SUBSET Steps
    OBVIOUS
  <2> QED BY <1>1, <2>1, SilentWire
<1>3. OutboxKinds' /\ PlayerKnows' /\ OutboxGrows /\ PlayerTyped
  BY <1>1, StandingKnowledge, FlowTyped DEF PlayerTyped
<1> QED BY <1>1, <1>2, <1>3, IdleFits, PlayerKeepsBase

\* The CANCEL that is pending asks for the current request.
LEMMA PendingCancel ==
    ASSUME BaseInv, NEW m \in Pending, m[1] = "CANCEL"
    PROVE  /\ m[2] \in Requests /\ m = CANCEL(m[2]) /\ request = m[2]
           /\ outbox[m] = "PENDING"
           /\ outbox[SUBMIT(m[2])] = "ACK" /\ m[2] \in submitted /\ session # None
           /\ \A n \in Commands : outbox[n] = "PENDING" => n = m
<1>1. m \in Commands /\ outbox[m] = "PENDING"
  BY DEF Pending
<1>2. m[2] \in Requests /\ m = CANCEL(m[2])
  BY <1>1, CommandForms
<1>3. request = m[2] /\ outbox[SUBMIT(m[2])] = "ACK"
  BY <1>1, <1>2 DEF BaseInv, PlayerKnows
<1>4. m[2] \in submitted /\ session # None
  BY <1>2, <1>3 DEF BaseInv, PlayerKnows
<1>5. \A n \in Commands : outbox[n] = "PENDING" => n = m
  BY <1>1 DEF BaseInv, OutboxKinds, Pending
<1> QED BY <1>1, <1>2, <1>3, <1>4, <1>5

(* The delivery of a CANCEL, and a reconciliation under one, are about it. *)
LEMMA CancelSubject ==
    ASSUME BaseInv, NEW S \in SUBSET Steps, Answered(S),
           NEW m \in Pending, m[1] = "CANCEL"
    PROVE  Subject = m[2] /\ Subject # None
<1>1. m[2] \in Requests /\ request = m[2] /\ \A n \in Commands : outbox[n] = "PENDING" => n = m
  BY PendingCancel
<1>2. flow.step # "RECONCILE" => flow.cmd = m
  BY <1>1, ReadingFacts DEF Pending
<1> QED BY <1>1, <1>2, NoneIsNoId DEF Subject

LEMMA SettlesKeepsBase ==
    ASSUME BaseInv, FenceKept, PlayerSettlesCancel
    PROVE  BaseInv'
<1> DEFINE m == PendingCommand
           S == {"RECONCILE", "RECOVER", "RECOVER_AGAIN", "RECHECK", "LASTCHECK"}
<1>1. /\ Answered(S) /\ CancelLost(m) /\ Advance(m[2], Got.log) /\ NoSend /\ flow' = Idle
      /\ outbox' = [outbox EXCEPT ![m] = "SETTLED"]
      /\ UNCHANGED <<proof, session, request>> /\ HostStands
  BY DEF PlayerSettlesCancel, Finish, PlayerOnly, HostStands
<1>2. S \in SUBSET Steps
  BY DEF Steps
<1> HIDE DEF S
<1>3. m \in Pending /\ m[1] = "CANCEL"
  BY <1>1 DEF CancelLost, PendingCommand
<1> HIDE DEF m
<1>4. /\ m[2] \in Requests /\ m = CANCEL(m[2]) /\ outbox[m] = "PENDING"
      /\ m[2] \in submitted /\ outbox[SUBMIT(m[2])] = "ACK"
      /\ \A n \in Commands : outbox[n] = "PENDING" => n = m
  BY <1>3, PendingCancel
<1>5. /\ Got.kind = "ACK" /\ Got.log \in Histories /\ Extends(log[m[2]], Got.log)
      /\ Status(Got.log) \in {"IN_REVIEW", "REJECTED"}
  BY <1>1, <1>2, <1>3, CancelSubject, ReadingFacts DEF CancelLost
<1>6. Got.log # <<>> /\ Got.log # <<"CANCELLED">> /\ log[m[2]] # <<"CANCELLED">>
  <2>1. Got.log # <<>> /\ Got.log # <<"CANCELLED">>
    BY <1>5, StatusTable
  <2>2. log[m[2]] \in Histories
    BY <1>4 DEF BaseInv, TypeOK
  <2> QED BY <1>5, <2>1, <2>2, ExtendsTable, HistoryValues
<1>7. /\ view' \in [Requests -> Histories]
      /\ \A q \in Requests \ {m[2]} : view'[q] = view[q]
      /\ Extends(log[m[2]], view'[m[2]])
      /\ view'[m[2]] # <<>>
  BY <1>1, <1>4, <1>5, <1>6, AdvanceFacts
<1>h. UNCHANGED <<opened, submitted, log>>
  BY <1>1 DEF HostStands, hostVars
<1>8. /\ outbox' \in [Commands -> {"NONE", "PENDING", "ACK", "ABSENT", "SETTLED"}]
      /\ outbox'[m] = "SETTLED" /\ \A n \in Commands \ {m} : outbox'[n] = outbox[n]
      /\ m \in Commands
  BY <1>1, <1>3 DEF BaseInv, TypeOK, Pending
<1>9. /\ \A a \in Attempts : outbox'[OPEN(a)] = outbox[OPEN(a)]
      /\ \A q \in Requests : outbox'[SUBMIT(q)] = outbox[SUBMIT(q)]
      /\ \A q \in Requests \ {m[2]} : outbox'[CANCEL(q)] = outbox[CANCEL(q)]
      /\ outbox'[CANCEL(m[2])] = "SETTLED"
  BY <1>4, <1>8, CommandForms, CommandsDiffer
<1>10. Pending' = {}
  BY <1>4, <1>8 DEF Pending
<1>11. OutboxKinds' /\ OutboxGrows
  <2>1. OutboxKinds'
    <3>1. \A q \in Requests : outbox'[CANCEL(q)] # "ABSENT"
      BY <1>9 DEF BaseInv, OutboxKinds
    <3> QED BY <1>9, <1>10, <3>1 DEF BaseInv, OutboxKinds
  <2>2. \A q \in Requests :
          log[q] = <<"CANCELLED">> /\ outbox[CANCEL(q)] \in {"PENDING", "ACK"}
          => outbox'[CANCEL(q)] \in {"PENDING", "ACK"}
    BY <1>6, <1>9
  <2> QED BY <1>1, <1>8, <2>1, <2>2 DEF OutboxGrows
<1>12. PlayerKnows'
  <2>1. \A a \in Attempts :
        /\ outbox'[OPEN(a)] = "ACK" <=> session' = a
        /\ outbox'[OPEN(a)] = "ACK" => a \in opened'
        /\ outbox'[OPEN(a)] = "PENDING" => session' = None
    BY <1>1, <1>h, <1>9 DEF BaseInv, PlayerKnows
  <2>2. request' # None => outbox'[SUBMIT(request')] = "ACK"
    BY <1>1, <1>9 DEF BaseInv, PlayerKnows, TypeOK
  <2>3. ASSUME NEW q \in Requests
        PROVE  /\ outbox'[SUBMIT(q)] # "NONE" => session' # None
               /\ outbox'[SUBMIT(q)] = "ACK" => q \in submitted'
               /\ outbox'[SUBMIT(q)] # "ACK" => view'[q] = <<>>
               /\ outbox'[CANCEL(q)] # "NONE" => outbox'[SUBMIT(q)] = "ACK"
               /\ outbox'[CANCEL(q)] = "PENDING" => request' = q
               /\ outbox'[CANCEL(q)] = "ACK" => log'[q] = <<"CANCELLED">>
               /\ outbox'[CANCEL(q)] = "SETTLED" =>
                    view'[q] # <<>> /\ log'[q] # <<"CANCELLED">>
               /\ Extends(log'[q], view'[q])
    <3>1. CASE q = m[2]
      BY <1>1, <1>h, <1>4, <1>6, <1>7, <1>9, <3>1 DEF BaseInv, PlayerKnows
    <3>2. CASE q # m[2]
      BY <1>1, <1>h, <1>7, <1>9, <3>2 DEF BaseInv, PlayerKnows
    <3> QED BY <3>1, <3>2
  <2> QED BY <2>1, <2>2, <2>3 DEF PlayerKnows
<1>13. PlayerTyped
  BY <1>1, <1>7, <1>8, FlowTyped DEF PlayerTyped, BaseInv, TypeOK
<1>14. WireFits /\ SendsOwned /\ SentFits'
  BY <1>1, <1>2, SilentWire
<1> QED BY <1>1, <1>11, <1>12, <1>13, <1>14, IdleFits, PlayerKeepsBase

\* The player may send this request on this channel.
MaySend(x, c) ==
    /\ x \in Rpcs
    /\ x.op \in AttemptOps => outbox[OPEN(x.id)] # "NONE"
    /\ x.op \notin AttemptOps => session # None /\ x.session = session
    /\ x.op \in SubmitOps => outbox[SUBMIT(x.id)] # "NONE"
    /\ x.op \in StageOps => stage[c] = None \/ stage[c].request = x.id
    /\ x.op = "CANCEL" => outbox[CANCEL(x.id)] # "NONE" /\ x.id \in submitted

LEMMA SendingIsOwned ==
    ASSUME BaseInv, HostStands, OutboxGrows, NEW x, chan' \in Channels, MaySend(x, chan'),
           sent'[chan'] = x, \A d \in Channels \ {chan'} : sent'[d] \in {sent[d], None}
    PROVE  SendsOwned
<1> SUFFICES ASSUME NEW d \in Channels, sent'[d] # None
             PROVE  sent'[d] = sent[d] \/ Owned(d)'
  BY DEF SendsOwned
<1>1. CASE d # chan'
  BY <1>1
<1>2. CASE d = chan'
  <2>1. UNCHANGED <<stage, submitted>>
    BY DEF HostStands, hostVars
  <2>2. /\ x.op \in AttemptOps => OPEN(x.id) \in Commands
        /\ x.op \in SubmitOps => SUBMIT(x.id) \in Commands
        /\ x.op = "CANCEL" => CANCEL(x.id) \in Commands
    BY RpcForms, CommandForms DEF AttemptOps, SubmitOps, MaySend
  <2>3. /\ x.op \in AttemptOps => outbox'[OPEN(x.id)] # "NONE"
        /\ x.op \notin AttemptOps => session' # None /\ x.session = session'
        /\ x.op \in SubmitOps => outbox'[SUBMIT(x.id)] # "NONE"
        /\ x.op \in StageOps => stage'[d] = None \/ stage'[d].request = x.id
        /\ x.op = "CANCEL" => outbox'[CANCEL(x.id)] # "NONE" /\ x.id \in submitted'
    BY <1>2, <2>1, <2>2 DEF MaySend, OutboxGrows
  <2> QED BY <1>2, <2>3 DEF Owned
<1> QED BY <1>1, <1>2

LEMMA MayAsk ==
    ASSUME BaseInv, NEW c
    PROVE  /\ \A m \in Pending : MaySend(RecoverRpc(m), c) /\ MaySend(DeliverRpc(m), c)
           /\ session # None => MaySend(ReconcileRpc, c)
<1>1. ASSUME NEW m \in Pending
      PROVE  MaySend(RecoverRpc(m), c) /\ MaySend(DeliverRpc(m), c)
  <2>1. m \in Commands /\ outbox[m] = "PENDING" /\ session \in Attempts \cup {None}
    BY DEF Pending, BaseInv, TypeOK
  <2>2. CASE m[1] = "OPEN"
    <3>1. m[2] \in Attempts /\ m = OPEN(m[2])
      BY <2>1, <2>2, CommandForms
    <3>2. RecoverRpc(m) = Rpc("RECOVER_OPEN", m[2], None)
          /\ DeliverRpc(m) = Rpc("OPEN", m[2], None)
      BY <2>2 DEF RecoverRpc, DeliverRpc
    <3> QED BY <2>1, <3>1, <3>2, RpcTyped DEF MaySend, AttemptOps, SubmitOps, StageOps
  <2>3. CASE m[1] = "SUBMIT"
    <3>1. m[2] \in Requests /\ m = SUBMIT(m[2])
      BY <2>1, <2>3, CommandForms
    <3>2. RecoverRpc(m) = Rpc("RECOVER", m[2], session)
          /\ DeliverRpc(m) = Rpc("BEGIN", m[2], session)
      BY <2>3 DEF RecoverRpc, DeliverRpc
    <3>3. session \in Attempts /\ session # None
      BY <2>1, <3>1 DEF BaseInv, PlayerKnows
    <3> QED BY <2>1, <3>1, <3>2, <3>3, RpcTyped DEF MaySend, AttemptOps, SubmitOps, StageOps
  <2>4. CASE m[1] = "CANCEL"
    <3>1. m[2] \in Requests /\ m = CANCEL(m[2]) /\ m[2] \in submitted /\ session # None
      BY <2>4, PendingCancel
    <3>2. RecoverRpc(m) = Rpc("RECOVER", m[2], session)
          /\ DeliverRpc(m) = Rpc("CANCEL", m[2], session)
      BY <2>4 DEF RecoverRpc, DeliverRpc
    <3> QED BY <2>1, <3>1, <3>2, RpcTyped DEF MaySend, AttemptOps, SubmitOps, StageOps
  <2> QED BY <2>1, <2>2, <2>3, <2>4, CommandForms
<1>2. ASSUME session # None PROVE MaySend(ReconcileRpc, c)
  <2>1. session \in Attempts /\ request \in Requests \cup {None}
    BY <1>2 DEF BaseInv, TypeOK
  <2>2. outbox[OPEN(session)] = "ACK"
    BY <2>1 DEF BaseInv, PlayerKnows
  <2>3. CASE request = None
    <3>1. ReconcileRpc = Rpc("RECOVER_OPEN", session, None)
      BY <2>3 DEF ReconcileRpc
    <3> QED BY <2>1, <2>2, <3>1, RpcTyped DEF MaySend, AttemptOps, SubmitOps, StageOps
  <2>4. CASE request # None
    <3>1. ReconcileRpc = Rpc("RECOVER", request, session)
      BY <2>4 DEF ReconcileRpc
    <3> QED
      BY <1>2, <2>1, <2>4, <3>1, RpcTyped DEF MaySend, AttemptOps, SubmitOps, StageOps
  <2> QED BY <2>3, <2>4
<1> QED BY <1>1, <1>2

\* The request that a step of a delivery sends.
RpcFits(x, m, step) ==
    /\ step \in {"DELIVER", "REDELIVER"} =>
        IF m[1] = "SUBMIT" THEN x.op \in SubmitOps /\ x.id = m[2] ELSE x = DeliverRpc(m)
    /\ step \in AskingSteps => x = RecoverRpc(m)

(* The delivery goes on with another request.                              *)
LEMMA ContinueKeepsBase ==
    ASSUME BaseInv, FenceKept, HostStands, NEW S \in SUBSET Steps, Answered(S),
           NEW x, NEW step \in Steps \ {"IDLE", "RECONCILE", "APPLY"},
           Continue(x, step), MaySend(x, chan),
           flow.cmd \in Pending, step \in StepsOf(flow.cmd), RpcFits(x, flow.cmd, step),
           UNCHANGED <<outbox, proof, session, request>>, view' \in [Requests -> Histories],
           OutboxKinds', PlayerKnows'
    PROVE  BaseInv'
<1>1. /\ chan \in Channels /\ flow.step \notin {"IDLE", "APPLY"} /\ answer[chan] # None
      /\ chan' = chan
  BY ReadingFacts DEF Continue, Send, Got
<1>2. /\ flow \in [cmd : Commands \cup {None}, step : Steps, log : Histories]
      /\ flow.log = <<>> /\ flow.cmd \in Commands
  BY <1>1 DEF BaseInv, TypeOK, FlowFits, Pending
<1>3. /\ flow' \in [cmd : Commands \cup {None}, step : Steps, log : Histories]
      /\ flow'.cmd = flow.cmd /\ flow'.step = step /\ flow'.log = <<>>
  BY <1>2 DEF Continue
<1>4. OutboxGrows /\ Pending' = Pending
  BY DEF OutboxGrows, Pending
<1>5. PlayerTyped
  BY <1>3 DEF PlayerTyped, BaseInv, TypeOK
<1>6. /\ WireFits /\ sent'[chan'] = x /\ answer'[chan'] = None
      /\ \A d \in Channels \ {chan'} : sent'[d] \in {sent[d], None}
  <2>1. x \in Rpcs
    BY DEF MaySend
  <2> QED BY <1>1, <2>1, SendingWire DEF Continue
<1>7. SendsOwned
  BY <1>1, <1>4, <1>6, SendingIsOwned
<1>8. FlowFits'
  BY <1>1, <1>2, <1>3, <1>4, CommandIsNotNone, FenceAssumption DEF FlowFits
<1>9. SentFits'
  <2>1. DeliverRpc(flow.cmd)' = DeliverRpc(flow.cmd)
        /\ RecoverRpc(flow.cmd)' = RecoverRpc(flow.cmd)
    BY <1>3 DEF DeliverRpc, RecoverRpc
  <2>2. /\ step \notin {"IDLE", "RECONCILE", "APPLY"}
    OBVIOUS
  <2> QED BY <1>3, <1>6, <2>1, <2>2 DEF SentFits, RpcFits
<1> QED BY <1>4, <1>5, <1>6, <1>7, <1>8, <1>9, PlayerKeepsBase

LEMMA ReconcilesKeepsBase ==
    ASSUME BaseInv, FenceKept, PlayerReconciles
    PROVE  BaseInv'
<1> DEFINE S == {"RECONCILE"}
<1>1. /\ Answered(S) /\ Got.kind = "ACK"
      /\ UNCHANGED <<outbox, proof, session, request>> /\ HostStands
      /\ IF request # None THEN Advance(request, Got.log) ELSE UNCHANGED view
      /\ IF flow.cmd = None THEN Finish ELSE Continue(RecoverRpc(flow.cmd), "RECOVER")
  BY DEF PlayerReconciles, PlayerOnly, HostStands
<1>2. S \in SUBSET Steps
  BY DEF Steps
<1> HIDE DEF S
<1>3. flow.step = "RECONCILE" /\ Subject = request
  BY <1>1, <1>2, ReadingFacts DEF S, Subject
<1>4. /\ OutboxKinds' /\ PlayerKnows' /\ OutboxGrows
      /\ outbox' \in [Commands -> {"NONE", "PENDING", "ACK", "ABSENT", "SETTLED"}]
      /\ proof' \in [Commands -> 0..MaxCampaign]
      /\ session' \in Attempts \cup {None}
      /\ request' \in Requests \cup {None}
      /\ view' \in [Requests -> Histories]
  <2>1. CASE request = None
    <3>1. UNCHANGED playerVars
      BY <1>1, <2>1 DEF playerVars
    <3> QED BY <1>1, <3>1, StandingKnowledge
  <2>2. CASE request # None
    <3>1. request \in Requests /\ outbox[SUBMIT(request)] = "ACK"
      BY <2>2 DEF BaseInv, TypeOK, PlayerKnows
    <3>2. Got.log \in Histories /\ Extends(log[request], Got.log)
      BY <1>1, <1>2, <1>3, <2>2, ReadingFacts
    <3> QED BY <1>1, <2>2, <3>1, <3>2, AdvanceKeepsKnowledge
  <2> QED BY <2>1, <2>2
<1>5. CASE flow.cmd = None
  <2>1. NoSend /\ flow' = Idle
    BY <1>1, <1>5 DEF Finish
  <2>2. WireFits /\ SendsOwned /\ SentFits'
    BY <1>1, <1>2, <2>1, SilentWire
  <2>3. PlayerTyped
    BY <1>4, <2>1, FlowTyped DEF PlayerTyped
  <2> QED BY <1>1, <1>4, <2>1, <2>2, <2>3, IdleFits, PlayerKeepsBase
<1>6. CASE flow.cmd # None
  <2>1. Continue(RecoverRpc(flow.cmd), "RECOVER")
    BY <1>1, <1>6
  <2>2. flow.cmd \in Pending /\ flow.cmd \in Commands /\ "RECONCILE" \in StepsOf(flow.cmd)
    BY <1>3, <1>6 DEF BaseInv, FlowFits, Pending
  <2>3. "RECOVER" \in StepsOf(flow.cmd)
    BY <2>2, CommandForms DEF StepsOf, Steps
  <2>4. "RECOVER" \in Steps \ {"IDLE", "RECONCILE", "APPLY"}
    BY DEF Steps
  <2>5. RpcFits(RecoverRpc(flow.cmd), flow.cmd, "RECOVER")
    BY DEF RpcFits
  <2>6. MaySend(RecoverRpc(flow.cmd), chan)
    BY <2>2, MayAsk
  <2> HIDE DEF S
  <2> QED
    BY <1>1, <1>2, <1>4, <2>1, <2>2, <2>3, <2>4, <2>5, <2>6, ContinueKeepsBase
<1> QED BY <1>5, <1>6

LEMMA BatchKeepsBase ==
    ASSUME BaseInv, FenceKept, PlayerSendsBatch
    PROVE  BaseInv'
<1> DEFINE S == {"DELIVER", "REDELIVER"}
           m == flow.cmd
<1>1. /\ Answered(S) /\ m[1] = "SUBMIT" /\ UNCHANGED playerVars /\ HostStands
      /\ \/ Got.kind = "READY" /\ Continue(Rpc("CHUNK", m[2], session), flow.step)
         \/ Got.kind = "CHUNK_OK" /\ Continue(Rpc("COMMIT", m[2], session), flow.step)
  BY DEF PlayerSendsBatch, PlayerOnly, HostStands
<1>2. S \in SUBSET Steps
  BY DEF Steps
<1>3. /\ flow.step \in S /\ m \in Commands /\ m \in Pending /\ chan # NoChannel
      /\ Got # None
  BY <1>1, <1>2, ReadingFacts
<1>4. m[2] \in Requests /\ m = SUBMIT(m[2]) /\ outbox[m] = "PENDING"
  BY <1>1, <1>3, CommandForms DEF Pending
<1>5. session \in Attempts /\ session # None
  BY <1>4 DEF BaseInv, PlayerKnows, TypeOK
<1>6. stage[chan] = None \/ stage[chan].request = m[2]
  BY <1>1, <1>3 DEF BaseInv, AnswerFits, Got
<1>7. ASSUME NEW op \in StageOps, Continue(Rpc(op, m[2], session), flow.step)
      PROVE  BaseInv'
  <2>1. MaySend(Rpc(op, m[2], session), chan)
    BY <1>4, <1>5, <1>6, <1>7, RpcTyped DEF MaySend, AttemptOps, SubmitOps, StageOps
  <2>2. RpcFits(Rpc(op, m[2], session), m, flow.step)
    BY <1>1, <1>3, <1>4, <1>5, RpcTyped DEF RpcFits, SubmitOps, StageOps, AskingSteps
  <2>3. flow.step \in Steps \ {"IDLE", "RECONCILE", "APPLY"} /\ flow.step \in StepsOf(m)
    BY <1>1, <1>3 DEF Steps, StepsOf
  <2>4. UNCHANGED <<outbox, proof, session, request>> /\ view' \in [Requests -> Histories]
        /\ OutboxKinds' /\ PlayerKnows'
    BY <1>1, StandingKnowledge DEF playerVars
  <2> HIDE DEF S
  <2> QED BY <1>1, <1>2, <1>3, <1>7, <2>1, <2>2, <2>3, <2>4, ContinueKeepsBase
<1> QED BY <1>1, <1>7 DEF StageOps

LEMMA RepeatKeepsBase ==
    ASSUME BaseInv, FenceKept, PlayerRedelivers \/ PlayerRechecks
    PROVE  BaseInv'
<1> DEFINE m == flow.cmd
<1>0. UNCHANGED playerVars /\ HostStands
  BY DEF PlayerRedelivers, PlayerRechecks, PlayerOnly, HostStands
<1>u. UNCHANGED <<outbox, proof, session, request>> /\ view' \in [Requests -> Histories]
      /\ OutboxKinds' /\ PlayerKnows'
  BY <1>0, StandingKnowledge DEF playerVars
<1>1. CASE PlayerRedelivers
  <2> DEFINE S == {"RECOVER", "RECOVER_AGAIN"}
  <2>1. /\ Answered(S) /\ m[1] \in {"SUBMIT", "CANCEL"}
        /\ Continue(DeliverRpc(m), "REDELIVER")
    BY <1>1 DEF PlayerRedelivers
  <2>2. S \in SUBSET Steps
    BY DEF Steps
  <2>3. m \in Commands /\ m \in Pending
    BY <2>1, <2>2, ReadingFacts
  <2>4. MaySend(DeliverRpc(m), chan)
    BY <2>3, MayAsk
  <2>5. RpcFits(DeliverRpc(m), m, "REDELIVER")
    <3>1. CASE m[1] = "SUBMIT"
      <4>1. DeliverRpc(m) = Rpc("BEGIN", m[2], session)
        BY <3>1 DEF DeliverRpc
      <4> QED BY <3>1, <4>1 DEF RpcFits, Rpc, SubmitOps, AskingSteps
    <3>2. CASE m[1] # "SUBMIT"
      BY <3>2 DEF RpcFits, AskingSteps
    <3> QED BY <3>1, <3>2
  <2>6. "REDELIVER" \in Steps \ {"IDLE", "RECONCILE", "APPLY"} /\ "REDELIVER" \in StepsOf(m)
    BY <2>1 DEF Steps, StepsOf
  <2> HIDE DEF S
  <2> QED BY <1>0, <1>u, <2>1, <2>2, <2>3, <2>4, <2>5, <2>6, ContinueKeepsBase
<1>2. CASE PlayerRechecks
  <2> DEFINE S == Steps \ {"RECONCILE", "LASTCHECK"}
             step == CASE flow.step = "DELIVER" -> "RECHECK"
                       [] flow.step = "RECOVER" -> "RECOVER_AGAIN"
                       [] OTHER -> "LASTCHECK"
  <2>1. Answered(S) /\ m[1] = "CANCEL" /\ Continue(RecoverRpc(m), step)
    BY <1>2 DEF PlayerRechecks
  <2>2. m \in Commands /\ m \in Pending
    BY <2>1, ReadingFacts
  <2>3. step \in AskingSteps
    BY DEF AskingSteps
  <2> HIDE DEF step
  <2>4. MaySend(RecoverRpc(m), chan)
    BY <2>2, MayAsk
  <2>5. RpcFits(RecoverRpc(m), m, step)
    BY <2>3 DEF RpcFits, AskingSteps
  <2>6. step \in Steps \ {"IDLE", "RECONCILE", "APPLY"} /\ step \in StepsOf(m)
    BY <2>1, <2>3 DEF Steps, StepsOf, AskingSteps
  <2> QED BY <1>0, <1>u, <2>1, <2>2, <2>4, <2>5, <2>6, ContinueKeepsBase
<1> QED BY <1>1, <1>2

\* Only one command of the outbox changes.
LEMMA OneCommandChanges ==
    ASSUME TypeOK, NEW m \in Commands,
           NEW v \in {"NONE", "PENDING", "ACK", "ABSENT", "SETTLED"},
           outbox' = [outbox EXCEPT ![m] = v]
    PROVE  /\ outbox' \in [Commands -> {"NONE", "PENDING", "ACK", "ABSENT", "SETTLED"}]
           /\ outbox'[m] = v
           /\ \A n \in Commands \ {m} : outbox'[n] = outbox[n]
           /\ \A a \in Attempts : OPEN(a) # m => outbox'[OPEN(a)] = outbox[OPEN(a)]
           /\ \A r \in Requests : SUBMIT(r) # m => outbox'[SUBMIT(r)] = outbox[SUBMIT(r)]
           /\ \A r \in Requests : CANCEL(r) # m => outbox'[CANCEL(r)] = outbox[CANCEL(r)]
<1>1. outbox \in [Commands -> {"NONE", "PENDING", "ACK", "ABSENT", "SETTLED"}]
  BY DEF TypeOK
<1>2. /\ outbox' \in [Commands -> {"NONE", "PENDING", "ACK", "ABSENT", "SETTLED"}]
      /\ outbox'[m] = v
      /\ \A n \in Commands \ {m} : outbox'[n] = outbox[n]
  BY <1>1
<1> QED BY <1>2, CommandForms

LEMMA EndsOpenKeepsBase ==
    ASSUME BaseInv, FenceKept, PlayerEndsOpen
    PROVE  BaseInv'
<1> DEFINE m == flow.cmd
           S == {"DELIVER", "RECOVER"}
<1>1. /\ Answered(S) /\ m[1] = "OPEN" /\ NoSend /\ flow' = Idle
      /\ UNCHANGED <<proof, request, view>> /\ HostStands
      /\ \/ /\ Got.kind = "ACK" /\ session' = m[2]
            /\ outbox' = [outbox EXCEPT ![m] = "ACK"]
         \/ /\ session' = session
            /\ outbox' = [outbox EXCEPT ![m] = "ABSENT"]
  BY DEF PlayerEndsOpen, PlayerOnly, HostStands, Finish
<1>2. S \in SUBSET Steps
  BY DEF Steps
<1>3. /\ flow.step # "RECONCILE" /\ chan # NoChannel /\ Got # None
      /\ m \in Commands /\ m \in Pending
  BY <1>1, <1>2, ReadingFacts
<1>4. m[2] \in Attempts /\ m = OPEN(m[2]) /\ outbox[m] = "PENDING"
  BY <1>1, <1>3, CommandForms DEF Pending
<1>5. session = None /\ \A n \in Commands : outbox[n] = "PENDING" => n = m
  BY <1>3, <1>4 DEF BaseInv, PlayerKnows, OutboxKinds, Pending
<1>6. Got.kind = "ACK" => m[2] \in opened
  BY <1>1, <1>3 DEF BaseInv, AnswerFits, Got
<1>h. UNCHANGED <<opened, submitted, log>>
  BY <1>1 DEF HostStands, hostVars
<1> HIDE DEF m
<1>7. /\ outbox' \in [Commands -> {"NONE", "PENDING", "ACK", "ABSENT", "SETTLED"}]
      /\ \A n \in Commands \ {m} : outbox'[n] = outbox[n]
      /\ \A a \in Attempts \ {m[2]} : outbox'[OPEN(a)] = outbox[OPEN(a)]
      /\ \A r \in Requests : outbox'[SUBMIT(r)] = outbox[SUBMIT(r)]
                             /\ outbox'[CANCEL(r)] = outbox[CANCEL(r)]
      /\ \/ outbox'[m] = "ACK" /\ session' = m[2] /\ m[2] \in opened
         \/ outbox'[m] = "ABSENT" /\ session' = None
  BY <1>1, <1>3, <1>4, <1>5, <1>6, OneCommandChanges, CommandsDiffer DEF BaseInv
<1>8. OutboxKinds'
  <2>1. Pending' = {}
    BY <1>5, <1>7 DEF Pending
  <2>2. outbox'[OPEN(m[2])] # "SETTLED"
    BY <1>4, <1>7
  <2> QED BY <1>7, <2>1, <2>2 DEF BaseInv, OutboxKinds
<1>9. PlayerKnows'
  <2>1. ASSUME NEW a \in Attempts
        PROVE  /\ outbox'[OPEN(a)] = "ACK" <=> session' = a
               /\ outbox'[OPEN(a)] = "ACK" => a \in opened'
               /\ outbox'[OPEN(a)] = "PENDING" => session' = None
    <3>1. CASE a = m[2]
      BY <1>h, <1>4, <1>7, <3>1, NoneIsNoId
    <3>2. CASE a # m[2]
      <4>1. outbox[OPEN(a)] \notin {"ACK", "PENDING"}
        <5>1. outbox[OPEN(a)] # "ACK"
          BY <1>5, NoneIsNoId DEF BaseInv, PlayerKnows
        <5>2. outbox[OPEN(a)] # "PENDING"
          BY <1>4, <1>5, <3>2, CommandForms, CommandsDiffer
        <5> QED BY <5>1, <5>2
      <4> QED BY <1>7, <3>2, <4>1, NoneIsNoId
    <3> QED BY <3>1, <3>2
  <2>2. \A r \in Requests : outbox[SUBMIT(r)] = "NONE" /\ outbox[CANCEL(r)] = "NONE"
    BY <1>5 DEF BaseInv, PlayerKnows
  <2>3. request = None
    BY <2>2 DEF BaseInv, PlayerKnows, TypeOK
  <2>4. \A r \in Requests : view[r] = <<>> /\ Extends(log[r], view[r])
    BY <2>2 DEF BaseInv, PlayerKnows
  <2> QED BY <1>1, <1>h, <1>7, <2>1, <2>2, <2>3, <2>4 DEF PlayerKnows
<1>10. OutboxGrows
  <2>1. \A n \in Commands : outbox[n] # "NONE" => outbox'[n] # "NONE"
    BY <1>7
  <2> QED BY <1>5, <1>7, <2>1 DEF OutboxGrows
<1>11. PlayerTyped
  BY <1>1, <1>4, <1>7, FlowTyped DEF PlayerTyped, BaseInv, TypeOK
<1>12. WireFits /\ SendsOwned /\ SentFits'
  <2> HIDE DEF S
  <2> QED BY <1>1, <1>2, SilentWire
<1> QED BY <1>1, <1>8, <1>9, <1>10, <1>11, <1>12, IdleFits, PlayerKeepsBase

LEMMA EndsSubmitKeepsBase ==
    ASSUME BaseInv, FenceKept, PlayerEndsSubmit
    PROVE  BaseInv'
<1> DEFINE m == flow.cmd
           S == {"DELIVER", "REDELIVER", "RECOVER"}
<1>1. /\ Answered(S) /\ m[1] = "SUBMIT" /\ Got.kind = "ACK" /\ NoSend
      /\ outbox' = [outbox EXCEPT ![m] = "ACK"]
      /\ request' = m[2]
      /\ view' = [view EXCEPT ![m[2]] = <<>>]
      /\ flow' = IF Got.log = <<>> THEN Idle
                                   ELSE [Flow(m, "APPLY") EXCEPT !.log = Got.log]
      /\ UNCHANGED <<proof, session>> /\ HostStands
  BY DEF PlayerEndsSubmit, PlayerOnly, HostStands
<1>2. S \in SUBSET Steps
  BY DEF Steps
<1>3. /\ flow.step # "RECONCILE" /\ chan # NoChannel /\ Got.log \in Histories
      /\ m \in Commands /\ m \in Pending
  BY <1>1, <1>2, ReadingFacts
<1>4. m[2] \in Requests /\ m = SUBMIT(m[2]) /\ outbox[m] = "PENDING"
  BY <1>1, <1>3, CommandForms DEF Pending
<1>5. /\ \A n \in Commands : outbox[n] = "PENDING" => n = m
      /\ session # None /\ outbox[CANCEL(m[2])] = "NONE"
  BY <1>3, <1>4 DEF BaseInv, OutboxKinds, PlayerKnows, Pending
<1>6. m[2] \in submitted /\ Extends(log[m[2]], Got.log)
  <2>1. Subject = m[2] /\ Subject # None
    BY <1>1, <1>3, <1>4, NoneIsNoId DEF Subject
  <2> QED BY <1>1, <1>2, <2>1, ReadingFacts
<1>h. UNCHANGED <<opened, submitted, log>>
  BY <1>1 DEF HostStands, hostVars
<1>w. WireFits /\ SendsOwned /\ SentFits'
  <2> HIDE DEF S
  <2> QED BY <1>1, <1>2, SilentWire
<1>f. /\ flow' \in [cmd : Commands \cup {None}, step : Steps, log : Histories]
      /\ \/ flow' = Idle
         \/ flow'.cmd = m /\ flow'.step = "APPLY" /\ flow'.log = Got.log
  <2>1. CASE Got.log = <<>>
    BY <1>1, <2>1, FlowTyped
  <2>2. CASE Got.log # <<>>
    <3>1. Flow(m, "APPLY") \in [cmd : Commands \cup {None}, step : Steps, log : Histories]
          /\ Flow(m, "APPLY").cmd = m /\ Flow(m, "APPLY").step = "APPLY"
      BY <1>3, FlowTyped DEF Steps
    <3>2. flow' = [Flow(m, "APPLY") EXCEPT !.log = Got.log]
      BY <1>1, <2>2
    <3> QED BY <1>3, <3>1, <3>2
  <2> QED BY <2>1, <2>2
<1> HIDE DEF m
<1>7. /\ outbox' \in [Commands -> {"NONE", "PENDING", "ACK", "ABSENT", "SETTLED"}]
      /\ outbox'[m] = "ACK"
      /\ \A n \in Commands \ {m} : outbox'[n] = outbox[n]
      /\ \A r \in Requests \ {m[2]} : outbox'[SUBMIT(r)] = outbox[SUBMIT(r)]
      /\ \A r \in Requests : outbox'[CANCEL(r)] = outbox[CANCEL(r)]
      /\ \A a \in Attempts : outbox'[OPEN(a)] = outbox[OPEN(a)]
  <2>1. TypeOK /\ outbox' = [outbox EXCEPT ![m] = "ACK"]
    BY <1>1 DEF BaseInv
  <2>2. /\ outbox' \in [Commands -> {"NONE", "PENDING", "ACK", "ABSENT", "SETTLED"}]
        /\ outbox'[m] = "ACK"
        /\ \A n \in Commands \ {m} : outbox'[n] = outbox[n]
        /\ \A a \in Attempts : OPEN(a) # m => outbox'[OPEN(a)] = outbox[OPEN(a)]
        /\ \A r \in Requests : SUBMIT(r) # m => outbox'[SUBMIT(r)] = outbox[SUBMIT(r)]
        /\ \A r \in Requests : CANCEL(r) # m => outbox'[CANCEL(r)] = outbox[CANCEL(r)]
    BY <1>3, <2>1, OneCommandChanges
  <2>3. (\A a \in Attempts : OPEN(a) # m) /\ (\A r \in Requests : CANCEL(r) # m)
        /\ \A r \in Requests \ {m[2]} : SUBMIT(r) # m
    BY <1>4, CommandsDiffer
  <2> QED BY <2>2, <2>3
<1>8. /\ view' \in [Requests -> Histories] /\ view'[m[2]] = <<>>
      /\ \A r \in Requests \ {m[2]} : view'[r] = view[r]
  BY <1>1, <1>4, HistoryValues DEF BaseInv, TypeOK
<1>9. Pending' = {}
  BY <1>5, <1>7 DEF Pending
<1>10. OutboxKinds'
  BY <1>4, <1>7, <1>9 DEF BaseInv, OutboxKinds
<1>11. PlayerKnows'
  <2>1. \A a \in Attempts :
        /\ outbox'[OPEN(a)] = "ACK" <=> session' = a
        /\ outbox'[OPEN(a)] = "ACK" => a \in opened'
        /\ outbox'[OPEN(a)] = "PENDING" => session' = None
    BY <1>1, <1>h, <1>7 DEF BaseInv, PlayerKnows
  <2>2. request' # None => outbox'[SUBMIT(request')] = "ACK"
    BY <1>1, <1>4, <1>7
  <2>3. ASSUME NEW q \in Requests
        PROVE  /\ outbox'[SUBMIT(q)] # "NONE" => session' # None
               /\ outbox'[SUBMIT(q)] = "ACK" => q \in submitted'
               /\ outbox'[SUBMIT(q)] # "ACK" => view'[q] = <<>>
               /\ outbox'[CANCEL(q)] # "NONE" => outbox'[SUBMIT(q)] = "ACK"
               /\ outbox'[CANCEL(q)] = "PENDING" => request' = q
               /\ outbox'[CANCEL(q)] = "ACK" => log'[q] = <<"CANCELLED">>
               /\ outbox'[CANCEL(q)] = "SETTLED" =>
                    view'[q] # <<>> /\ log'[q] # <<"CANCELLED">>
               /\ Extends(log'[q], view'[q])
    <3>0. outbox'[CANCEL(q)] # "PENDING"
      <4>1. CANCEL(q) \in Commands /\ CANCEL(q) # m
        BY <1>4, CommandForms, CommandsDiffer
      <4> QED BY <1>5, <1>7, <4>1
    <3>1. CASE q = m[2]
      <4>1. Extends(log[q], <<>>)
        BY ExtendsItself DEF BaseInv, TypeOK
      <4> QED BY <1>1, <1>h, <1>4, <1>5, <1>6, <1>7, <1>8, <3>0, <3>1, <4>1
    <3>2. CASE q # m[2]
      BY <1>1, <1>h, <1>7, <1>8, <3>0, <3>2 DEF BaseInv, PlayerKnows
    <3> QED BY <3>1, <3>2
  <2> QED BY <2>1, <2>2, <2>3 DEF PlayerKnows
<1>12. OutboxGrows
  <2>1. \A n \in Commands : outbox[n] # "NONE" => outbox'[n] # "NONE"
    BY <1>7
  <2> QED BY <1>1, <1>7, <2>1 DEF OutboxGrows
<1>13. PlayerTyped
  BY <1>1, <1>4, <1>7, <1>8, <1>f DEF PlayerTyped, BaseInv, TypeOK
<1>14. FlowFits'
  <2>1. CASE flow' = Idle
    BY <2>1, IdleFits
  <2>2. CASE flow'.cmd = m /\ flow'.step = "APPLY" /\ flow'.log = Got.log
    <3>1. "APPLY" \in StepsOf(m) /\ m # None
      BY <1>3, <1>4, CommandForms, CommandIsNotNone DEF StepsOf
    <3>2. request' = m[2] /\ request' # None /\ m = SUBMIT(request')
      BY <1>1, <1>4, NoneIsNoId
    <3>3. chan' = chan
      BY <1>1 DEF NoSend
    <3>4. Extends(log'[request'], Got.log)
      BY <1>h, <1>6, <3>2
    <3> QED BY <1>3, <1>9, <2>2, <3>1, <3>2, <3>3, <3>4 DEF FlowFits
  <2> QED BY <1>f, <2>1, <2>2
<1> QED BY <1>1, <1>10, <1>11, <1>12, <1>13, <1>14, <1>w, PlayerKeepsBase

LEMMA AppliesKeepsBase ==
    ASSUME BaseInv, FenceKept, PlayerAppliesCurrent
    PROVE  BaseInv'
<1>1. /\ flow.step = "APPLY" /\ Advance(request, flow.log) /\ flow' = Idle
      /\ UNCHANGED <<outbox, proof, session, request, link, sent, answer, chan, lastChan>>
      /\ HostStands
  BY DEF PlayerAppliesCurrent, PlayerOnly, HostStands, wireVars
<1>2. /\ request \in Requests /\ flow.log \in Histories
      /\ outbox[SUBMIT(request)] = "ACK" /\ Extends(log[request], flow.log)
  BY <1>1 DEF BaseInv, FlowFits, PlayerKnows, TypeOK
<1>3. /\ OutboxKinds' /\ PlayerKnows' /\ OutboxGrows
      /\ outbox' \in [Commands -> {"NONE", "PENDING", "ACK", "ABSENT", "SETTLED"}]
      /\ proof' \in [Commands -> 0..MaxCampaign]
      /\ session' \in Attempts \cup {None}
      /\ request' \in Requests \cup {None}
      /\ view' \in [Requests -> Histories]
  BY <1>1, <1>2, AdvanceKeepsKnowledge
<1>4. PlayerTyped
  BY <1>1, <1>3, FlowTyped DEF PlayerTyped
<1>5. SendsOwned
  BY <1>1 DEF SendsOwned
<1>6. chan # NoChannel => sent[chan] = None /\ answer[chan] = None
  BY <1>1, ChannelOrder
<1>7. SentFits' /\ AnswerFits'
  BY <1>1, <1>6 DEF SentFits, AnswerFits
<1>8. WireFits
  <2>1. UNCHANGED <<registered, down, table, opened, busy>>
    BY <1>1 DEF HostStands, hostVars, fenceVars, channelVars, scopeVars
  <2>2. ChannelsInOrder' /\ BusyInside'
    BY <1>1, <2>1 DEF BaseInv, ChannelsInOrder, BusyInside
  <2> QED BY <1>1, <1>7, <2>2 DEF WireFits, BaseInv, TypeOK
<1> QED BY <1>1, <1>3, <1>4, <1>5, <1>7, <1>8, IdleFits, PlayerKeepsBase

LEMMA EndsCancelKeepsBase ==
    ASSUME BaseInv, FenceKept, PlayerEndsCancel
    PROVE  BaseInv'
<1> DEFINE m == flow.cmd
           S == Steps \ {"RECONCILE"}
<1>1. /\ Answered(S) /\ m[1] = "CANCEL" /\ Got = Reply("ACK", <<"CANCELLED">>)
      /\ outbox' = [outbox EXCEPT ![m] = "ACK"]
      /\ view' = [view EXCEPT ![m[2]] = <<"CANCELLED">>]
      /\ NoSend /\ flow' = Idle
      /\ UNCHANGED <<proof, session, request>> /\ HostStands
  BY DEF PlayerEndsCancel, PlayerOnly, HostStands, Finish
<1>2. S \in SUBSET Steps
  OBVIOUS
<1>3. m \in Commands /\ m \in Pending
  BY <1>1, <1>2, ReadingFacts
<1>4. /\ m[2] \in Requests /\ m = CANCEL(m[2]) /\ outbox[m] = "PENDING"
      /\ m[2] \in submitted /\ outbox[SUBMIT(m[2])] = "ACK"
      /\ \A n \in Commands : outbox[n] = "PENDING" => n = m
  BY <1>1, <1>3, PendingCancel
<1>5. log[m[2]] = <<"CANCELLED">>
  <2>1. Subject = m[2] /\ Subject # None
    BY <1>1, <1>2, <1>3, CancelSubject
  <2>2. Got.kind = "ACK" /\ Got.log = <<"CANCELLED">>
    BY <1>1, ReplyTyped
  <2>3. Extends(log[m[2]], <<"CANCELLED">>) /\ log[m[2]] \in Histories
    BY <1>1, <1>2, <1>4, <2>1, <2>2, ReadingFacts DEF BaseInv, TypeOK
  <2> QED BY <2>3, ExtendsTable, HistoryValues
<1>w. WireFits /\ SendsOwned /\ SentFits'
  <2> HIDE DEF S
  <2> QED BY <1>1, <1>2, SilentWire
<1>h. UNCHANGED <<opened, submitted, log>>
  BY <1>1 DEF HostStands, hostVars
<1> HIDE DEF m
<1>7. /\ outbox' \in [Commands -> {"NONE", "PENDING", "ACK", "ABSENT", "SETTLED"}]
      /\ outbox'[m] = "ACK"
      /\ \A n \in Commands \ {m} : outbox'[n] = outbox[n]
      /\ \A r \in Requests \ {m[2]} : outbox'[CANCEL(r)] = outbox[CANCEL(r)]
      /\ \A r \in Requests : outbox'[SUBMIT(r)] = outbox[SUBMIT(r)]
      /\ \A a \in Attempts : outbox'[OPEN(a)] = outbox[OPEN(a)]
  <2>1. TypeOK /\ outbox' = [outbox EXCEPT ![m] = "ACK"]
    BY <1>1 DEF BaseInv
  <2>2. /\ outbox' \in [Commands -> {"NONE", "PENDING", "ACK", "ABSENT", "SETTLED"}]
        /\ outbox'[m] = "ACK"
        /\ \A n \in Commands \ {m} : outbox'[n] = outbox[n]
        /\ \A a \in Attempts : OPEN(a) # m => outbox'[OPEN(a)] = outbox[OPEN(a)]
        /\ \A r \in Requests : SUBMIT(r) # m => outbox'[SUBMIT(r)] = outbox[SUBMIT(r)]
        /\ \A r \in Requests : CANCEL(r) # m => outbox'[CANCEL(r)] = outbox[CANCEL(r)]
    BY <1>3, <2>1, OneCommandChanges
  <2>3. (\A a \in Attempts : OPEN(a) # m) /\ (\A r \in Requests : SUBMIT(r) # m)
        /\ \A r \in Requests \ {m[2]} : CANCEL(r) # m
    BY <1>4, CommandsDiffer
  <2> QED BY <2>2, <2>3
<1>8. /\ view' \in [Requests -> Histories] /\ view'[m[2]] = <<"CANCELLED">>
      /\ \A r \in Requests \ {m[2]} : view'[r] = view[r]
  BY <1>1, <1>4, HistoryValues DEF BaseInv, TypeOK
<1>9. Pending' = {}
  BY <1>4, <1>7 DEF Pending
<1>10. OutboxKinds'
  <2>1. \A r \in Requests : outbox'[CANCEL(r)] # "ABSENT"
    BY <1>4, <1>7 DEF BaseInv, OutboxKinds
  <2> QED BY <1>7, <1>9, <2>1 DEF BaseInv, OutboxKinds
<1>11. PlayerKnows'
  <2>1. \A a \in Attempts :
        /\ outbox'[OPEN(a)] = "ACK" <=> session' = a
        /\ outbox'[OPEN(a)] = "ACK" => a \in opened'
        /\ outbox'[OPEN(a)] = "PENDING" => session' = None
    BY <1>1, <1>h, <1>7 DEF BaseInv, PlayerKnows
  <2>2. request' # None => outbox'[SUBMIT(request')] = "ACK"
    BY <1>1, <1>7 DEF BaseInv, PlayerKnows, TypeOK
  <2>3. ASSUME NEW q \in Requests
        PROVE  /\ outbox'[SUBMIT(q)] # "NONE" => session' # None
               /\ outbox'[SUBMIT(q)] = "ACK" => q \in submitted'
               /\ outbox'[SUBMIT(q)] # "ACK" => view'[q] = <<>>
               /\ outbox'[CANCEL(q)] # "NONE" => outbox'[SUBMIT(q)] = "ACK"
               /\ outbox'[CANCEL(q)] = "PENDING" => request' = q
               /\ outbox'[CANCEL(q)] = "ACK" => log'[q] = <<"CANCELLED">>
               /\ outbox'[CANCEL(q)] = "SETTLED" =>
                    view'[q] # <<>> /\ log'[q] # <<"CANCELLED">>
               /\ Extends(log'[q], view'[q])
    <3>1. CASE q = m[2]
      <4>1. Extends(<<"CANCELLED">>, <<"CANCELLED">>)
        BY ExtendsItself, HistoryValues
      <4>2. outbox'[CANCEL(q)] = "ACK"
        BY <1>4, <1>7, <3>1
      <4> QED
        BY <1>1, <1>h, <1>4, <1>5, <1>7, <1>8, <3>1, <4>1, <4>2 DEF BaseInv, PlayerKnows
    <3>2. CASE q # m[2]
      BY <1>1, <1>h, <1>7, <1>8, <3>2 DEF BaseInv, PlayerKnows
    <3> QED BY <3>1, <3>2
  <2> QED BY <2>1, <2>2, <2>3 DEF PlayerKnows
<1>12. OutboxGrows
  <2>1. \A n \in Commands : outbox[n] # "NONE" => outbox'[n] # "NONE"
    BY <1>7
  <2>2. outbox'[CANCEL(m[2])] = "ACK"
    BY <1>4, <1>7
  <2> QED BY <1>1, <1>7, <2>1, <2>2 DEF OutboxGrows
<1>13. PlayerTyped
  BY <1>1, <1>7, <1>8, FlowTyped DEF PlayerTyped, BaseInv, TypeOK
<1> QED BY <1>1, <1>10, <1>11, <1>12, <1>13, <1>w, IdleFits, PlayerKeepsBase

(* A new command: the intent is stored and its request goes out.           *)
LEMMA StartsKeepsBase ==
    ASSUME BaseInv, FenceKept, HostStands, NEW m \in Commands,
           flow = Idle, Pending = {}, outbox[m] = "NONE",
           outbox' = [outbox EXCEPT ![m] = "PENDING"],
           proof' \in [Commands -> 0..MaxCampaign],
           UNCHANGED <<session, request, view>>,
           flow' = Flow(m, "DELIVER"),
           Send(DeliverRpc(m)) \/ ConnectAndSend(DeliverRpc(m)),
           m[1] = "OPEN" <=> session = None,
           m[1] = "CANCEL" => request = m[2] /\ outbox[SUBMIT(m[2])] = "ACK"
    PROVE  BaseInv'
<1>h. UNCHANGED <<opened, submitted, log>>
  BY DEF HostStands, hostVars
<1>t. /\ session \in Attempts \cup {None} /\ request \in Requests \cup {None}
      /\ submitted \subseteq Requests /\ TypeOK
  BY DEF BaseInv, TypeOK
<1>m. \/ m[1] = "OPEN" /\ m[2] \in Attempts /\ m = OPEN(m[2]) /\ session = None
      \/ /\ m[1] = "SUBMIT" /\ m[2] \in Requests /\ m = SUBMIT(m[2])
         /\ session \in Attempts /\ session # None
      \/ /\ m[1] = "CANCEL" /\ m[2] \in Requests /\ m = CANCEL(m[2])
         /\ session \in Attempts /\ session # None
         /\ request = m[2] /\ outbox[SUBMIT(m[2])] = "ACK" /\ m[2] \in submitted
  BY <1>t, CommandForms DEF BaseInv, PlayerKnows
<1>1. /\ outbox' \in [Commands -> {"NONE", "PENDING", "ACK", "ABSENT", "SETTLED"}]
      /\ outbox'[m] = "PENDING"
      /\ \A n \in Commands \ {m} : outbox'[n] = outbox[n]
      /\ \A a \in Attempts : OPEN(a) # m => outbox'[OPEN(a)] = outbox[OPEN(a)]
      /\ \A r \in Requests : SUBMIT(r) # m => outbox'[SUBMIT(r)] = outbox[SUBMIT(r)]
      /\ \A r \in Requests : CANCEL(r) # m => outbox'[CANCEL(r)] = outbox[CANCEL(r)]
  BY <1>t, OneCommandChanges
<1>2. Pending' = {m}
  BY <1>1 DEF Pending
<1>3. /\ flow' \in [cmd : Commands \cup {None}, step : Steps, log : Histories]
      /\ flow'.cmd = m /\ flow'.step = "DELIVER" /\ flow'.log = <<>> /\ m # None
  BY FlowTyped, CommandIsNotNone DEF Steps
<1>4. /\ DeliverRpc(m) \in Rpcs
      /\ m[1] = "OPEN" => DeliverRpc(m).op = "OPEN" /\ DeliverRpc(m).id = m[2]
      /\ m[1] = "SUBMIT" =>
            /\ DeliverRpc(m).op = "BEGIN" /\ DeliverRpc(m).id = m[2]
            /\ DeliverRpc(m).session = session
      /\ m[1] = "CANCEL" =>
            /\ DeliverRpc(m).op = "CANCEL" /\ DeliverRpc(m).id = m[2]
            /\ DeliverRpc(m).session = session
  <2>1. DeliverRpc(m) = CASE m[1] = "OPEN"   -> Rpc("OPEN", m[2], None)
                          [] m[1] = "SUBMIT" -> Rpc("BEGIN", m[2], session)
                          [] m[1] = "CANCEL" -> Rpc("CANCEL", m[2], session)
    BY DEF DeliverRpc
  <2>2. CASE m[1] = "OPEN"
    BY <1>m, <2>1, <2>2, RpcTyped DEF AttemptOps
  <2>3. CASE m[1] = "SUBMIT"
    BY <1>m, <2>1, <2>3, RpcTyped
  <2>4. CASE m[1] = "CANCEL"
    BY <1>m, <2>1, <2>4, RpcTyped
  <2> QED BY <1>m, <2>2, <2>3, <2>4
<1> DEFINE x == DeliverRpc(m)
<1>5. /\ WireFits /\ chan' \in Channels /\ sent'[chan'] = x /\ answer'[chan'] = None
      /\ \A d \in Channels \ {chan'} : sent'[d] \in {sent[d], None}
  <2>1. flow.step = "IDLE"
    BY FlowTyped
  <2> QED BY <1>4, <2>1, SendingWire
<1>6. x.op \notin StageOps
      /\ (x.op \in AttemptOps => m[1] = "OPEN") /\ (x.op \in SubmitOps => m[1] = "SUBMIT")
      /\ (x.op = "CANCEL" => m[1] = "CANCEL") /\ (m[1] = "OPEN" => x.op \in AttemptOps)
  BY <1>4, <1>m DEF StageOps, AttemptOps, SubmitOps
<1>7. OutboxGrows
  <2>1. \A n \in Commands : outbox[n] # "NONE" => outbox'[n] # "NONE"
    BY <1>1
  <2>2. \A r \in Requests : outbox[CANCEL(r)] # "NONE" => outbox'[CANCEL(r)] = outbox[CANCEL(r)]
    BY <1>1
  <2> QED BY <2>1, <2>2 DEF OutboxGrows
<1>8. SendsOwned
  <2> SUFFICES ASSUME NEW d \in Channels, d = chan' PROVE Owned(d)'
    BY <1>5 DEF SendsOwned
  <2>1. sent'[d] = x
    BY <1>5
  <2>2. /\ x.op \in AttemptOps => outbox'[OPEN(x.id)] # "NONE"
        /\ x.op \notin AttemptOps => session' # None /\ x.session = session'
        /\ x.op \in SubmitOps => outbox'[SUBMIT(x.id)] # "NONE"
        /\ x.op = "CANCEL" => outbox'[CANCEL(x.id)] # "NONE" /\ x.id \in submitted'
    BY <1>h, <1>m, <1>1, <1>4, <1>6
  <2> HIDE DEF x
  <2> QED BY <1>6, <2>1, <2>2 DEF Owned
<1>9. SentFits'
  <2>1. DeliverRpc(m)' = DeliverRpc(m)
    BY DEF DeliverRpc
  <2>2. m[1] = "SUBMIT" => x.op \in SubmitOps /\ x.id = m[2]
    BY <1>4 DEF SubmitOps
  <2> QED BY <1>3, <1>5, <2>1, <2>2 DEF SentFits, AskingSteps
<1> HIDE DEF x
<1>10. OutboxKinds'
  <2>1. /\ \A a \in Attempts : outbox'[OPEN(a)] # "SETTLED"
        /\ \A r \in Requests : outbox'[SUBMIT(r)] \in {"NONE", "PENDING", "ACK"}
        /\ \A r \in Requests : outbox'[CANCEL(r)] # "ABSENT"
    BY <1>1 DEF BaseInv, OutboxKinds
  <2> QED BY <1>2, <2>1 DEF OutboxKinds
<1>11. PlayerKnows'
  <2>1. ASSUME NEW a \in Attempts
        PROVE  /\ outbox'[OPEN(a)] = "ACK" <=> session' = a
               /\ outbox'[OPEN(a)] = "ACK" => a \in opened'
               /\ outbox'[OPEN(a)] = "PENDING" => session' = None
    <3>1. CASE OPEN(a) = m
      <4>1. session = None
        BY <1>m, <3>1, CommandsDiffer
      <4> QED BY <1>1, <3>1, <4>1, NoneIsNoId
    <3>2. CASE OPEN(a) # m
      BY <1>h, <1>1, <3>2 DEF BaseInv, PlayerKnows
    <3> QED BY <3>1, <3>2
  <2>2. request' # None => outbox'[SUBMIT(request')] = "ACK"
    <3>1. request # None => outbox[SUBMIT(request)] = "ACK" /\ request \in Requests
      BY <1>t DEF BaseInv, PlayerKnows
    <3>2. request # None => SUBMIT(request) # m
      BY <3>1
    <3> QED BY <1>1, <3>1, <3>2
  <2>3. ASSUME NEW q \in Requests
        PROVE  /\ outbox'[SUBMIT(q)] # "NONE" => session' # None
               /\ outbox'[SUBMIT(q)] = "ACK" => q \in submitted'
               /\ outbox'[SUBMIT(q)] # "ACK" => view'[q] = <<>>
               /\ outbox'[CANCEL(q)] # "NONE" => outbox'[SUBMIT(q)] = "ACK"
               /\ outbox'[CANCEL(q)] = "PENDING" => request' = q
               /\ outbox'[CANCEL(q)] = "ACK" => log'[q] = <<"CANCELLED">>
               /\ outbox'[CANCEL(q)] = "SETTLED" =>
                    view'[q] # <<>> /\ log'[q] # <<"CANCELLED">>
               /\ Extends(log'[q], view'[q])
    <3>0. /\ outbox[SUBMIT(q)] # "NONE" => session # None
          /\ outbox[SUBMIT(q)] = "ACK" => q \in submitted
          /\ outbox[SUBMIT(q)] # "ACK" => view[q] = <<>>
          /\ outbox[CANCEL(q)] # "NONE" => outbox[SUBMIT(q)] = "ACK"
          /\ outbox[CANCEL(q)] = "PENDING" => request = q
          /\ outbox[CANCEL(q)] = "ACK" => log[q] = <<"CANCELLED">>
          /\ outbox[CANCEL(q)] = "SETTLED" => view[q] # <<>> /\ log[q] # <<"CANCELLED">>
          /\ Extends(log[q], view[q])
      BY DEF BaseInv, PlayerKnows
    <3>1. CASE SUBMIT(q) = m
      <4>1. session # None /\ CANCEL(q) # m
        BY <1>m, <3>1, CommandsDiffer
      <4> QED BY <1>h, <1>1, <3>0, <3>1, <4>1
    <3>2. CASE CANCEL(q) = m
      <4>1. session # None /\ SUBMIT(q) # m /\ q = m[2] /\ request = q
            /\ outbox[SUBMIT(q)] = "ACK"
        BY <1>m, <3>2, CommandsDiffer
      <4> QED BY <1>h, <1>1, <3>0, <3>2, <4>1
    <3>3. CASE SUBMIT(q) # m /\ CANCEL(q) # m
      BY <1>h, <1>1, <3>0, <3>3
    <3> QED BY <3>1, <3>2, <3>3
  <2> QED BY <2>1, <2>2, <2>3 DEF PlayerKnows
<1>12. FlowFits'
  <2>1. "DELIVER" \in StepsOf(m)
    BY <1>m DEF StepsOf, Steps
  <2>2. chan' # NoChannel
    BY <1>5, FenceAssumption
  <2> QED BY <1>2, <1>3, <2>1, <2>2 DEF FlowFits
<1>13. PlayerTyped
  BY <1>1, <1>3 DEF PlayerTyped, BaseInv, TypeOK
<1> QED BY <1>5, <1>7, <1>8, <1>9, <1>10, <1>11, <1>12, <1>13, PlayerKeepsBase

LEMMA NewCommandKeepsBase ==
    ASSUME BaseInv, FenceKept,
           \/ \E a \in Attempts : PlayerOpens(a)
           \/ \E r \in Requests : PlayerSubmits(r)
           \/ PlayerCancels
    PROVE  BaseInv'
<1>t. /\ proof \in [Commands -> 0..MaxCampaign] /\ campaign \in 0..MaxCampaign
      /\ request \in Requests \cup {None}
  BY AdmissionAssumption DEF BaseInv, TypeOK
<1>1. ASSUME NEW a \in Attempts, PlayerOpens(a) PROVE BaseInv'
  <2> DEFINE m == OPEN(a)
  <2>1. m \in Commands /\ m[1] = "OPEN" /\ m[2] = a
    BY CommandForms
  <2>2. DeliverRpc(m) = Rpc("OPEN", a, None)
    BY <2>1 DEF DeliverRpc
  <2>3. /\ flow = Idle /\ Pending = {} /\ outbox[m] = "NONE" /\ session = None
        /\ outbox' = [outbox EXCEPT ![m] = "PENDING"]
        /\ proof' = [proof EXCEPT ![m] = campaign]
        /\ UNCHANGED <<session, request, view>> /\ HostStands
        /\ flow' = Flow(m, "DELIVER") /\ ConnectAndSend(DeliverRpc(m))
    BY <1>1, <2>2 DEF PlayerOpens, HostStands
  <2>4. proof' \in [Commands -> 0..MaxCampaign]
    BY <1>t, <2>3
  <2> HIDE DEF m
  <2> QED BY <2>1, <2>3, <2>4, StartsKeepsBase
<1>2. ASSUME NEW r \in Requests, PlayerSubmits(r) PROVE BaseInv'
  <2> DEFINE m == SUBMIT(r)
  <2>1. m \in Commands /\ m[1] = "SUBMIT" /\ m[2] = r
    BY CommandForms
  <2>3. /\ flow = Idle /\ Pending = {} /\ outbox[m] = "NONE" /\ session # None
        /\ outbox' = [outbox EXCEPT ![m] = "PENDING"]
        /\ proof' = [proof EXCEPT ![m] = campaign]
        /\ UNCHANGED <<session, request, view>> /\ HostStands
        /\ flow' = Flow(m, "DELIVER") /\ Send(DeliverRpc(m))
    BY <1>2 DEF PlayerSubmits, HostStands
  <2>4. proof' \in [Commands -> 0..MaxCampaign]
    BY <1>t, <2>3
  <2> HIDE DEF m
  <2> QED BY <2>1, <2>3, <2>4, StartsKeepsBase
<1>3. CASE PlayerCancels
  <2> DEFINE m == CANCEL(request)
  <2>0. request # None /\ request \in Requests
    BY <1>t, <1>3 DEF PlayerCancels
  <2>1. m \in Commands /\ m[1] = "CANCEL" /\ m[2] = request
    BY <2>0, CommandForms
  <2>2. outbox[SUBMIT(request)] = "ACK" /\ session # None
    BY <2>0 DEF BaseInv, PlayerKnows
  <2>3. /\ flow = Idle /\ Pending = {} /\ outbox[m] = "NONE"
        /\ outbox' = [outbox EXCEPT ![m] = "PENDING"]
        /\ UNCHANGED <<proof, session, request, view>> /\ HostStands
        /\ flow' = Flow(m, "DELIVER") /\ Send(DeliverRpc(m))
    BY <1>3 DEF PlayerCancels, HostStands
  <2>4. proof' \in [Commands -> 0..MaxCampaign]
    BY <1>t, <2>3
  <2> HIDE DEF m
  <2> QED BY <2>1, <2>2, <2>3, <2>4, StartsKeepsBase
<1> QED BY <1>1, <1>2, <1>3

(* The player asks the host again.                                         *)
LEMMA AsksKeepsBase ==
    ASSUME BaseInv, FenceKept, HostStands, UNCHANGED playerVars, flow = Idle,
           NEW m, NEW x, NEW step,
           flow' = Flow(m, step), Send(x) \/ ConnectAndSend(x),
           \/ m \in Pending /\ step = "RECOVER" /\ x = RecoverRpc(m)
           \/ /\ m = None \/ (m \in Pending /\ m[1] # "OPEN")
              /\ step = "RECONCILE" /\ x = ReconcileRpc /\ session # None
    PROVE  BaseInv'
<1>1. MaySend(x, chan') /\ x \in Rpcs
  BY MayAsk DEF MaySend
<1>2. m \in Commands \cup {None} /\ (m # None => m \in Pending /\ m \in Commands)
  BY CommandIsNotNone DEF Pending
<1>3. /\ flow' \in [cmd : Commands \cup {None}, step : Steps, log : Histories]
      /\ flow'.cmd = m /\ flow'.step = step /\ flow'.log = <<>>
  BY <1>2, FlowTyped DEF Steps
<1>4. /\ WireFits /\ chan' \in Channels /\ sent'[chan'] = x /\ answer'[chan'] = None
      /\ \A d \in Channels \ {chan'} : sent'[d] \in {sent[d], None}
  <2>1. flow.step = "IDLE"
    BY FlowTyped
  <2> QED BY <1>1, <2>1, SendingWire
<1>5. OutboxKinds' /\ PlayerKnows' /\ OutboxGrows /\ PlayerTyped /\ Pending' = Pending
  BY <1>3, StandingKnowledge DEF PlayerTyped
<1>6. SendsOwned
  BY <1>1, <1>4, <1>5, SendingIsOwned
<1>7. FlowFits'
  <2>1. m # None => step \in StepsOf(m)
    BY <1>2, CommandForms DEF StepsOf, Steps
  <2>2. chan' # NoChannel /\ session' = session
    BY <1>4, FenceAssumption DEF playerVars
  <2>3. m = None => step = "RECONCILE"
    BY <1>2, CommandIsNotNone DEF Pending
  <2> QED BY <1>2, <1>3, <1>5, <2>1, <2>2, <2>3 DEF FlowFits
<1>8. SentFits'
  <2>1. /\ RecoverRpc(m)' = RecoverRpc(m) /\ ReconcileRpc' = ReconcileRpc
    BY DEF RecoverRpc, ReconcileRpc, playerVars
  <2> QED BY <1>3, <1>4, <2>1 DEF SentFits, AskingSteps
<1> QED BY <1>4, <1>5, <1>6, <1>7, <1>8, PlayerKeepsBase

LEMMA AskingKeepsBase ==
    ASSUME BaseInv, FenceKept, PlayerRecovers \/ PlayerRefreshes
    PROVE  BaseInv'
<1>1. HostStands /\ UNCHANGED playerVars /\ flow = Idle
  BY DEF PlayerRecovers, PlayerRefreshes, HostStands
<1>2. CASE PlayerRecovers
  <2> DEFINE m == PendingCommand
  <2>1. m \in Pending
    BY <1>2 DEF PlayerRecovers, PendingCommand
  <2>2. \/ (Send(RecoverRpc(m)) \/ ConnectAndSend(RecoverRpc(m)))
           /\ flow' = Flow(m, "RECOVER")
        \/ /\ m[1] # "OPEN"
           /\ ConnectAndSend(ReconcileRpc) /\ flow' = Flow(m, "RECONCILE")
    BY <1>2 DEF PlayerRecovers
  <2> HIDE DEF m
  <2>3. m[1] # "OPEN" => session # None
    <3>1. m \in Commands /\ outbox[m] = "PENDING"
      BY <2>1 DEF Pending
    <3>2. m[1] = "SUBMIT" => session # None
      BY <3>1, CommandForms DEF BaseInv, PlayerKnows
    <3>3. m[1] = "CANCEL" => session # None
      BY <2>1, PendingCancel
    <3> QED BY <3>1, <3>2, <3>3, CommandForms
  <2>4. CASE /\ flow' = Flow(m, "RECOVER")
             /\ Send(RecoverRpc(m)) \/ ConnectAndSend(RecoverRpc(m))
    BY <1>1, <2>1, <2>4, AsksKeepsBase
  <2>5. CASE /\ m[1] # "OPEN"
             /\ ConnectAndSend(ReconcileRpc) /\ flow' = Flow(m, "RECONCILE")
    BY <1>1, <2>1, <2>3, <2>5, AsksKeepsBase
  <2> QED BY <2>2, <2>4, <2>5
<1>3. CASE PlayerRefreshes
  <2>1. /\ session # None /\ flow' = Flow(None, "RECONCILE")
        /\ Send(ReconcileRpc) \/ ConnectAndSend(ReconcileRpc)
    BY <1>3 DEF PlayerRefreshes
  <2> QED BY <1>1, <2>1, AsksKeepsBase
<1> QED BY <1>2, <1>3

-----------------------------------------------------------------------------
LEMMA InitEstablishesBase == Init => BaseInv
<1> SUFFICES ASSUME Init PROVE BaseInv
  OBVIOUS
<1>1. FenceInv /\ ClosedIsEmpty
  <2>1. FenceInit
    BY DEF Init
  <2> QED BY <2>1, InitEstablishesInv DEF FenceInit, ClosedIsEmpty
<1>2. /\ opened = {} /\ submitted = {} /\ log = [r \in Requests |-> <<>>] /\ campaign = 1
      /\ stage = [c \in Channels |-> None] /\ busy = NoChannel
      /\ link = [c \in Channels |-> "NONE"]
      /\ sent = [c \in Channels |-> None] /\ answer = [c \in Channels |-> None]
      /\ outbox = [m \in Commands |-> "NONE"] /\ proof = [m \in Commands |-> 0]
      /\ session = None /\ request = None /\ view = [r \in Requests |-> <<>>]
      /\ chan = NoChannel /\ lastChan = 0 /\ flow = Idle
      /\ registered = {} /\ down = {} /\ table = {} /\ transfers = {}
      /\ generation = [k \in Keys |-> 0]
      /\ holder = [k \in Keys |-> NoChannel]
      /\ retired = [k \in Keys |-> {}]
      /\ barrier = [k \in Keys |-> 0]
  BY DEF Init, FenceInit
<1>3. TypeOK
  <2>1. 1 \in 1..MaxCampaign /\ 0 \in 0..MaxCampaign
    BY AdmissionAssumption
  <2> QED BY <1>1, <1>2, <2>1, HistoryValues, FlowTyped DEF TypeOK, FenceInv
<1>4. AbsentIsBlank /\ ChannelsInOrder /\ BusyInside
  BY <1>2 DEF AbsentIsBlank, ChannelsInOrder, BusyInside
<1>5. StagesTracked
  <2>1. Staging = {}
    BY <1>2 DEF Staging
  <2>2. IsFiniteSet(Staging) /\ Cardinality(Staging) <= MaxTransfers
    BY <2>1, FS_EmptySet, AdmissionAssumption
  <2> QED BY <1>2, <2>2 DEF StagesTracked
<1>6. \A m \in Commands : outbox[m] = "NONE"
  BY <1>2
<1>7. /\ \A a \in Attempts : outbox[OPEN(a)] = "NONE"
      /\ \A r \in Requests : outbox[SUBMIT(r)] = "NONE" /\ outbox[CANCEL(r)] = "NONE"
  BY <1>6, CommandForms
<1>8. HostOwned
  BY <1>2, <1>7, HistoryValues DEF HostOwned
<1>9. OutboxKinds
  BY <1>6, <1>7 DEF OutboxKinds, Pending
<1>10. PlayerKnows
  <2>1. \A r \in Requests : Extends(log[r], view[r])
    BY <1>2, HistoryValues, ExtendsItself
  <2> QED BY <1>2, <1>7, <2>1, NoneIsNoId DEF PlayerKnows
<1>11. FlowFits
  BY <1>2, FlowTyped DEF FlowFits
<1>12. SentFits /\ AnswerFits /\ OneActiveRequest
  BY <1>2 DEF SentFits, AnswerFits, OneActiveRequest
<1> QED
  BY <1>1, <1>3, <1>4, <1>5, <1>8, <1>9, <1>10, <1>11, <1>12 DEF BaseInv

LEMMA PlayerKeepsAll ==
    ASSUME BaseInv, FenceKept, PlayerStep
    PROVE  BaseInv'
<1>1. CASE PlayerReads
  BY <1>1, SettlesKeepsBase, ReconcilesKeepsBase, UnconfirmedKeepsBase, EndsOpenKeepsBase,
     BatchKeepsBase, EndsSubmitKeepsBase, AppliesKeepsBase, EndsCancelKeepsBase,
     RepeatKeepsBase
  DEF PlayerReads
<1> QED
  BY <1>1, NewCommandKeepsBase, AskingKeepsBase, LeavesKeepsBase DEF PlayerStep

LEMMA NextKeepsBase ==
    ASSUME BaseInv, [Next]_vars
    PROVE  BaseInv' /\ FenceKept
<1>1. FenceKept
  <2>1. [FenceNext]_fenceVars
    BY StepIsFenceStep DEF BaseInv
  <2> QED BY <2>1, FenceKeeps DEF BaseInv
<1>2. ASSUME NEW c \in Channels,
             \/ HostAcceptsProof(c) \/ HostLosesProof(c)
             \/ HostServes(c) \/ HostLosesChannel(c)
      PROVE  BaseInv'
  BY <1>1, <1>2, AcceptKeepsBase, LostProofKeepsBase, ServeKeepsBase, LossKeepsBase
<1>3. ASSUME NEW r \in Requests, NEW status \in {"IN_REVIEW", "REJECTED"},
             GmDecides(r, status)
      PROVE  BaseInv'
  BY <1>1, <1>3, DecisionKeepsBase
<1>4. CASE HostStarts \/ CampaignAdvances \/ UNCHANGED vars
  BY <1>1, <1>4, QuietHostKeepsBase
<1>5. CASE HostStops
  BY <1>1, <1>5, StopKeepsBase
<1>6. CASE PlayerStep
  BY <1>1, <1>6, PlayerKeepsAll
<1> QED BY <1>1, <1>2, <1>3, <1>4, <1>5, <1>6 DEF Next, PlayerStep

-----------------------------------------------------------------------------
(***************************************************************************)
(* What holds whatever arrives late.                                       *)
(***************************************************************************)

(* The inductive invariant of both sides and of the wire between them.     *)
THEOREM BaseInvariant == Spec => []BaseInv
<1>1. BaseInv /\ [Next]_vars => BaseInv'
  BY NextKeepsBase
<1> QED BY <1>1, InitEstablishesBase, PTL DEF Spec

(* Every variable of host, wire and player keeps its type, and neither     *)
(* side meets a message, a stage or a history it has no handling for.      *)
THEOREM AdmissionTypeCorrect == Spec => []TypeOK
<1>1. BaseInv => TypeOK
  BY DEF BaseInv
<1> QED BY <1>1, BaseInvariant, PTL

(* The host uses the fence of ScopeFence as that module allows, so that    *)
(* everything proved there of leases and generations holds here.           *)
THEOREM AdmissionImplementsFence == Spec => FenceSpec
<1>1. Init => FenceInit
  BY DEF Init
<1>2. BaseInv /\ [Next]_vars => [FenceNext]_fenceVars
  BY StepIsFenceStep DEF BaseInv
<1> QED BY <1>1, <1>2, BaseInvariant, PTL DEF Spec, FenceSpec

(* A channel shut out of a scope never gets it back, in the whole protocol. *)
THEOREM FencedStaysOutOfSession == Spec => []FencedStaysOut
<1> QED BY AdmissionImplementsFence, FenceIsFinal, PTL

(* What the player recorded exists on the host, whatever the order in      *)
(* which replies, reconciliations and decisions came in.                   *)
THEOREM PlayerStaysBehindHost == Spec => []PlayerNeverAheadOfHost
<1>1. BaseInv => PlayerNeverAheadOfHost
  BY DEF BaseInv, PlayerKnows, PlayerNeverAheadOfHost
<1> QED BY <1>1, BaseInvariant, PTL

(* A CANCEL and the decision of the GM: exactly one of them wins, and the  *)
(* player is told which.                                                   *)
THEOREM CancelOutcomesAreTrue == Spec => []CancelOutcomeIsTrue
<1>1. ASSUME BaseInv, NEW r \in Requests, outbox[CANCEL(r)] = "SETTLED"
      PROVE  /\ log[r] # <<>> /\ Status(log[r]) # "CANCELLED"
             /\ view[r] # <<>> /\ Extends(log[r], view[r])
  <2>1. /\ log[r] \in Histories /\ view[r] \in Histories
        /\ view[r] # <<>> /\ log[r] # <<"CANCELLED">> /\ Extends(log[r], view[r])
    BY <1>1 DEF BaseInv, TypeOK, PlayerKnows
  <2>2. log[r] # <<>>
    BY <2>1, ExtendsTable, HistoryValues
  <2>3. Status(log[r]) # "CANCELLED"
    BY <2>1, <2>2, StatusTable DEF Histories
  <2> QED BY <2>1, <2>2, <2>3
<1>2. BaseInv => CancelOutcomeIsTrue
  BY <1>1 DEF BaseInv, PlayerKnows, CancelOutcomeIsTrue
<1> QED BY <1>2, BaseInvariant, PTL

(* However often a SUBMIT is repeated, a session has one active request.   *)
THEOREM RequestsTakeTurns == Spec => []OneActiveRequest
<1>1. BaseInv => OneActiveRequest
  BY DEF BaseInv
<1> QED BY <1>1, BaseInvariant, PTL

(* The RAM stages and the leases they were begun under stay together.      *)
THEOREM StagesFollowLeases == Spec => []StageFollowsLease
<1>1. BaseInv => StageFollowsLease
  <2> SUFFICES ASSUME BaseInv PROVE StageFollowsLease
    OBVIOUS
  <2>1. ASSUME NEW c \in Channels, stage[c] # None
        PROVE  StageOf(c) \in transfers /\ Leased(c, StageOf(c).key)
    <3>1. StageOf(c) \in transfers /\ StageOf(c).channel = c
      BY <2>1 DEF BaseInv, StagesTracked, StageOf
    <3> QED BY <3>1 DEF BaseInv, FenceInv, TransfersFollowLease
  <2> QED BY <2>1 DEF BaseInv, StagesTracked, StageFollowsLease
<1> QED BY <1>1, BaseInvariant, PTL

\* One step of the player's journal.
OutcomesStand ==
    /\ \A m \in Commands :
        outbox[m] \in {"ACK", "ABSENT", "SETTLED"} => outbox'[m] = outbox[m]
    /\ \A r \in Requests : Extends(view'[r], view[r])

LEMMA JournalStands ==
    ASSUME BaseInv, UNCHANGED <<outbox, view>>
    PROVE  OutcomesStand
<1>1. \A r \in Requests : view[r] \in Histories
  BY DEF BaseInv, TypeOK
<1> QED BY <1>1, ExtendsItself DEF OutcomesStand

(* A command that has no outcome yet changes, and one view advances.       *)
LEMMA JournalGrows ==
    ASSUME BaseInv, NEW m \in Commands, outbox[m] \in {"NONE", "PENDING"},
           NEW v \in {"PENDING", "ACK", "ABSENT", "SETTLED"},
           outbox' = [outbox EXCEPT ![m] = v],
           \A r \in Requests : Extends(view'[r], view[r])
    PROVE  OutcomesStand
  BY OneCommandChanges DEF BaseInv, OutcomesStand

LEMMA AdvanceExtends ==
    ASSUME BaseInv, NEW r \in Requests, NEW h \in Histories,
           Advance(r, h) \/ UNCHANGED view
    PROVE  \A q \in Requests : Extends(view'[q], view[q])
<1>1. view \in [Requests -> Histories]
  BY DEF BaseInv, TypeOK
<1>2. CASE UNCHANGED view
  BY <1>1, <1>2, ExtendsItself
<1>3. CASE view' = [view EXCEPT ![r] = h] /\ Extends(h, view[r])
  BY <1>1, <1>3, ExtendsItself
<1> QED BY <1>2, <1>3 DEF Advance

LEMMA ReadingGrows ==
    ASSUME BaseInv, PlayerReads
    PROVE  OutcomesStand
<1>t. view \in [Requests -> Histories] /\ request \in Requests \cup {None}
      /\ flow.log \in Histories
  BY DEF BaseInv, TypeOK
<1>1. CASE PlayerSettlesCancel
  <2> DEFINE m == PendingCommand
             S == {"RECONCILE", "RECOVER", "RECOVER_AGAIN", "RECHECK", "LASTCHECK"}
  <2>1. /\ m \in Pending /\ m[1] = "CANCEL" /\ Answered(S) /\ Advance(m[2], Got.log)
        /\ outbox' = [outbox EXCEPT ![m] = "SETTLED"]
    BY <1>1 DEF PlayerSettlesCancel, CancelLost, PendingCommand
  <2>2. m \in Commands /\ outbox[m] = "PENDING"
    BY <2>1 DEF Pending
  <2>3. m[2] \in Requests
    BY <2>1, PendingCancel
  <2>4. Got.log \in Histories
    <3>1. S \in SUBSET Steps
      BY DEF Steps
    <3> HIDE DEF S
    <3> QED BY <2>1, <3>1, ReadingFacts
  <2> HIDE DEF m
  <2>5. \A q \in Requests : Extends(view'[q], view[q])
    BY <2>1, <2>3, <2>4, AdvanceExtends
  <2> QED BY <2>1, <2>2, <2>5, JournalGrows
<1>2. CASE PlayerReconciles
  <2>1. Answered({"RECONCILE"}) /\ UNCHANGED outbox
        /\ IF request # None THEN Advance(request, Got.log) ELSE UNCHANGED view
    BY <1>2 DEF PlayerReconciles
  <2>2. Got.log \in Histories
    <3>1. {"RECONCILE"} \in SUBSET Steps
      BY DEF Steps
    <3> QED BY <2>1, <3>1, ReadingFacts
  <2>3. CASE request = None
    BY <2>1, <2>3, JournalStands
  <2>4. CASE request # None
    BY <1>t, <2>1, <2>2, <2>4, AdvanceExtends DEF OutcomesStand
  <2> QED BY <2>3, <2>4
<1>3. CASE PlayerEndsOpen
  <2> DEFINE m == flow.cmd
             S == {"DELIVER", "RECOVER"}
  <2>1. /\ Answered(S) /\ UNCHANGED view
        /\ \E v \in {"ACK", "ABSENT"} : outbox' = [outbox EXCEPT ![m] = v]
    BY <1>3 DEF PlayerEndsOpen
  <2>2. m \in Commands /\ outbox[m] = "PENDING"
    <3>1. S \in SUBSET Steps /\ flow.step # "RECONCILE"
      BY <2>1 DEF Steps, Answered
    <3> HIDE DEF S
    <3> QED BY <2>1, <3>1, ReadingFacts DEF Pending
  <2>3. \A q \in Requests : Extends(view'[q], view[q])
    BY <1>t, <2>1, ExtendsItself
  <2> QED BY <2>1, <2>2, <2>3, JournalGrows
<1>4. CASE PlayerEndsSubmit
  <2> DEFINE m == flow.cmd
             S == {"DELIVER", "REDELIVER", "RECOVER"}
  <2>1. /\ Answered(S) /\ m[1] = "SUBMIT" /\ view' = [view EXCEPT ![m[2]] = <<>>]
        /\ outbox' = [outbox EXCEPT ![m] = "ACK"]
    BY <1>4 DEF PlayerEndsSubmit
  <2>2. m \in Commands /\ outbox[m] = "PENDING"
    <3>1. S \in SUBSET Steps /\ flow.step # "RECONCILE"
      BY <2>1 DEF Steps, Answered
    <3> HIDE DEF S
    <3> QED BY <2>1, <3>1, ReadingFacts DEF Pending
  <2>3. view[m[2]] = <<>>
    <3>1. m[2] \in Requests /\ m = SUBMIT(m[2])
      BY <2>1, <2>2, CommandForms
    <3>2. outbox[SUBMIT(m[2])] # "ACK"
      BY <2>2, <3>1
    <3> QED BY <3>1, <3>2 DEF BaseInv, PlayerKnows
  <2>4. \A q \in Requests : Extends(view'[q], view[q])
    BY <1>t, <2>1, <2>3, ExtendsItself
  <2> QED BY <2>1, <2>2, <2>4, JournalGrows
<1>5. CASE PlayerAppliesCurrent
  <2>1. UNCHANGED outbox /\ Advance(request, flow.log) /\ request \in Requests
    BY <1>t, <1>5 DEF PlayerAppliesCurrent, BaseInv, FlowFits
  <2> QED BY <1>t, <2>1, AdvanceExtends DEF OutcomesStand
<1>6. CASE PlayerEndsCancel
  <2> DEFINE m == flow.cmd
             S == Steps \ {"RECONCILE"}
  <2>1. /\ Answered(S) /\ m[1] = "CANCEL" /\ Got = Reply("ACK", <<"CANCELLED">>)
        /\ view' = [view EXCEPT ![m[2]] = <<"CANCELLED">>]
        /\ outbox' = [outbox EXCEPT ![m] = "ACK"]
    BY <1>6 DEF PlayerEndsCancel
  <2>s. S \in SUBSET Steps /\ flow.step # "RECONCILE"
    BY <2>1 DEF Answered
  <2> HIDE DEF S
  <2>2. m \in Commands /\ m \in Pending /\ outbox[m] = "PENDING"
    BY <2>1, <2>s, ReadingFacts DEF Pending
  <2>3. m[2] \in Requests /\ m[2] \in submitted
    BY <2>1, <2>2, PendingCancel
  <2>4. Extends(<<"CANCELLED">>, view[m[2]])
    <3>1. Subject = m[2] /\ Subject # None
      BY <2>1, <2>2, <2>s, CancelSubject
    <3>2. Got.kind = "ACK" /\ Got.log = <<"CANCELLED">>
      BY <2>1, ReplyTyped
    <3>3. Extends(log[m[2]], <<"CANCELLED">>)
      BY <2>1, <2>s, <3>1, <3>2, ReadingFacts
    <3>4. /\ log[m[2]] \in Histories /\ view[m[2]] \in Histories
          /\ Extends(log[m[2]], view[m[2]])
      BY <2>3 DEF BaseInv, TypeOK, PlayerKnows
    <3>5. log[m[2]] = <<"CANCELLED">>
      BY <3>3, <3>4, ExtendsTable, HistoryValues
    <3> QED BY <3>4, <3>5
  <2>5. \A q \in Requests : Extends(view'[q], view[q])
    BY <1>t, <2>1, <2>4, ExtendsItself
  <2> QED BY <2>1, <2>2, <2>5, JournalGrows
<1>7. CASE \/ PlayerReconcileFails \/ PlayerSendsBatch \/ PlayerRedelivers
           \/ PlayerRechecks \/ PlayerStaysPending
  BY <1>7, JournalStands
  DEF PlayerReconcileFails, PlayerSendsBatch, PlayerRedelivers, PlayerRechecks,
      PlayerStaysPending, Unconfirmed, playerVars
<1> QED BY <1>1, <1>2, <1>3, <1>4, <1>5, <1>6, <1>7 DEF PlayerReads

LEMMA NextKeepsOutcomes ==
    ASSUME BaseInv, [Next]_vars
    PROVE  OutcomesStand
<1>v. \A q \in Requests : Extends(view[q], view[q])
  BY ExtendsItself DEF BaseInv, TypeOK
<1>1. ASSUME NEW c \in Channels, HostServes(c)
      PROVE  OutcomesStand
  <2>1. UNCHANGED playerVars
    BY <1>1, HostServesFacts DEF BaseInv, ServeFacts
  <2> QED BY <2>1, JournalStands DEF playerVars
<1>2. ASSUME NEW c \in Channels,
             HostAcceptsProof(c) \/ HostLosesProof(c) \/ HostLosesChannel(c)
      PROVE  OutcomesStand
  BY <1>2, JournalStands DEF HostAcceptsProof, HostLosesProof, HostLosesChannel, playerVars
<1>3. CASE \/ \E r \in Requests, status \in {"IN_REVIEW", "REJECTED"} : GmDecides(r, status)
           \/ CampaignAdvances \/ HostStops \/ HostStarts \/ UNCHANGED vars
  BY <1>3, JournalStands
  DEF GmDecides, CampaignAdvances, HostStops, HostStarts, vars, playerVars
<1>4. CASE PlayerRecovers \/ PlayerRefreshes \/ PlayerLeavesChannel
  BY <1>4, JournalStands
  DEF PlayerRecovers, PlayerRefreshes, PlayerLeavesChannel, playerVars
<1>5. CASE PlayerReads
  BY <1>5, ReadingGrows
<1>6. CASE \/ \E a \in Attempts : PlayerOpens(a)
           \/ \E r \in Requests : PlayerSubmits(r)
           \/ PlayerCancels
  <2>1. /\ UNCHANGED view
        /\ \E m \in Commands :
              outbox[m] = "NONE" /\ outbox' = [outbox EXCEPT ![m] = "PENDING"]
    <3>1. request # None => request \in Requests
      BY DEF BaseInv, TypeOK
    <3> QED BY <1>6, <3>1, CommandForms DEF PlayerOpens, PlayerSubmits, PlayerCancels
  <2> QED BY <1>v, <2>1, JournalGrows
<1> QED BY <1>1, <1>2, <1>3, <1>4, <1>5, <1>6 DEF Next

(* No late reply revises an outcome the player saved or shortens the       *)
(* history it was shown.                                                   *)
THEOREM OutcomesStayFinal == Spec => OutcomesAreFinal
<1>1. BaseInv /\ [Next]_vars => OutcomesStand
  BY NextKeepsOutcomes
<1>2. OutcomesStand <=>
        /\ \A m \in Commands :
            outbox[m] \in {"ACK", "ABSENT", "SETTLED"} => outbox'[m] = outbox[m]
        /\ \A r \in Requests : Extends(view'[r], view[r])
  BY DEF OutcomesStand
<1> QED BY <1>1, <1>2, BaseInvariant, PTL DEF Spec, OutcomesAreFinal

-----------------------------------------------------------------------------
(***************************************************************************)
(* What the player sends, and on which channel.                            *)
(***************************************************************************)

\* It stays on its channel, where no request is in flight.
Stays ==
    /\ chan # NoChannel /\ sent[chan] = None
    /\ UNCHANGED <<link, chan, lastChan>>
    /\ \/ sent' = sent
       \/ \E x \in Rpcs : x.op # "OPEN" /\ sent' = [sent EXCEPT ![chan] = x]

\* It connects: for a new attempt, or to reconcile its session.
Connects(x) ==
    /\ ConnectAndSend(x)
    /\ flow.step = "IDLE" /\ flow.cmd = None
    /\ x.op \in FirstOps
    /\ x.op = "OPEN" => outbox[OPEN(x.id)] = "NONE" /\ session = None

PlayerMoves ==
    /\ \A a \in Attempts : Absent(a)' => Absent(a)
    /\ chan' # NoChannel => answer'[chan'] = None
    /\ PlayerLeavesChannel \/ Stays \/ \E x \in Rpcs : Connects(x)
    /\ \/ session' = session
       \/ /\ session = None /\ session' # None /\ Stays
          /\ answer[chan] # None /\ answer[chan].kind = "ACK"
          /\ flow.cmd # None /\ flow.cmd[1] = "OPEN" /\ session' = flow.cmd[2]

\* No answer is left on the player's channel, and no OPEN turns out absent.
LEMMA NothingAbsent ==
    ASSUME chan' # NoChannel => answer'[chan'] = None,
           \A a \in Attempts : outbox'[OPEN(a)] = "ABSENT" => Absent(a)
    PROVE  \A a \in Attempts : Absent(a)' => Absent(a)
  BY DEF Absent

LEMMA AnsweredStays ==
    ASSUME BaseInv, NEW S \in SUBSET Steps, Answered(S),
           \/ NoSend
           \/ \E x \in Rpcs : \E step : x.op # "OPEN" /\ Continue(x, step)
    PROVE  Stays /\ chan' # NoChannel /\ answer'[chan'] = None
<1>1. chan \in Channels /\ chan # NoChannel /\ answer[chan] # None
  BY ReadingFacts DEF Got
<1>2. sent[chan] = None
  BY <1>1, ChannelOrder
<1>3. answer \in [Channels -> Replies \cup {None}]
  BY DEF BaseInv, TypeOK
<1>4. CASE NoSend
  BY <1>1, <1>2, <1>4 DEF NoSend, Stays
<1>5. ASSUME NEW x \in Rpcs, NEW step, x.op # "OPEN", Continue(x, step)
      PROVE  Stays /\ chan' # NoChannel /\ answer'[chan'] = None
  <2>1. /\ sent' = [sent EXCEPT ![chan] = x] /\ UNCHANGED <<link, chan, lastChan>>
        /\ answer' = [answer EXCEPT ![chan] = None]
    BY <1>5 DEF Continue, Send
  <2> QED BY <1>1, <1>2, <1>3, <1>5, <2>1 DEF Stays
<1> QED BY <1>4, <1>5

LEMMA AskingRpcs ==
    ASSUME BaseInv
    PROVE  /\ \A m \in Pending :
                /\ RecoverRpc(m) \in Rpcs
                /\ RecoverRpc(m).op # "OPEN" /\ RecoverRpc(m).op \in FirstOps
                /\ DeliverRpc(m) \in Rpcs
                /\ m[1] # "OPEN" => DeliverRpc(m).op # "OPEN"
           /\ session # None =>
                /\ ReconcileRpc \in Rpcs
                /\ ReconcileRpc.op # "OPEN" /\ ReconcileRpc.op \in FirstOps
<1>1. /\ \A m \in Pending : RecoverRpc(m) \in Rpcs /\ DeliverRpc(m) \in Rpcs
      /\ session # None => ReconcileRpc \in Rpcs
  BY MayAsk DEF MaySend
<1>2. \A m : RecoverRpc(m).op # "OPEN" /\ RecoverRpc(m).op \in FirstOps
  BY DEF RecoverRpc, Rpc, FirstOps
<1>3. ReconcileRpc.op # "OPEN" /\ ReconcileRpc.op \in FirstOps
  BY DEF ReconcileRpc, Rpc, FirstOps
<1>4. \A m \in Pending : m[1] # "OPEN" => DeliverRpc(m).op # "OPEN"
  <2>1. \A m \in Pending : m[1] \in {"OPEN", "SUBMIT", "CANCEL"}
    BY CommandForms DEF Pending
  <2> QED BY <2>1 DEF DeliverRpc, Rpc
<1> QED BY <1>1, <1>2, <1>3, <1>4

LEMMA ReadsMove ==
    ASSUME BaseInv, PlayerReads
    PROVE  PlayerMoves
<1>o. \A m \in Pending, v \in {"ACK", "SETTLED"} :
        outbox' = [outbox EXCEPT ![m] = v] =>
            \A a \in Attempts : outbox'[OPEN(a)] = "ABSENT" => Absent(a)
  <2> SUFFICES ASSUME NEW m \in Pending, NEW v \in {"ACK", "SETTLED"},
                      outbox' = [outbox EXCEPT ![m] = v],
                      NEW a \in Attempts, outbox'[OPEN(a)] = "ABSENT"
               PROVE  Absent(a)
    OBVIOUS
  <2>1. m \in Commands /\ OPEN(a) \in Commands /\ TypeOK
    BY CommandForms DEF Pending, BaseInv
  <2>2. outbox'[m] = v /\ \A n \in Commands \ {m} : outbox'[n] = outbox[n]
    BY <2>1, OneCommandChanges
  <2> QED BY <2>1, <2>2 DEF Absent
<1>u. UNCHANGED outbox => \A a \in Attempts : outbox'[OPEN(a)] = "ABSENT" => Absent(a)
  BY DEF Absent
<1> DEFINE Wire(S) == \/ NoSend
                      \/ \E x \in Rpcs : \E step : x.op # "OPEN" /\ Continue(x, step)
<1>k. ASSUME NEW S \in SUBSET Steps, Answered(S), Wire(S), session' = session,
             \A a \in Attempts : outbox'[OPEN(a)] = "ABSENT" => Absent(a)
      PROVE  PlayerMoves
  <2>1. Stays /\ chan' # NoChannel /\ answer'[chan'] = None
    BY <1>k, AnsweredStays
  <2> QED BY <1>k, <2>1, NothingAbsent DEF PlayerMoves
<1>c. ASSUME NEW S \in SUBSET Steps, Answered(S), flow.step # "RECONCILE"
      PROVE  flow.cmd \in Pending
  BY <1>c, ReadingFacts
<1>1. CASE PlayerSettlesCancel
  <2>1. {"RECONCILE", "RECOVER", "RECOVER_AGAIN", "RECHECK", "LASTCHECK"} \in SUBSET Steps
    BY DEF Steps
  <2>2. PendingCommand \in Pending
    BY <1>1 DEF PlayerSettlesCancel, CancelLost, PendingCommand
  <2>3. /\ Answered({"RECONCILE", "RECOVER", "RECOVER_AGAIN", "RECHECK", "LASTCHECK"})
        /\ NoSend /\ session' = session
        /\ outbox' = [outbox EXCEPT ![PendingCommand] = "SETTLED"]
    BY <1>1 DEF PlayerSettlesCancel, Finish
  <2> QED BY <1>k, <1>o, <2>1, <2>2, <2>3
<1>2. CASE PlayerReconciles
  <2>1. {"RECONCILE"} \in SUBSET Steps
    BY DEF Steps
  <2>2. Answered({"RECONCILE"}) /\ session' = session /\ outbox' = outbox
    BY <1>2 DEF PlayerReconciles
  <2>3. Wire({"RECONCILE"})
    <3>1. CASE flow.cmd = None
      BY <1>2, <3>1 DEF PlayerReconciles, Finish
    <3>2. CASE flow.cmd # None
      <4>1. Continue(RecoverRpc(flow.cmd), "RECOVER")
        BY <1>2, <3>2 DEF PlayerReconciles
      <4>2. flow.cmd \in Pending
        BY <2>2, <3>2 DEF BaseInv, FlowFits, Answered
      <4> QED BY <4>1, <4>2, AskingRpcs
    <3> QED BY <3>1, <3>2
  <2> QED BY <1>k, <1>u, <2>1, <2>2, <2>3
<1>3. CASE PlayerReconcileFails \/ PlayerStaysPending
  <2>1. {"RECONCILE"} \subseteq Steps /\ {"DELIVER", "REDELIVER", "RECOVER"} \subseteq Steps
        /\ {"RECHECK", "LASTCHECK"} \subseteq Steps /\ {"LASTCHECK"} \subseteq Steps
    BY DEF Steps
  <2>2. NoSend /\ session' = session /\ outbox' = outbox
    BY <1>3 DEF PlayerReconcileFails, PlayerStaysPending, Unconfirmed, Finish, playerVars
  <2>3. \E S \in SUBSET Steps : Answered(S)
    BY <1>3, <2>1 DEF PlayerReconcileFails, PlayerStaysPending
  <2> QED BY <1>k, <1>u, <2>2, <2>3
<1>4. CASE PlayerEndsOpen
  <2> DEFINE S == {"DELIVER", "RECOVER"}
             m == flow.cmd
  <2>1. S \in SUBSET Steps
    BY DEF Steps
  <2>2. /\ Answered(S) /\ NoSend /\ m[1] = "OPEN"
        /\ \/ /\ Got.kind = "ACK" /\ session' = m[2]
              /\ outbox' = [outbox EXCEPT ![m] = "ACK"]
           \/ /\ Got.kind = "NOT_FOUND" /\ session' = session
              /\ outbox' = [outbox EXCEPT ![m] = "ABSENT"]
    BY <1>4 DEF PlayerEndsOpen, Finish
  <2>3. /\ flow.step \in S /\ m \in Commands /\ m \in Pending /\ chan # NoChannel
        /\ answer[chan] # None /\ Got = answer[chan]
    <3> HIDE DEF S
    <3>1. flow.step \in S /\ chan # NoChannel /\ Got # None
      BY <2>1, <2>2, ReadingFacts
    <3>2. flow.step # "RECONCILE"
      BY <3>1 DEF S
    <3> QED BY <2>1, <2>2, <3>1, <3>2, ReadingFacts DEF Got
  <2>4. m[2] \in Attempts /\ m = OPEN(m[2]) /\ outbox[m] = "PENDING"
    BY <2>2, <2>3, CommandForms DEF Pending
  <2>5. session = None
    BY <2>4 DEF BaseInv, PlayerKnows
  <2> HIDE DEF S
  <2>6. Stays /\ chan' # NoChannel /\ answer'[chan'] = None
    BY <2>1, <2>2, AnsweredStays
  <2>7. CASE Got.kind = "ACK" /\ session' = m[2] /\ outbox' = [outbox EXCEPT ![m] = "ACK"]
    <3>1. \A a \in Attempts : outbox'[OPEN(a)] = "ABSENT" => Absent(a)
      BY <1>o, <2>3, <2>7
    <3> QED
      BY <2>2, <2>3, <2>4, <2>5, <2>6, <2>7, <3>1, NothingAbsent, CommandIsNotNone, NoneIsNoId
      DEF PlayerMoves
  <2>8. CASE /\ Got.kind = "NOT_FOUND" /\ session' = session
             /\ outbox' = [outbox EXCEPT ![m] = "ABSENT"]
    <3>1. \A a \in Attempts : outbox'[OPEN(a)] = "ABSENT" => Absent(a)
      <4>1. ASSUME NEW a \in Attempts, outbox'[OPEN(a)] = "ABSENT" PROVE Absent(a)
        <5>1. CASE OPEN(a) = m
          BY <2>3, <2>8, <5>1 DEF Absent
        <5>2. CASE OPEN(a) # m
          <6>1. outbox'[OPEN(a)] = outbox[OPEN(a)]
            BY <2>3, <2>8, <5>2, OneCommandChanges DEF BaseInv
          <6> QED BY <4>1, <6>1 DEF Absent
        <5> QED BY <5>1, <5>2
      <4> QED BY <4>1
    <3> QED BY <2>6, <2>8, <3>1, NothingAbsent DEF PlayerMoves
  <2> QED BY <2>2, <2>7, <2>8
<1>5. CASE PlayerSendsBatch
  <2> DEFINE S == {"DELIVER", "REDELIVER"}
             m == flow.cmd
  <2>1. S \in SUBSET Steps
    BY DEF Steps
  <2>2. /\ Answered(S) /\ m[1] = "SUBMIT" /\ session' = session /\ outbox' = outbox
        /\ \E op \in {"CHUNK", "COMMIT"} : Continue(Rpc(op, m[2], session), flow.step)
    BY <1>5 DEF PlayerSendsBatch, playerVars
  <2>3. flow.step # "RECONCILE"
    BY <2>2 DEF Answered
  <2>4. m \in Pending /\ m \in Commands
    BY <1>c, <2>1, <2>2, <2>3 DEF Pending
  <2>5. m[2] \in Requests /\ session \in Attempts
    BY <2>2, <2>4, CommandForms DEF BaseInv, PlayerKnows, TypeOK, Pending
  <2>6. Wire(S)
    BY <2>2, <2>5, RpcTyped
  <2> HIDE DEF S
  <2> QED BY <1>k, <1>u, <2>1, <2>2, <2>6
<1>6. CASE PlayerEndsSubmit
  <2> DEFINE S == {"DELIVER", "REDELIVER", "RECOVER"}
  <2>1. S \in SUBSET Steps
    BY DEF Steps
  <2>2. /\ Answered(S) /\ NoSend /\ session' = session
        /\ outbox' = [outbox EXCEPT ![flow.cmd] = "ACK"]
    BY <1>6 DEF PlayerEndsSubmit
  <2>3. flow.step # "RECONCILE"
    BY <2>2 DEF Answered
  <2>4. flow.cmd \in Pending
    BY <1>c, <2>1, <2>2, <2>3
  <2> HIDE DEF S
  <2> QED BY <1>k, <1>o, <2>1, <2>2, <2>4
<1>7. CASE PlayerAppliesCurrent
  <2>1. /\ flow.step = "APPLY" /\ UNCHANGED <<outbox, session, link, sent, answer, chan, lastChan>>
    BY <1>7 DEF PlayerAppliesCurrent, wireVars
  <2>2. chan # NoChannel /\ sent[chan] = None /\ answer[chan] = None
    BY <2>1, ChannelOrder DEF BaseInv, FlowFits
  <2> QED BY <1>u, <2>1, <2>2, NothingAbsent DEF PlayerMoves, Stays
<1>8. CASE PlayerEndsCancel
  <2> DEFINE S == Steps \ {"RECONCILE"}
  <2>2. /\ Answered(S) /\ NoSend /\ session' = session
        /\ outbox' = [outbox EXCEPT ![flow.cmd] = "ACK"]
    BY <1>8 DEF PlayerEndsCancel, Finish
  <2>3. flow.step # "RECONCILE" /\ S \in SUBSET Steps
    BY <2>2 DEF Answered
  <2> HIDE DEF S
  <2>4. flow.cmd \in Pending
    BY <1>c, <2>2, <2>3
  <2> QED BY <1>k, <1>o, <2>2, <2>3, <2>4
<1>9. CASE PlayerRedelivers
  <2> DEFINE S == {"RECOVER", "RECOVER_AGAIN"}
  <2>1. S \in SUBSET Steps
    BY DEF Steps
  <2>2. /\ Answered(S) /\ session' = session /\ outbox' = outbox
        /\ Continue(DeliverRpc(flow.cmd), "REDELIVER") /\ flow.cmd[1] # "OPEN"
    BY <1>9 DEF PlayerRedelivers, playerVars
  <2>3. flow.step # "RECONCILE"
    BY <2>2 DEF Answered
  <2>4. flow.cmd \in Pending
    BY <1>c, <2>1, <2>2, <2>3
  <2>5. Wire(S)
    BY <2>2, <2>4, AskingRpcs
  <2> HIDE DEF S
  <2> QED BY <1>k, <1>u, <2>1, <2>2, <2>5
<1>10. CASE PlayerRechecks
  <2> DEFINE S == Steps \ {"RECONCILE", "LASTCHECK"}
  <2>2. /\ Answered(S) /\ session' = session /\ outbox' = outbox
        /\ \E step : Continue(RecoverRpc(flow.cmd), step)
    BY <1>10 DEF PlayerRechecks, playerVars
  <2>3. flow.step # "RECONCILE" /\ S \in SUBSET Steps
    BY <2>2 DEF Answered
  <2> HIDE DEF S
  <2>4. flow.cmd \in Pending
    BY <1>c, <2>2, <2>3
  <2>5. Wire(S)
    BY <2>2, <2>4, AskingRpcs
  <2> QED BY <1>k, <1>u, <2>2, <2>3, <2>5
<1> QED
  BY <1>1, <1>2, <1>3, <1>4, <1>5, <1>6, <1>7, <1>8, <1>9, <1>10 DEF PlayerReads

LEMMA SendingMoves ==
    ASSUME BaseInv, NEW x \in Rpcs, Send(x) \/ ConnectAndSend(x)
    PROVE  chan' # NoChannel /\ answer'[chan'] = None
<1>1. /\ chan \in Channels \cup {NoChannel} /\ answer \in [Channels -> Replies \cup {None}]
  BY DEF BaseInv, TypeOK
<1>2. CASE Send(x)
  BY <1>1, <1>2 DEF Send
<1>3. CASE ConnectAndSend(x)
  BY <1>3, ChannelOrder DEF ConnectAndSend
<1> QED BY <1>2, <1>3

LEMMA PlayerStepMoves ==
    ASSUME BaseInv, PlayerStep
    PROVE  PlayerMoves
<1>i. flow = Idle => flow.step = "IDLE" /\ flow.cmd = None
  BY FlowTyped
<1>w. flow = Idle /\ chan # NoChannel => sent[chan] = None
  BY <1>i, ChannelOrder
<1>k. ASSUME NEW x \in Rpcs, flow = Idle, session' = session,
             \A a \in Attempts : outbox'[OPEN(a)] = "ABSENT" => Absent(a),
             \/ Send(x) /\ x.op # "OPEN"
             \/ /\ ConnectAndSend(x) /\ x.op \in FirstOps
                /\ x.op = "OPEN" => outbox[OPEN(x.id)] = "NONE" /\ session = None
      PROVE  PlayerMoves
  <2>1. chan' # NoChannel /\ answer'[chan'] = None
    BY <1>k, SendingMoves
  <2>2. Stays \/ Connects(x)
    <3>1. CASE Send(x) /\ x.op # "OPEN"
      BY <1>k, <1>w, <3>1 DEF Send, Stays
    <3>2. CASE /\ ConnectAndSend(x) /\ x.op \in FirstOps
               /\ x.op = "OPEN" => outbox[OPEN(x.id)] = "NONE" /\ session = None
      BY <1>k, <1>i, <3>2 DEF Connects
    <3> QED BY <1>k, <3>1, <3>2
  <2> QED BY <1>k, <2>1, <2>2, NothingAbsent DEF PlayerMoves
<1>a. UNCHANGED outbox => \A a \in Attempts : outbox'[OPEN(a)] = "ABSENT" => Absent(a)
  BY DEF Absent
<1>b. \A m \in Commands :
        outbox' = [outbox EXCEPT ![m] = "PENDING"] =>
            \A a \in Attempts : outbox'[OPEN(a)] = "ABSENT" => Absent(a)
  <2> SUFFICES ASSUME NEW m \in Commands, outbox' = [outbox EXCEPT ![m] = "PENDING"],
                      NEW a \in Attempts, outbox'[OPEN(a)] = "ABSENT"
               PROVE  Absent(a)
    OBVIOUS
  <2>1. outbox'[m] = "PENDING" /\ \A n \in Commands \ {m} : outbox'[n] = outbox[n]
    BY OneCommandChanges DEF BaseInv
  <2> QED BY <2>1, CommandForms DEF Absent
<1>1. CASE PlayerReads
  BY <1>1, ReadsMove
<1>2. ASSUME NEW a \in Attempts, PlayerOpens(a) PROVE PlayerMoves
  <2> DEFINE x == Rpc("OPEN", a, None)
  <2>1. x \in Rpcs /\ x.id = a /\ x.op = "OPEN" /\ x.op \in FirstOps
    BY RpcTyped DEF AttemptOps, FirstOps
  <2>2. /\ flow = Idle /\ session' = session /\ session = None /\ outbox[OPEN(a)] = "NONE"
        /\ ConnectAndSend(x) /\ outbox' = [outbox EXCEPT ![OPEN(a)] = "PENDING"]
    BY <1>2 DEF PlayerOpens
  <2> HIDE DEF x
  <2>3. OPEN(a) \in Commands
    BY CommandForms
  <2> QED BY <1>b, <1>k, <2>1, <2>2, <2>3
<1>3. ASSUME NEW m \in Commands, m[1] # "OPEN", flow = Idle, session' = session,
             outbox' = [outbox EXCEPT ![m] = "PENDING"], Send(DeliverRpc(m)),
             session # None
      PROVE  PlayerMoves
  <2>1. DeliverRpc(m) \in Rpcs /\ DeliverRpc(m).op # "OPEN"
    <3>1. session \in Attempts
      BY <1>3 DEF BaseInv, TypeOK
    <3>2. CASE m[1] = "SUBMIT"
      <4>1. DeliverRpc(m) = Rpc("BEGIN", m[2], session) /\ m[2] \in Requests
        BY <3>2, CommandForms DEF DeliverRpc
      <4> QED BY <3>1, <4>1, RpcTyped
    <3>3. CASE m[1] = "CANCEL"
      <4>1. DeliverRpc(m) = Rpc("CANCEL", m[2], session) /\ m[2] \in Requests
        BY <3>3, CommandForms DEF DeliverRpc
      <4> QED BY <3>1, <4>1, RpcTyped
    <3> QED BY <1>3, <3>2, <3>3, CommandForms
  <2> QED BY <1>b, <1>k, <1>3, <2>1
<1>4. ASSUME NEW r \in Requests, PlayerSubmits(r) PROVE PlayerMoves
  <2>1. SUBMIT(r) \in Commands /\ SUBMIT(r)[1] # "OPEN"
    BY CommandForms
  <2>2. /\ flow = Idle /\ session' = session /\ session # None
        /\ outbox' = [outbox EXCEPT ![SUBMIT(r)] = "PENDING"] /\ Send(DeliverRpc(SUBMIT(r)))
    BY <1>4 DEF PlayerSubmits
  <2> QED BY <1>3, <2>1, <2>2
<1>5. CASE PlayerCancels
  <2>0. request \in Requests /\ request # None
    BY <1>5 DEF PlayerCancels, BaseInv, TypeOK
  <2>1. CANCEL(request) \in Commands /\ CANCEL(request)[1] # "OPEN" /\ session # None
    BY <2>0, CommandForms DEF BaseInv, PlayerKnows
  <2>2. /\ flow = Idle /\ session' = session
        /\ outbox' = [outbox EXCEPT ![CANCEL(request)] = "PENDING"]
        /\ Send(DeliverRpc(CANCEL(request)))
    BY <1>5 DEF PlayerCancels
  <2> QED BY <1>3, <2>1, <2>2
<1>6. CASE PlayerRecovers
  <2> DEFINE m == PendingCommand
  <2>1. /\ m \in Pending /\ flow = Idle /\ UNCHANGED <<outbox, session>>
        /\ \/ Send(RecoverRpc(m))
           \/ ConnectAndSend(RecoverRpc(m)) /\ m[1] = "OPEN"
           \/ m[1] # "OPEN" /\ ConnectAndSend(ReconcileRpc)
    BY <1>6 DEF PlayerRecovers, PendingCommand, playerVars
  <2> HIDE DEF m
  <2>2. m \in Commands /\ outbox[m] = "PENDING"
    BY <2>1 DEF Pending
  <2>3. /\ RecoverRpc(m) \in Rpcs
        /\ RecoverRpc(m).op # "OPEN" /\ RecoverRpc(m).op \in FirstOps
    BY <2>1, AskingRpcs
  <2>4. CASE Send(RecoverRpc(m))
    BY <1>a, <1>k, <2>1, <2>3, <2>4
  <2>5. CASE ConnectAndSend(RecoverRpc(m)) /\ m[1] = "OPEN"
    BY <1>a, <1>k, <2>1, <2>3, <2>5
  <2>6. CASE m[1] # "OPEN" /\ ConnectAndSend(ReconcileRpc)
    <3>1. session # None
      <4>1. m[1] = "SUBMIT" => session # None
        BY <2>2, CommandForms DEF BaseInv, PlayerKnows
      <4>2. m[1] = "CANCEL" => session # None
        BY <2>1, PendingCancel
      <4> QED BY <2>2, <2>6, <4>1, <4>2, CommandForms
    <3>2. /\ ReconcileRpc \in Rpcs
          /\ ReconcileRpc.op # "OPEN" /\ ReconcileRpc.op \in FirstOps
      BY <3>1, AskingRpcs
    <3> QED BY <1>a, <1>k, <2>1, <2>6, <3>2
  <2> QED BY <2>1, <2>4, <2>5, <2>6
<1>7. CASE PlayerRefreshes
  <2>1. /\ flow = Idle /\ session # None /\ UNCHANGED <<outbox, session>>
        /\ Send(ReconcileRpc) \/ ConnectAndSend(ReconcileRpc)
    BY <1>7 DEF PlayerRefreshes, playerVars
  <2>2. /\ ReconcileRpc \in Rpcs
        /\ ReconcileRpc.op # "OPEN" /\ ReconcileRpc.op \in FirstOps
    BY <2>1, AskingRpcs
  <2> QED BY <1>a, <1>k, <2>1, <2>2
<1>8. CASE PlayerLeavesChannel
  <2>1. chan' = NoChannel /\ UNCHANGED <<outbox, session>>
    BY <1>8 DEF PlayerLeavesChannel, playerVars
  <2> QED BY <1>a, <1>8, <2>1, NothingAbsent DEF PlayerMoves
<1> QED BY <1>1, <1>2, <1>4, <1>5, <1>6, <1>7, <1>8 DEF PlayerStep

(* What the player's step leaves of the wire: it sends one request, on its *)
(* last channel, and the rest stays.                                       *)
PlayerWire ==
    /\ \A c \in Channels :
        \/ link'[c] = link[c]
        \/ /\ c > lastChan /\ link'[c] = "PROOF"
           /\ sent'[c] # None /\ sent'[c].op \in FirstOps
    /\ \A c \in Channels :
        \/ sent'[c] = sent[c]
        \/ /\ sent[c] = None /\ sent'[c] \in Rpcs /\ c >= lastChan
           /\ sent'[c].op = "OPEN" =>
                /\ session = None /\ outbox[OPEN(sent'[c].id)] = "NONE" /\ flow.cmd = None
                /\ \A d \in Channels \ {c} : sent'[d] = sent[d]

LEMMA MovesOnWire ==
    ASSUME BaseInv, PlayerMoves
    PROVE  PlayerWire
<1>o. /\ lastChan \in Nat /\ chan \in {NoChannel, lastChan}
      /\ chan \in Channels \cup {NoChannel}
      /\ \A c \in Channels : c \in Nat /\ c # NoChannel
      /\ \A c \in Channels : c > lastChan => link[c] = "NONE" /\ sent[c] = None
      /\ link \in [Channels -> {"NONE", "PROOF", "OPEN", "GONE"}]
      /\ sent \in [Channels -> Rpcs \cup {None}]
  BY ChannelOrder DEF BaseInv, TypeOK, ChannelsInOrder
<1>1. CASE Stays
  <2>1. /\ chan \in Channels /\ chan = lastChan /\ sent[chan] = None /\ link' = link
        /\ \A c \in Channels \ {chan} : sent'[c] = sent[c]
        /\ \/ sent' = sent
           \/ sent'[chan] \in Rpcs /\ sent'[chan].op # "OPEN"
    BY <1>o, <1>1 DEF Stays
  <2> QED BY <1>o, <2>1 DEF PlayerWire
<1>2. CASE PlayerLeavesChannel
  BY <1>2 DEF PlayerLeavesChannel, PlayerWire
<1>3. ASSUME NEW x \in Rpcs, Connects(x) PROVE PlayerWire
  <2> DEFINE n == lastChan + 1
  <2>1. /\ n \in Channels
        /\ link' = [link EXCEPT ![n] = "PROOF"]
        /\ sent' = [sent EXCEPT ![n] = x]
        /\ flow.cmd = None /\ x.op \in FirstOps
        /\ x.op = "OPEN" => outbox[OPEN(x.id)] = "NONE" /\ session = None
    BY <1>3 DEF Connects, ConnectAndSend, NextChannel
  <2>2. n > lastChan /\ n >= lastChan
    BY <1>o
  <2>3. sent[n] = None /\ link[n] = "NONE" /\ x # None
    BY <1>o, <2>1, <2>2, RpcIsNotNone
  <2> HIDE DEF n
  <2>4. /\ link'[n] = "PROOF" /\ \A c \in Channels \ {n} : link'[c] = link[c]
        /\ sent'[n] = x /\ \A c \in Channels \ {n} : sent'[c] = sent[c]
    BY <1>o, <2>1
  <2>5. \A c \in Channels :
          \/ link'[c] = link[c]
          \/ /\ c > lastChan /\ link'[c] = "PROOF"
             /\ sent'[c] # None /\ sent'[c].op \in FirstOps
    BY <2>1, <2>2, <2>3, <2>4
  <2> QED BY <2>1, <2>2, <2>3, <2>4, <2>5 DEF PlayerWire
<1> QED BY <1>1, <1>2, <1>3 DEF PlayerMoves

(* The ways to execute an RPC, seen from the fence.                        *)
LEMMA ServeKinds ==
    ASSUME BaseInv, NEW c \in Channels, HostServes(c)
    PROVE  /\ c \in registered /\ sent[c] # None /\ sent[c] \in Rpcs
           /\ \/ HostOpens(c)
              \/ HostRecoversAttempt(c)
              \/ HostBindsSession(c) \/ HostRecoversSession(c)
              \/ HostRecoversRequest(c)
              \/ Refuse(c)
              \/ sent[c].op \in {"BEGIN", "CHUNK", "COMMIT", "CANCEL"} /\ busy = NoChannel
<1>1. c \in registered /\ sent[c] \in Rpcs
  BY HostServesFacts DEF BaseInv, ServeFacts
<1>2. HostBegins(c) \/ HostTakesChunk(c) \/ HostCommits(c) \/ HostCancels(c)
        => sent[c].op \in {"BEGIN", "CHUNK", "COMMIT", "CANCEL"} /\ busy = NoChannel
  BY DEF HostBegins, HostTakesChunk, HostCommits, HostCancels, Executing
<1>3. HostRefusesOpen(c) \/ HostRefusesRecovery(c) \/ HostRefusesRequest(c) => Refuse(c)
  BY DEF HostRefusesOpen, HostRefusesRecovery, HostRefusesRequest
<1> QED BY <1>1, <1>2, <1>3, RpcIsNotNone DEF HostServes
(* Only an OPEN, or its recovery, takes the scope of an attempt.           *)
LEMMA ServeTakesAttempts ==
    ASSUME BaseInv, NEW c \in Channels, HostServes(c),
           ~HostOpens(c), ~HostRecoversAttempt(c), NEW a \in Attempts,
           Seat(Attempt(a)) \in table'
    PROVE  Seat(Attempt(a)) \in table
<1>0. ServeFacts(c)
  BY HostServesFacts DEF BaseInv
<1>1. CASE HostBindsSession(c) \/ HostRecoversSession(c)
  <2>1. table' = table \cup {Seat(Session(sent[c].id))}
    BY <1>1, AssignFacts DEF HostBindsSession, HostRecoversSession
  <2> QED BY <2>1, SeatsDiffer
<1>2. CASE Refuse(c)
  BY <1>2 DEF Refuse, fenceVars, scopeVars
<1>3. CASE HostRecoversRequest(c) \/ sent[c].op \in {"BEGIN", "CHUNK", "COMMIT", "CANCEL"}
  <2>1. sent[c].op \notin AttemptOps
    BY <1>3 DEF AttemptOps, HostRecoversRequest, Executing
  <2> QED BY <1>0, <2>1, SeatsDiffer DEF ServeFacts, TakesScopes
<1> QED BY <1>1, <1>2, <1>3, ServeKinds

(* While an OPEN is delivered or recovered, that is what is in flight.     *)
LEMMA OpenFlow ==
    ASSUME BaseInv, flow.cmd # None, flow.cmd[1] = "OPEN",
           chan # NoChannel, sent[chan] # None
    PROVE  sent[chan].op \in AttemptOps /\ sent[chan].id = flow.cmd[2]
<1>1. flow.step \in {"DELIVER", "RECOVER"}
  BY DEF BaseInv, FlowFits, StepsOf
<1>2. /\ flow.step = "DELIVER" => sent[chan] = DeliverRpc(flow.cmd)
      /\ flow.step = "RECOVER" => sent[chan] = RecoverRpc(flow.cmd)
  BY DEF BaseInv, SentFits, AskingSteps
<1> QED BY <1>1, <1>2 DEF DeliverRpc, RecoverRpc, Rpc, AttemptOps

-----------------------------------------------------------------------------
(***************************************************************************)
(* Which OPENs are shut out.                                               *)
(***************************************************************************)

(* The history grows only when the host accepts a channel.                 *)
LEMMA HistoryStands ==
    ASSUME [OrderNext]_orderVars, \A c \in Channels : link'[c] = "OPEN" => link[c] # "PROOF"
    PROVE  overtaken' = overtaken
<1>1. \A a : ~Arriving(a)
  BY DEF Arriving, Overtaken
<1> QED BY <1>1 DEF OrderNext, orderVars

(* A step that opens no attempt and makes none known keeps what comes too  *)
(* late out.                                                               *)
LEMMA StandingOpensFenced ==
    ASSUME OpensFenced, UNCHANGED <<opened, overtaken, ordinal>>, fenced \subseteq fenced',
           \A a \in Attempts : Absent(a)' => Absent(a),
           \A a \in Attempts : Seat(Attempt(a)) \in table' => Seat(Attempt(a)) \in table,
           \A d \in Channels : sent'[d] # None => sent'[d] = sent[d],
           \A d \in Channels : link'[d] = "PROOF" => link[d] = "PROOF",
           \A d \in Channels : link'[d] # "PROOF" /\ d \in registered' =>
                link[d] # "PROOF" /\ d \in registered
    PROVE  OpensFenced'
<1>1. \A a \in Attempts : Absent(a)' => a \notin opened' \/ a \in overtaken'
  BY DEF OpensFenced
<1>2. ASSUME NEW c \in Channels, NEW a \in Attempts, Opens(c, a)'
      PROVE  OpenFenced(c, a)'
  <2>1. Opens(c, a) /\ OpenFenced(c, a)
    BY <1>2 DEF Opens, OpensFenced
  <2>2. \A d \in Channels : Recovers(d, a)' => Recovers(d, a)
    BY DEF Recovers
  <2>3. TooLate(c, a) => TooLate(c, a)'
    BY DEF TooLate
  <2> QED BY <2>1, <2>2, <2>3 DEF OpenFenced
<1> QED BY <1>1, <1>2 DEF OpensFenced

(* The player adds no OPEN that could come too late.                       *)
LEMMA PlayerOpensFenced ==
    ASSUME BaseInv, OpensFenced, HostStands, PlayerMoves, overtaken' = overtaken
    PROVE  OpensFenced'
<1>h. /\ UNCHANGED <<opened, table, registered, fenced, ordinal>>
      /\ PlayerWire /\ \A a \in Attempts : Absent(a)' => Absent(a)
  BY MovesOnWire DEF HostStands, hostVars, fenceVars, scopeVars, channelVars, PlayerMoves
<1>o. /\ lastChan \in Nat /\ \A c \in Channels : c \in Nat
      /\ \A c \in Channels : c > lastChan => link[c] = "NONE" /\ sent[c] = None
  BY ChannelOrder DEF BaseInv, ChannelsInOrder
<1>s. \A d \in Channels : sent[d] # None => Owned(d) /\ sent[d] \in Rpcs
  BY SentTyped DEF BaseInv, HostOwned
<1>1. \A a \in Attempts : Absent(a)' => a \notin opened' \/ a \in overtaken'
  BY <1>h DEF OpensFenced
<1>2. ASSUME NEW c \in Channels, NEW a \in Attempts, Opens(c, a)'
      PROVE  OpenFenced(c, a)'
  <2>0. sent'[c] # None /\ sent'[c].op = "OPEN" /\ sent'[c].id = a
    BY <1>2 DEF Opens
  <2>1. CASE sent'[c] = sent[c]
    <3>1. Opens(c, a)
      BY <2>0, <2>1 DEF Opens
    <3>2. ASSUME NEW d \in Channels, Recovers(d, a)' PROVE c < d
      <4>0. sent'[d] # None /\ sent'[d].op = "RECOVER_OPEN" /\ sent'[d].id = a
        BY <3>2 DEF Recovers
      <4>1. CASE sent'[d] = sent[d]
        <5>1. Recovers(d, a)
          BY <4>0, <4>1 DEF Recovers
        <5> QED BY <3>1, <5>1 DEF OpensFenced, OpenFenced
      <4>2. CASE sent[d] = None /\ d >= lastChan
        <5>1. c <= lastChan /\ c # d
          BY <1>o, <2>0, <2>1, <4>2
        <5> QED BY <1>o, <4>2, <5>1
      <4> QED BY <1>h, <4>0, <4>1, <4>2 DEF PlayerWire
    <3>3. ASSUME a \notin opened' \cup overtaken',
                 Seat(Attempt(a)) \in table' \/ Absent(a)'
          PROVE  TooLate(c, a)'
      <4>1. TooLate(c, a)
        BY <1>h, <3>1, <3>3 DEF OpensFenced, OpenFenced
      <4>2. link'[c] = link[c]
        BY <1>h, <1>o, <2>0, <2>1 DEF PlayerWire
      <4> QED BY <1>h, <4>1, <4>2 DEF TooLate
    <3> QED BY <3>2, <3>3 DEF OpenFenced
  <2>2. CASE /\ session = None /\ outbox[OPEN(a)] = "NONE" /\ flow.cmd = None
             /\ \A d \in Channels \ {c} : sent'[d] = sent[d]
    <3>2. ASSUME NEW d \in Channels, Recovers(d, a)' PROVE FALSE
      <4>0. sent'[d] # None /\ sent'[d].op = "RECOVER_OPEN" /\ sent'[d].id = a
        BY <3>2 DEF Recovers
      <4>1. d # c
        BY <2>0, <4>0
      <4>2. sent'[d] = sent[d]
        BY <2>2, <4>1
      <4> QED BY <1>s, <2>2, <4>0, <4>2 DEF Owned, AttemptOps
    <3>3. Seat(Attempt(a)) \notin table'
      BY <1>h, <2>2 DEF BaseInv, HostOwned
    <3>4. ~Absent(a)'
      <4>1. OPEN(a) # None
        BY CommandForms, CommandIsNotNone
      <4>2. ~Absent(a)
        BY <2>2, <4>1 DEF Absent
      <4> QED BY <1>h, <4>2
    <3> QED BY <3>2, <3>3, <3>4 DEF OpenFenced
  <2> QED BY <1>h, <2>0, <2>1, <2>2 DEF PlayerWire
<1> QED BY <1>1, <1>2 DEF OpensFenced

(* Only the recovery of an attempt tells the player that it is unknown.    *)
LEMMA AbsentAnswers ==
    ASSUME BaseInv, NEW c \in Channels, HostServes(c), NEW a \in Attempts, Absent(a)'
    PROVE  Absent(a) \/ (HostRecoversAttempt(c) /\ sent[c].id = a /\ a \notin opened)
<1>1. UNCHANGED <<outbox, chan, flow>> /\ opened \subseteq opened' /\ ServeFacts(c)
  BY HostServesFacts DEF BaseInv, ServeFacts, StoresWhatWasAsked, playerVars, flowVars
<1>2. SUFFICES ASSUME ~Absent(a)
               PROVE  HostRecoversAttempt(c) /\ sent[c].id = a /\ a \notin opened
  OBVIOUS
<1>3. /\ chan # NoChannel /\ answer'[chan] # None /\ answer'[chan].kind = "NOT_FOUND"
      /\ flow.cmd = OPEN(a) /\ chan \in Channels
  BY <1>1, <1>2, ChannelOrder DEF Absent
<1>4. answer'[chan] # answer[chan]
  BY <1>2, <1>3 DEF Absent
<1>5. c = chan /\ TrueReply(c, answer'[c])
  BY <1>1, <1>3, <1>4, ServeWire
<1>6. sent[c].op \in AttemptOps /\ sent[c].id = a
  BY <1>3, <1>5, OpenFlow, ServeKinds, CommandForms, CommandIsNotNone
<1>7. sent[c].op = "RECOVER_OPEN" /\ a \notin opened
  BY <1>1, <1>3, <1>5, <1>6 DEF TrueReply, AttemptOps
<1>8. ~HostOpens(c) /\ ~HostRecoversRequest(c)
  BY <1>7 DEF HostOpens, HostRecoversRequest, Executing
<1>9. ~HostBindsSession(c) /\ ~HostRecoversSession(c)
  BY <1>6, <1>7, BusyFacts DEF HostBindsSession, HostRecoversSession, BaseInv
<1>10. ~Refuse(c)
  <2>1. SUFFICES ASSUME Refuse(c) PROVE FALSE
    OBVIOUS
  <2>2. answer' = [answer EXCEPT ![c] = IF c = chan THEN Reply("REFUSED", <<>>) ELSE None]
    BY <2>1 DEF Refuse, Respond
  <2>3. answer'[chan] = Reply("REFUSED", <<>>)
    BY <1>5, <2>2 DEF BaseInv, TypeOK
  <2> QED BY <1>3, <2>3, ReplyTyped
<1> QED BY <1>6, <1>7, <1>8, <1>9, <1>10, ServeKinds

LEMMA OpeningKeepsFenced ==
    ASSUME BaseInv, OpensFenced, NEW c \in Channels, HostOpens(c), overtaken' = overtaken
    PROVE  OpensFenced'
<1> DEFINE a == sent[c].id
           k == Seat(Attempt(a))
<1>1. /\ sent[c] # None /\ sent[c].op = "OPEN" /\ a \in Attempts /\ c \in registered
  BY ExecutingFacts, RpcForms DEF BaseInv, HostOpens, AttemptOps
<1>2. /\ a \notin opened /\ opened' = opened \cup {a} /\ MayAssign(c, k)
      /\ table' = table \cup {k} /\ UNCHANGED <<registered, fenced, ordinal>>
      /\ UNCHANGED <<link, sent, answer, outbox, chan, flow>>
  BY KeyIsSeat DEF HostOpens, Bind, channelVars, wireVars, playerVars, flowVars
<1>3. Opens(c, a)
  BY <1>1 DEF Opens
<1> HIDE DEF a, k
<1>4. ~Absent(a) \/ a \in overtaken
  <2>1. SUFFICES ASSUME Absent(a), a \notin overtaken PROVE FALSE
    OBVIOUS
  <2>p. link[c] # "PROOF"
    BY <1>1 DEF BaseInv, ChannelsInOrder
  <2>2. <<c, Seat(Attempt(a))>> \in fenced
    BY <1>1, <1>2, <1>3, <2>1, <2>p DEF OpensFenced, OpenFenced, TooLate
  <2>3. ShutOut(c, k)
    BY <1>1, <2>2 DEF BaseInv, FenceInv, FencedIsShutOut, k
  <2>4. k \in Keys
    BY <1>1, SeatTyped DEF k
  <2>5. ordinal[c] \in Nat /\ barrier[k] \in Nat
    BY <2>4 DEF BaseInv, FenceInv, FenceTypeOK
  <2> QED BY <1>2, <2>3, <2>5 DEF ShutOut, MayAssign
<1>5. \A b \in Attempts : Absent(b)' <=> Absent(b)
  BY <1>2 DEF Absent
<1>6. \A b \in Attempts : Absent(b)' => b \notin opened' \/ b \in overtaken'
  BY <1>2, <1>4, <1>5 DEF OpensFenced
<1>7. ASSUME NEW d \in Channels, NEW b \in Attempts, Opens(d, b)'
      PROVE  OpenFenced(d, b)'
  <2>1. Opens(d, b) /\ OpenFenced(d, b)
    BY <1>2, <1>7 DEF Opens, OpensFenced
  <2>2. \A e \in Channels : Recovers(e, b)' <=> Recovers(e, b)
    BY <1>2 DEF Recovers
  <2>3. TooLate(d, b)' <=> TooLate(d, b)
    BY <1>2 DEF TooLate
  <2>4. b # a => (Seat(Attempt(b)) \in table' <=> Seat(Attempt(b)) \in table)
    BY <1>2, SeatsDiffer DEF k
  <2> QED BY <1>1, <1>2, <1>5, <2>1, <2>2, <2>3, <2>4 DEF OpenFenced
<1> QED BY <1>6, <1>7 DEF OpensFenced

(* A recovery shuts the older channels out, and overtakes those that are   *)
(* not accepted yet.                                                       *)
LEMMA RecoveryKeepsFenced ==
    ASSUME BaseInv, OpensFenced, NEW c \in Channels, HostRecoversAttempt(c), FenceKept,
           overtaken' = overtaken
    PROVE  OpensFenced'
<1> DEFINE a == sent[c].id
           k == Seat(Attempt(a))
<1>0. HostServes(c) /\ ServeFacts(c)
  BY HostServesFacts DEF HostServes, BaseInv
<1>1. /\ sent[c] # None /\ sent[c].op = "RECOVER_OPEN" /\ a \in Attempts /\ c \in registered
  BY ExecutingFacts, RpcForms DEF BaseInv, HostRecoversAttempt, AttemptOps
<1>2. opened' = opened /\ table' = table \cup {k} /\ UNCHANGED <<registered, ordinal>>
  BY AssignFacts DEF HostRecoversAttempt, NoHostWrite, channelVars
<1>3. \/ k \in table
      \/ fenced' = fenced \cup ((registered \ {c}) \X {k})
  BY KeyIsSeat DEF HostRecoversAttempt, Assign, Leased, Recover
<1>f. fenced \subseteq fenced' /\ link' = link
      /\ \A d \in Channels : sent'[d] # None => sent'[d] = sent[d]
  BY <1>0, ServeWire DEF FenceKept
<1>4. Recovers(c, a)
  BY <1>1 DEF Recovers
<1>g. ordinal[c] # 0 /\ c \in Nat
  BY <1>1, ChannelOrder DEF BaseInv, FenceInv, OrdinalsBounded, FenceTypeOK
<1> HIDE DEF a, k
<1>5. \A b \in Attempts :
        Absent(b)' => (b \notin opened' \/ b \in overtaken') /\ (Absent(b) \/ b = a)
  BY <1>0, <1>2, AbsentAnswers DEF OpensFenced, a
<1>6. ASSUME NEW d \in Channels, NEW b \in Attempts, Opens(d, b)'
      PROVE  OpenFenced(d, b)'
  <2>1. Opens(d, b) /\ OpenFenced(d, b)
    BY <1>f, <1>6 DEF Opens, OpensFenced
  <2>2. \A e \in Channels : Recovers(e, b)' => Recovers(e, b)
    BY <1>f DEF Recovers
  <2>3. TooLate(d, b) => TooLate(d, b)'
    BY <1>2, <1>f DEF TooLate
  <2>4. CASE b # a
    <3>1. Seat(Attempt(b)) \in table' => Seat(Attempt(b)) \in table
      BY <1>2, <2>4, SeatsDiffer DEF k
    <3>2. Absent(b)' => Absent(b)
      BY <1>5, <2>4
    <3> QED BY <1>2, <2>1, <2>2, <2>3, <3>1, <3>2 DEF OpenFenced
  <2>5. CASE b = a
    <3>1. d < c /\ d \in Nat
      BY <1>4, <2>1, <2>5, ChannelOrder DEF OpenFenced
    <3>2. link[d] = "PROOF" => TooLate(d, b)'
      BY <1>2, <1>f, <1>g, <3>1 DEF TooLate
    <3>3. b \notin opened' \cup overtaken' => TooLate(d, b)'
      <4>1. CASE k \in table
        BY <1>2, <2>1, <2>3, <2>5, <4>1 DEF OpenFenced, k
      <4>2. CASE fenced' = fenced \cup ((registered \ {c}) \X {k}) /\ link[d] # "PROOF"
        <5>1. d # c
          BY <1>g, <3>1
        <5>2. d \in registered => <<d, Seat(Attempt(b))>> \in fenced'
          BY <2>5, <4>2, <5>1 DEF k
        <5> QED BY <1>2, <1>f, <4>2, <5>2 DEF TooLate
      <4> QED BY <1>3, <3>2, <4>1, <4>2
    <3> QED BY <2>1, <2>2, <3>3 DEF OpenFenced
  <2> QED BY <2>4, <2>5
<1> QED BY <1>5, <1>6 DEF OpensFenced

LEMMA ServeKeepsFenced ==
    ASSUME BaseInv, OpensFenced, NEW c \in Channels, HostServes(c), FenceKept,
           overtaken' = overtaken
    PROVE  OpensFenced'
<1>0. ServeFacts(c)
  BY HostServesFacts DEF BaseInv
<1>1. CASE HostOpens(c)
  BY <1>1, OpeningKeepsFenced
<1>2. CASE HostRecoversAttempt(c)
  BY <1>2, RecoveryKeepsFenced
<1>3. CASE ~HostOpens(c) /\ ~HostRecoversAttempt(c)
  <2>1. \A a \in Attempts : Absent(a)' => Absent(a)
    BY <1>3, AbsentAnswers
  <2>2. /\ UNCHANGED <<link, registered, ordinal>> /\ fenced \subseteq fenced'
        /\ \A d \in Channels : sent'[d] # None => sent'[d] = sent[d]
    BY <1>0, ServeWire DEF FenceKept, ServeFacts, channelVars
  <2>3. opened' = opened
    BY <1>3 DEF HostServes, HostBindsSession, HostRefusesOpen, HostRecoversSession,
      HostRecoversRequest, HostRefusesRecovery, HostBegins, HostTakesChunk, HostCommits,
      HostCancels, HostRefusesRequest, NoHostWrite, hostVars
  <2>4. \A a \in Attempts : Seat(Attempt(a)) \in table' => Seat(Attempt(a)) \in table
    BY <1>3, ServeTakesAttempts
  <2>5. \A d \in Channels : link'[d] # "PROOF" /\ d \in registered' =>
            link[d] # "PROOF" /\ d \in registered
    BY <2>2
  <2> QED BY <2>1, <2>2, <2>3, <2>4, <2>5, StandingOpensFenced
<1> QED BY <1>1, <1>2, <1>3

(* The host accepts a channel in time, or the history remembers its OPEN.  *)
LEMMA AcceptKeepsFenced ==
    ASSUME BaseInv, OpensFenced, NEW c \in Channels, HostAcceptsProof(c),
           [OrderNext]_orderVars
    PROVE  OpensFenced'
<1>1. /\ link[c] = "PROOF" /\ link' = [link EXCEPT ![c] = "OPEN"]
      /\ registered' = registered \cup {c}
      /\ ordinal' = [ordinal EXCEPT ![c] = channelOrdinal + 1] /\ ordinal[c] = 0
      /\ UNCHANGED <<table, fenced, opened, sent, answer, outbox, chan, flow>>
  BY DEF HostAcceptsProof, Register, hostVars, scopeVars, playerVars, flowVars
<1>2. /\ link \in [Channels -> {"NONE", "PROOF", "OPEN", "GONE"}]
      /\ ordinal \in [Channels -> Nat]
  BY DEF BaseInv, TypeOK, FenceTypeOK
<1>3. /\ link'[c] = "OPEN" /\ \A d \in Channels \ {c} : link'[d] = link[d]
      /\ \A d \in Channels : ordinal[d] # 0 => ordinal'[d] # 0
  BY <1>1, <1>2
<1>4. overtaken' = overtaken \cup {a \in Attempts : Arriving(a)}
  <2>1. vars' # vars
    BY <1>1, <1>3 DEF vars, wireVars
  <2> QED BY <2>1 DEF OrderNext, orderVars
<1>5. \A a \in Attempts : Absent(a)' <=> Absent(a)
  BY <1>1 DEF Absent
<1>6. \A a \in Attempts : Absent(a)' => a \notin opened' \/ a \in overtaken'
  BY <1>1, <1>4, <1>5 DEF OpensFenced
<1>7. ASSUME NEW d \in Channels, NEW a \in Attempts, Opens(d, a)'
      PROVE  OpenFenced(d, a)'
  <2>1. Opens(d, a) /\ OpenFenced(d, a)
    BY <1>1, <1>7 DEF Opens, OpensFenced
  <2>2. \A e \in Channels : Recovers(e, a)' => Recovers(e, a)
    BY <1>1 DEF Recovers
  <2>3. ASSUME a \notin opened' \cup overtaken', Seat(Attempt(a)) \in table' \/ Absent(a)'
        PROVE  TooLate(d, a)'
    <3>1. TooLate(d, a)
      BY <1>1, <1>4, <1>5, <2>1, <2>3 DEF OpenFenced
    <3>2. CASE d = c
      <4>1. Overtaken(c)
        BY <1>1, <1>3, <3>1, <3>2 DEF TooLate, Overtaken
      <4>2. sent[c] = Rpc("OPEN", a, None)
        <5>1. sent[c] \in Rpcs /\ sent[c].op = "OPEN" /\ sent[c].id = a
          BY <2>1, <3>2, SentTyped DEF Opens, BaseInv
        <5> QED BY <5>1 DEF Rpcs, Rpc
      <4> QED BY <1>4, <2>3, <4>1, <4>2 DEF Arriving
    <3>3. CASE d # c
      BY <1>1, <1>3, <3>1, <3>3 DEF TooLate
    <3> QED BY <3>2, <3>3
  <2> QED BY <2>1, <2>2, <2>3 DEF OpenFenced
<1> QED BY <1>6, <1>7 DEF OpensFenced

(* A channel that ends, accepted or not, keeps no OPEN.                    *)
LEMMA EndKeepsFenced ==
    ASSUME BaseInv, OpensFenced, NEW c \in Channels,
           HostLosesChannel(c) \/ HostLosesProof(c), overtaken' = overtaken
    PROVE  OpensFenced'
<1>1. /\ link' = [link EXCEPT ![c] = "GONE"] /\ sent' = [sent EXCEPT ![c] = None]
      /\ registered' \subseteq registered /\ table' \subseteq table
      /\ UNCHANGED <<fenced, ordinal, opened, answer, outbox, chan, flow>>
  BY DEF HostLosesChannel, HostLosesProof, CloseChannel, EmptyTable, hostVars, fenceVars,
         scopeVars, channelVars, playerVars, flowVars
<1>c. c \notin registered'
  BY DEF HostLosesChannel, HostLosesProof, CloseChannel, BaseInv, ChannelsInOrder,
         fenceVars, channelVars
<1>2. /\ link \in [Channels -> {"NONE", "PROOF", "OPEN", "GONE"}]
      /\ sent \in [Channels -> Rpcs \cup {None}]
  BY DEF BaseInv, TypeOK
<1>3. /\ link'[c] = "GONE" /\ \A d \in Channels \ {c} : link'[d] = link[d]
      /\ sent'[c] = None /\ \A d \in Channels \ {c} : sent'[d] = sent[d]
  BY <1>1, <1>2
<1>4. \A a \in Attempts : Absent(a)' => Absent(a)
  BY <1>1 DEF Absent
<1>5. \A d \in Channels : link'[d] # "PROOF" /\ d \in registered' =>
            link[d] # "PROOF" /\ d \in registered
  BY <1>1, <1>3, <1>c
<1>6. /\ \A d \in Channels : sent'[d] # None => sent'[d] = sent[d]
      /\ \A d \in Channels : link'[d] = "PROOF" => link[d] = "PROOF"
  BY <1>3
<1> QED BY <1>1, <1>4, <1>5, <1>6, StandingOpensFenced

LEMMA StopKeepsFenced ==
    ASSUME OpensFenced, HostStops, overtaken' = overtaken
    PROVE  OpensFenced'
<1>1. /\ \A d \in Channels : sent'[d] = None
      /\ UNCHANGED <<opened, answer, outbox, chan, flow>>
  BY DEF HostStops, NoHostWrite, playerVars, flowVars
<1>2. \A a \in Attempts : Absent(a)' => Absent(a)
  BY <1>1 DEF Absent
<1> QED BY <1>1, <1>2 DEF OpensFenced, Opens

LEMMA QuietKeepsFenced ==
    ASSUME OpensFenced,
           UNCHANGED <<opened, overtaken, table, registered, ordinal, fenced,
                       wireVars, playerVars, flowVars>>
    PROVE  OpensFenced'
  BY DEF OpensFenced, OpenFenced, Opens, Recovers, TooLate, Absent,
         wireVars, playerVars, flowVars

LEMMA NextKeepsFenced ==
    ASSUME OrderInv, [OrderNext]_orderVars
    PROVE  OrderInv'
<1>1. BaseInv /\ OpensFenced /\ [Next]_vars
  BY DEF OrderInv, OrderNext, orderVars
<1>2. BaseInv' /\ FenceKept
  BY <1>1, NextKeepsBase
<1>3. ASSUME NEW c \in Channels, HostServes(c) PROVE OpensFenced'
  <2>1. link' = link
    BY <1>1, <1>3, HostServesFacts, ServeWire DEF BaseInv
  <2>2. overtaken' = overtaken
    BY <2>1, HistoryStands
  <2> QED BY <1>1, <1>2, <1>3, <2>2, ServeKeepsFenced
<1>4. ASSUME NEW c \in Channels, HostAcceptsProof(c) PROVE OpensFenced'
  BY <1>1, <1>4, AcceptKeepsFenced
<1>5. ASSUME NEW c \in Channels, HostLosesChannel(c) \/ HostLosesProof(c)
      PROVE  OpensFenced'
  <2>1. link' = [link EXCEPT ![c] = "GONE"]
        /\ link \in [Channels -> {"NONE", "PROOF", "OPEN", "GONE"}]
    BY <1>1, <1>5 DEF HostLosesChannel, HostLosesProof, BaseInv, TypeOK
  <2>2. overtaken' = overtaken
    BY <2>1, HistoryStands
  <2> QED BY <1>1, <1>5, <2>2, EndKeepsFenced
<1>6. ASSUME NEW r \in Requests, NEW status \in {"IN_REVIEW", "REJECTED"},
             GmDecides(r, status)
      PROVE  OpensFenced'
  <2>1. /\ link' = link
        /\ UNCHANGED <<opened, table, registered, ordinal, fenced,
                       wireVars, playerVars, flowVars>>
    BY <1>6 DEF GmDecides, fenceVars, scopeVars, channelVars, wireVars
  <2>2. overtaken' = overtaken
    BY <2>1, HistoryStands
  <2> QED BY <1>1, <2>1, <2>2, QuietKeepsFenced
<1>7. ASSUME CampaignAdvances \/ HostStarts \/ UNCHANGED vars PROVE OpensFenced'
  <2>1. /\ link' = link
        /\ UNCHANGED <<opened, table, registered, ordinal, fenced,
                       wireVars, playerVars, flowVars>>
    BY <1>7
    DEF CampaignAdvances, HostStarts, Reopen, vars, hostVars, fenceVars, scopeVars,
        channelVars, wireVars
  <2>2. overtaken' = overtaken
    BY <2>1, HistoryStands
  <2> QED BY <1>1, <2>1, <2>2, QuietKeepsFenced
<1>8. ASSUME HostStops PROVE OpensFenced'
  <2>1. \A c \in Channels : link'[c] # "OPEN"
    BY <1>8 DEF HostStops
  <2>2. overtaken' = overtaken
    BY <2>1, HistoryStands
  <2> QED BY <1>1, <1>8, <2>2, StopKeepsFenced
<1>9. ASSUME PlayerStep PROVE OpensFenced'
  <2>1. PlayerMoves /\ HostStands
    BY <1>1, <1>9, PlayerStepMoves, PlayerStepOnly DEF HostStands
  <2>2. \A c \in Channels : link'[c] = "OPEN" => link[c] # "PROOF"
    BY <1>1, <2>1, MovesOnWire DEF PlayerWire
  <2>3. overtaken' = overtaken
    BY <2>2, HistoryStands
  <2> QED BY <1>1, <2>1, <2>3, PlayerOpensFenced
<1>10. OpensFenced'
  BY <1>1, <1>3, <1>4, <1>5, <1>6, <1>7, <1>8, <1>9 DEF Next, PlayerStep
<1> QED BY <1>2, <1>10 DEF OrderInv

(* Without its history variable a behaviour of OrderSpec is one of the     *)
(* protocol, so that what holds of Spec holds of it.                       *)
THEOREM OrderIsHistory == OrderSpec => Spec
<1>1. OrderInit => Init
  BY DEF OrderInit
<1>2. [OrderNext]_orderVars => [Next]_vars
  BY DEF OrderNext, orderVars
<1> QED BY <1>1, <1>2, PTL DEF OrderSpec, Spec

LEMMA InitEstablishesOrder == OrderInit => OrderInv
<1> SUFFICES ASSUME OrderInit PROVE OrderInv
  OBVIOUS
<1>1. Init /\ sent = [c \in Channels |-> None] /\ opened = {}
  BY DEF OrderInit, Init
<1> QED BY <1>1, InitEstablishesBase DEF OrderInv, OpensFenced, Opens

(* No crash, lost answer or late frame leaves a request or a cancellation  *)
(* on the host that no command of the player owns, and none but an         *)
(* overtaken OPEN leaves a session: what the player was told is unknown    *)
(* to the host stays so, unless its OPEN comes in on a channel the host    *)
(* accepts after a newer one.                                              *)
THEOREM OrphansAreOvertaken == OrderSpec => []OrphansWereOvertaken
<1>1. ASSUME OrderInv PROVE OrphansWereOvertaken
  <2>1. BaseInv /\ OpensFenced
    BY <1>1 DEF OrderInv
  <2>2. ASSUME NEW a \in opened PROVE outbox[OPEN(a)] \in {"PENDING", "ACK"} \/ a \in overtaken
    <3>1. a \in Attempts /\ outbox[OPEN(a)] # "NONE" /\ outbox[OPEN(a)] # "SETTLED"
      BY <2>1, <2>2 DEF BaseInv, TypeOK, HostOwned, OutboxKinds
    <3>2. outbox[OPEN(a)] # "ABSENT" \/ a \in overtaken
      BY <2>1, <2>2, <3>1 DEF OpensFenced, Absent
    <3>3. outbox[OPEN(a)] \in {"NONE", "PENDING", "ACK", "ABSENT", "SETTLED"}
      BY <2>1, <3>1, CommandForms DEF BaseInv, TypeOK
    <3> QED BY <3>1, <3>2, <3>3
  <2>3. \A r \in submitted : outbox[SUBMIT(r)] \in {"PENDING", "ACK"}
    BY <2>1 DEF BaseInv, TypeOK, HostOwned, OutboxKinds
  <2>4. ASSUME NEW r \in Requests, Status(log[r]) = "CANCELLED"
        PROVE  outbox[CANCEL(r)] \in {"PENDING", "ACK"}
    <3>1. log[r] \in Histories
      BY <2>1 DEF BaseInv, TypeOK
    <3>2. log[r] = <<"CANCELLED">>
      BY <2>4, <3>1, StatusTable DEF Histories
    <3> QED BY <2>1, <3>2 DEF BaseInv, HostOwned
  <2> QED BY <2>2, <2>3, <2>4 DEF OrphansWereOvertaken
<1>2. OrderInv => OrphansWereOvertaken
  BY <1>1
<1>3. OrderInv /\ [OrderNext]_orderVars => OrderInv'
  BY NextKeepsFenced
<1> QED BY <1>2, <1>3, InitEstablishesOrder, PTL DEF OrderSpec

-----------------------------------------------------------------------------
(***************************************************************************)
(* Why BEGIN and CANCEL create no lease.                                   *)
(***************************************************************************)

(* A session stays settled while the table grows.                          *)
LEMMA SettledStays ==
    ASSUME BaseInv, FenceKept, table \subseteq table', NEW s, Settled(s)
    PROVE  Settled(s)'
<1>1. /\ IsFiniteSet(table) /\ IsFiniteSet(table')
      /\ Cardinality(table) <= MaxScopes /\ Cardinality(table') <= MaxScopes
  BY DEF BaseInv, FenceKept, FenceInv, TableFinite, TableBounded
<1>2. /\ Cardinality(table) <= Cardinality(table')
      /\ Cardinality(table) \in Nat /\ Cardinality(table') \in Nat /\ MaxScopes \in Nat
  BY <1>1, FS_Subset, FS_CardinalityType, FenceAssumption
<1>3. CASE Seat(Session(s)) \in table
  BY <1>3 DEF Settled
<1>4. CASE Cardinality(table) = MaxScopes
  BY <1>1, <1>2, <1>4 DEF Settled
<1> QED BY <1>3, <1>4 DEF Settled

(* A scope is refused because of its record, or because the table is full. *)
LEMMA RefusedIsKnown ==
    ASSUME BaseInv, NEW c \in Channels, c \in registered, NEW k \in Keys, ~MayAssign(c, k)
    PROVE  k \in table \/ Cardinality(table) = MaxScopes
<1>1. SUFFICES ASSUME k \notin table, Cardinality(table) < MaxScopes PROVE FALSE
  <2>1. IsFiniteSet(table) /\ Cardinality(table) <= MaxScopes
    BY DEF BaseInv, FenceInv, TableFinite, TableBounded
  <2>2. Cardinality(table) \in Nat /\ MaxScopes \in Nat
    BY <2>1, FS_CardinalityType, FenceAssumption
  <2> QED BY <2>1, <2>2
<1>2. Live(c)
  BY DEF BaseInv, ClosedIsEmpty, ChannelsInOrder, Live
<1>3. retired[k] = {} /\ barrier[k] = 0
  BY <1>1 DEF BaseInv, AbsentIsBlank
<1>4. ordinal[c] > 0
  BY DEF BaseInv, FenceInv, OrdinalsBounded
<1> QED BY <1>1, <1>2, <1>3, <1>4 DEF MayAssign

LEMMA RefusedIsSettled ==
    ASSUME BaseInv, NEW c \in Channels, c \in registered, NEW a \in Attempts,
           ~MayRecover(c, Session(a))
    PROVE  Settled(a)
<1>1. Seat(Session(a)) \in Keys /\ Key(c, Session(a)) = Seat(Session(a))
  BY SeatTyped
<1> QED BY <1>1, RefusedIsKnown DEF MayRecover, Settled

(* With a session, the player asks of it only.                             *)
LEMMA AsksOfItsSession ==
    ASSUME BaseInv, session # None, chan # NoChannel, sent[chan] # None
    PROVE  /\ session \in Attempts /\ session \in opened
           /\ IF sent[chan].op \in AttemptOps
              THEN sent[chan].op = "RECOVER_OPEN" /\ sent[chan].id = session
              ELSE sent[chan].session = session
<1>1. session \in Attempts /\ session \in opened
  BY DEF BaseInv, TypeOK, PlayerKnows
<1>2. chan \in Channels
  BY ChannelOrder
<1>3. sent[chan].op \notin AttemptOps => sent[chan].session = session
  BY <1>2 DEF BaseInv, HostOwned, Owned
<1>4. ASSUME sent[chan].op \in AttemptOps
      PROVE  sent[chan].op = "RECOVER_OPEN" /\ sent[chan].id = session
  <2>1. flow.step \notin {"IDLE", "APPLY"} /\ flow.step \in Steps
    BY DEF BaseInv, SentFits, TypeOK
  <2>2. CASE flow.step = "RECONCILE"
    <3>1. sent[chan] = ReconcileRpc
      BY <2>2 DEF BaseInv, SentFits
    <3> QED BY <1>4, <3>1 DEF ReconcileRpc, Rpc, AttemptOps
  <2>3. CASE flow.step # "RECONCILE"
    <3>1. flow.cmd # None /\ flow.cmd \in Pending /\ flow.cmd \in Commands
      BY <2>1, <2>3 DEF BaseInv, FlowFits, Pending
    <3>2. flow.cmd[1] # "OPEN"
      <4>1. flow.cmd[1] = "OPEN" => session = None
        BY <3>1, CommandForms DEF BaseInv, PlayerKnows, Pending
      <4> QED BY <4>1
    <3>3. CASE flow.step \in {"DELIVER", "REDELIVER"}
      <4>1. CASE flow.cmd[1] = "SUBMIT"
        BY <1>4, <3>3, <4>1 DEF BaseInv, SentFits, AttemptOps, SubmitOps
      <4>2. CASE flow.cmd[1] = "CANCEL"
        <5>1. sent[chan] = DeliverRpc(flow.cmd)
          BY <3>3, <4>2 DEF BaseInv, SentFits
        <5> QED BY <1>4, <4>2, <5>1 DEF DeliverRpc, Rpc, AttemptOps
      <4> QED BY <3>1, <3>2, <4>1, <4>2, CommandForms
    <3>4. CASE flow.step \in AskingSteps
      <4>1. sent[chan] = RecoverRpc(flow.cmd)
        BY <3>4 DEF BaseInv, SentFits
      <4> QED BY <1>4, <3>2, <4>1 DEF RecoverRpc, Rpc, AttemptOps
    <3> QED BY <2>1, <2>3, <3>3, <3>4 DEF Steps, AskingSteps
  <2> QED BY <2>2, <2>3
<1> QED BY <1>1, <1>3, <1>4

LEMMA PlayerKeepsSettled ==
    ASSUME BaseInv, BaseInv', SessionsSettled, HostStands, PlayerMoves
    PROVE  SessionsSettled'
<1>h. /\ UNCHANGED <<table, registered, busy, opened>>
      /\ PlayerWire /\ (chan' # NoChannel => answer'[chan'] = None)
  BY MovesOnWire DEF HostStands, hostVars, fenceVars, scopeVars, channelVars, PlayerMoves
<1>s. \A a : Settled(a)' <=> Settled(a)
  BY <1>h DEF Settled
<1>o. /\ lastChan \in Nat /\ chan \in {NoChannel, lastChan}
      /\ \A c \in Channels : c \in Nat /\ c # NoChannel
      /\ \A c \in Channels : c \in registered <=> link[c] = "OPEN"
      /\ \A c \in Channels : c > lastChan => link[c] = "NONE"
      /\ registered \subseteq Channels
  BY ChannelOrder DEF BaseInv, ChannelsInOrder, TypeOK, FenceTypeOK
<1>1. ASSUME NEW c \in Channels, link'[c] = "PROOF"
      PROVE  sent'[c] # None /\ sent'[c].op \in FirstOps
  BY <1>1, <1>h DEF SessionsSettled, PlayerWire
<1>2. ASSUME NEW a \in opened', Seat(Attempt(a)) \in table'
      PROVE  Settled(a)' \/ (busy' # NoChannel /\ sent'[busy'].id = a)
  <2>1. Settled(a) \/ (busy # NoChannel /\ sent[busy].id = a)
    BY <1>2, <1>h DEF SessionsSettled
  <2>2. busy # NoChannel => busy \in Channels /\ sent[busy] # None
    BY <1>o DEF BaseInv, BusyInside
  <2>3. busy # NoChannel => sent'[busy] = sent[busy]
    BY <2>2, <1>h DEF PlayerWire
  <2> QED BY <2>1, <2>3, <1>h, <1>s
<1>w. Stays \/ ~(chan' \in registered)
  <2>1. CASE PlayerLeavesChannel
    BY <1>o, <2>1 DEF PlayerLeavesChannel
  <2>2. ASSUME NEW x \in Rpcs, Connects(x) PROVE ~(chan' \in registered)
    <3>1. chan' = lastChan + 1 /\ chan' \in Channels
      BY <2>2 DEF Connects, ConnectAndSend, NextChannel
    <3>2. link[chan'] = "NONE"
      BY <1>o, <3>1
    <3> QED BY <1>o, <3>1, <3>2
  <2> QED BY <2>1, <2>2 DEF PlayerMoves
<1>k. Stays /\ chan \in registered /\ session' # None => Settled(session')
  <2> SUFFICES ASSUME Stays, chan \in registered, session' # None PROVE Settled(session')
    OBVIOUS
  <2>1. sent[chan] = None
    BY DEF Stays
  <2>2. CASE session' = session
    BY <2>1, <2>2 DEF SessionsSettled
  <2>3. CASE session' # session
    BY <2>3 DEF PlayerMoves, SessionsSettled
  <2> QED BY <2>2, <2>3
<1>3. ASSUME NEW c \in registered', sent'[c] # None, sent'[c].op \notin FirstOps
      PROVE  Settled(sent[c].session)'
  <2>0. c \in registered /\ c \in Channels
    BY <1>3, <1>h, <1>o
  <2>1. CASE sent'[c] = sent[c]
    BY <1>3, <1>s, <2>0, <2>1 DEF SessionsSettled
  <2>2. CASE sent'[c] # sent[c]
    <3>1. sent[c] = None /\ c >= lastChan /\ link'[c] = link[c]
      BY <1>h, <1>o, <2>0, <2>2 DEF PlayerWire
    <3>2. c = lastChan
      <4>1. ~(c > lastChan)
        BY <1>o, <2>0
      <4> QED BY <1>o, <2>0, <3>1, <4>1
    <3>3. CASE Stays
      <4>1. chan = c
        BY <1>o, <3>2, <3>3 DEF Stays
      <4>2. session' # None /\ sent'[c].session = session'
        <5>1. sent'[c].op \notin AttemptOps
          BY <1>3 DEF AttemptOps, FirstOps
        <5> QED BY <1>3, <2>0, <5>1 DEF BaseInv, HostOwned, Owned
      <4> QED BY <1>k, <1>s, <2>0, <3>3, <4>1, <4>2
    <3>4. CASE PlayerLeavesChannel
      BY <2>2, <3>4 DEF PlayerLeavesChannel
    <3>5. ASSUME NEW x \in Rpcs, Connects(x) PROVE FALSE
      <4>1. sent' = [sent EXCEPT ![lastChan + 1] = x]
        BY <3>5 DEF Connects, ConnectAndSend, NextChannel
      <4>2. c # lastChan + 1 /\ sent \in [Channels -> Rpcs \cup {None}]
        BY <1>o, <3>2 DEF BaseInv, TypeOK
      <4> QED BY <2>0, <2>2, <4>1, <4>2
    <3> QED BY <3>3, <3>4, <3>5 DEF PlayerMoves
  <2> QED BY <2>1, <2>2
<1>4. chan' \in registered' /\ session' # None => Settled(session)'
  <2> SUFFICES ASSUME chan' \in registered', session' # None PROVE Settled(session)'
    OBVIOUS
  <2>1. Stays /\ chan' = chan
    BY <1>h, <1>w DEF Stays
  <2> QED BY <1>h, <1>k, <1>s, <2>1
<1>5. chan' \in registered' => answer'[chan'] = None
  BY <1>h, <1>o
<1> QED BY <1>1, <1>2, <1>3, <1>4, <1>5 DEF SessionsSettled

(* Other attempts than the one being executed keep their sessions settled. *)
LEMMA ServeKeepsOpened ==
    ASSUME BaseInv, SessionsSettled, NEW c \in Channels, HostServes(c), FenceKept,
           NEW a \in opened', Seat(Attempt(a)) \in table'
    PROVE  Settled(a)' \/ (busy' # NoChannel /\ sent'[busy'].id = a)
<1>0. ServeFacts(c) /\ c # NoChannel
  BY HostServesFacts, ChannelOrder DEF BaseInv
<1>1. table \subseteq table' /\ c \in registered /\ sent[c] \in Rpcs
  BY <1>0 DEF ServeFacts, TakesScopes
<1>g. Settled(a) => Settled(a)'
  BY <1>1, SettledStays
<1>b. a \in opened /\ Seat(Attempt(a)) \in table =>
        Settled(a) \/ (busy # NoChannel /\ sent[busy].id = a)
  BY DEF SessionsSettled
<1>2. CASE HostOpens(c) \/ HostRecoversAttempt(c)
  <2> DEFINE b == sent[c].id
  <2>1. /\ busy = NoChannel /\ table' = table \cup {Seat(Attempt(b))}
        /\ opened' = opened \/ opened' = opened \cup {b}
    BY <1>2, AssignFacts DEF HostOpens, HostRecoversAttempt, Executing, NoHostWrite
  <2>2. b \in opened' => busy' = c /\ sent' = sent
    BY <1>2 DEF HostOpens, HostRecoversAttempt, NoHostWrite, wireVars
  <2> HIDE DEF b
  <2>3. CASE a = b
    BY <1>0, <2>2, <2>3 DEF b
  <2>4. CASE a # b
    <3>1. a \in opened /\ Seat(Attempt(a)) \in table
      BY <2>1, <2>4, SeatsDiffer
    <3> QED BY <1>b, <1>g, <2>1, <3>1
  <2> QED BY <2>3, <2>4
<1>3. CASE ~HostOpens(c) /\ ~HostRecoversAttempt(c)
  <2>1. opened' = opened
    BY <1>3 DEF HostServes, HostBindsSession, HostRefusesOpen, HostRecoversSession,
      HostRecoversRequest, HostRefusesRecovery, HostBegins, HostTakesChunk, HostCommits,
      HostCancels, HostRefusesRequest, NoHostWrite, hostVars
  <2>2. Seat(Attempt(a)) \in table
    BY <1>3, ServeTakesAttempts, <2>1 DEF BaseInv, TypeOK
  <2>3. Settled(a) \/ (busy # NoChannel /\ sent[busy].id = a)
    BY <1>b, <2>1, <2>2
  <2>4. CASE busy # NoChannel /\ sent[busy].id = a
    <3>1. busy = c /\ a \in Attempts
      <4>1. HostBindsSession(c) \/ HostRecoversSession(c) \/ HostRefusesRecovery(c)
        BY <1>3, <2>4 DEF HostServes, HostRefusesOpen, HostRecoversRequest, HostBegins,
          HostTakesChunk, HostCommits, HostCancels, HostRefusesRequest, Executing
      <4> QED BY <4>1, <2>1, <2>4
          DEF HostBindsSession, HostRecoversSession, HostRefusesRecovery, Executing,
              BaseInv, TypeOK
    <3>2. CASE HostBindsSession(c) \/ HostRecoversSession(c)
      <4>1. Seat(Session(a)) \in table'
        BY <2>4, <3>1, <3>2, AssignFacts DEF HostBindsSession, HostRecoversSession
      <4> QED BY <4>1 DEF Settled
    <3>3. CASE HostRefusesRecovery(c)
      <4>1. ~MayRecover(c, Session(a))
        BY <2>4, <3>1, <3>3 DEF HostRefusesRecovery, Executing
      <4> QED BY <1>1, <1>g, <3>1, <4>1, RefusedIsSettled
    <3>4. HostBindsSession(c) \/ HostRecoversSession(c) \/ HostRefusesRecovery(c)
      BY <1>3, <2>4 DEF HostServes, HostRefusesOpen, HostRecoversRequest, HostBegins,
        HostTakesChunk, HostCommits, HostCancels, HostRefusesRequest, Executing
    <3> QED BY <3>2, <3>3, <3>4
  <2> QED BY <1>g, <2>3, <2>4
<1> QED BY <1>2, <1>3

(* After an answer on the player's channel its session is settled.         *)
LEMMA AnswerSettles ==
    ASSUME BaseInv, SessionsSettled, NEW c \in Channels, c = chan, HostServes(c), FenceKept,
           NEW s, s = session, s # None, sent'[c] = None
    PROVE  Settled(s)'
<1>0. ServeFacts(c) /\ c # NoChannel
  BY HostServesFacts, ChannelOrder DEF BaseInv
<1>1. /\ table \subseteq table' /\ c \in registered
      /\ sent[c] \in Rpcs /\ sent[c] # None
  BY <1>0, RpcIsNotNone DEF ServeFacts, TakesScopes
<1>2. /\ s \in Attempts /\ s \in opened
      /\ IF sent[c].op \in AttemptOps
         THEN sent[c].op = "RECOVER_OPEN" /\ sent[c].id = s
         ELSE sent[c].session = s
  BY <1>0, <1>1, AsksOfItsSession
<1>g. Settled(s) => Settled(s)'
  BY <1>1, SettledStays
<1>3. ~HostOpens(c)
  BY <1>2 DEF HostOpens, Executing, AttemptOps
<1>4. ~HostRecoversAttempt(c)
  <2>1. SUFFICES ASSUME HostRecoversAttempt(c) PROVE FALSE
    OBVIOUS
  <2>2. sent[c].op = "RECOVER_OPEN"
    BY <2>1 DEF HostRecoversAttempt, Executing
  <2>3. sent[c].id \in opened
    BY <1>2, <2>2 DEF AttemptOps
  <2>4. sent' = sent
    BY <2>1, <2>3 DEF HostRecoversAttempt, wireVars
  <2> QED BY <1>1, <2>4
<1>5. CASE HostBindsSession(c) \/ HostRecoversSession(c)
  <2>1. sent[c].op \in AttemptOps
    BY <1>5, BusyFacts DEF HostBindsSession, HostRecoversSession, BaseInv
  <2>2. table' = table \cup {Seat(Session(sent[c].id))}
    BY <1>5, AssignFacts DEF HostBindsSession, HostRecoversSession
  <2> QED BY <1>2, <2>1, <2>2 DEF Settled
<1>6. CASE HostRecoversRequest(c)
  <2>1. sent[c].op \notin AttemptOps
    BY <1>6 DEF HostRecoversRequest, Executing, AttemptOps
  <2>2. table' = table \cup {Seat(Session(sent[c].session))}
    BY <1>6, AssignFacts DEF HostRecoversRequest
  <2> QED BY <1>2, <2>1, <2>2 DEF Settled
<1>7. CASE HostRefusesRecovery(c)
  <2>1. CASE sent[c].op = "RECOVER_OPEN" /\ ~MayRecover(c, Attempt(sent[c].id))
             /\ busy = NoChannel
    <3>1. sent[c].id = s
      BY <1>2, <2>1 DEF AttemptOps
    <3>2. Key(c, Attempt(s)) = Seat(Attempt(s)) /\ Seat(Attempt(s)) \in Keys
      BY <1>2, SeatTyped
    <3>3. Seat(Attempt(s)) \in table \/ Cardinality(table) = MaxScopes
      BY <1>1, <2>1, <3>1, <3>2, RefusedIsKnown DEF MayRecover
    <3>4. Settled(s)
      BY <1>2, <2>1, <3>3 DEF SessionsSettled, Settled
    <3> QED BY <1>g, <3>4
  <2>2. CASE sent[c].op = "RECOVER" /\ ~MayRecover(c, Session(sent[c].session))
    <3>1. sent[c].session = s
      BY <1>2, <2>2 DEF AttemptOps
    <3> QED BY <1>1, <1>2, <1>g, <2>2, <3>1, RefusedIsSettled
  <2>3. CASE busy = c /\ ~MayRecover(c, Session(sent[c].id))
    <3>1. sent[c].op \in AttemptOps
      BY <2>3, BusyFacts DEF BaseInv
    <3> QED BY <1>1, <1>2, <1>g, <2>3, <3>1, RefusedIsSettled
  <2> QED BY <1>7, <2>1, <2>2, <2>3 DEF HostRefusesRecovery, Executing
<1>8. ~HostRefusesOpen(c)
  BY <1>2 DEF HostRefusesOpen, Executing, AttemptOps
<1>9. CASE sent[c].op \in {"BEGIN", "CHUNK", "COMMIT", "CANCEL"}
  <2>1. sent[c].session = s /\ sent[c].op \notin FirstOps
    BY <1>2, <1>9 DEF AttemptOps, FirstOps
  <2>2. Settled(s)
    BY <1>1, <2>1 DEF SessionsSettled
  <2> QED BY <1>g, <2>2
<1>10. HostBegins(c) \/ HostTakesChunk(c) \/ HostCommits(c) \/ HostCancels(c)
         \/ HostRefusesRequest(c)
         => sent[c].op \in {"BEGIN", "CHUNK", "COMMIT", "CANCEL"}
  BY DEF HostBegins, HostTakesChunk, HostCommits, HostCancels, HostRefusesRequest, Executing
<1> QED BY <1>3, <1>4, <1>5, <1>6, <1>7, <1>8, <1>9, <1>10 DEF HostServes

(* An OPEN is acknowledged with its session taken.                         *)
LEMMA OpenAckSettles ==
    ASSUME BaseInv, SessionsSettled, NEW c \in Channels, HostServes(c), FenceKept,
           chan \in registered, answer'[chan] # None, answer'[chan].kind = "ACK",
           flow.cmd # None, flow.cmd[1] = "OPEN", NEW a, flow.cmd[2] = a
    PROVE  Settled(a)'
<1>0. /\ ServeFacts(c) /\ chan # NoChannel
      /\ c \in registered /\ sent[c] # None /\ sent[c] \in Rpcs
      /\ answer \in [Channels -> Replies \cup {None}]
  BY HostServesFacts, ServeKinds, ChannelOrder DEF BaseInv, TypeOK, FenceTypeOK
<1>1. table \subseteq table'
  BY <1>0 DEF ServeFacts, TakesScopes
<1>2. CASE answer'[chan] = answer[chan]
  <2>1. Settled(a)
    BY <1>2 DEF SessionsSettled
  <2> QED BY <1>1, <2>1, SettledStays
<1>3. CASE answer'[chan] # answer[chan]
  <2>1. c = chan
    BY <1>0, <1>3, ServeWire, ChannelOrder
  <2>2. sent[c].op \in AttemptOps /\ sent[c].id = flow.cmd[2]
    BY <1>0, <2>1, OpenFlow
  <2>4. ~HostOpens(c)
    BY <1>3 DEF HostOpens, wireVars
  <2>5. ~HostRecoversAttempt(c)
    <3>1. SUFFICES ASSUME HostRecoversAttempt(c) PROVE FALSE
      OBVIOUS
    <3>2. Respond(c, Reply("NOT_FOUND", <<>>))
      BY <1>3, <3>1 DEF HostRecoversAttempt, wireVars
    <3> QED BY <1>0, <2>1, <3>2, ReplyTyped DEF Respond
  <2>6. ~Refuse(c)
    BY <1>0, <2>1, ReplyTyped DEF Refuse, Respond
  <2>7. ~HostRecoversRequest(c)
    BY <2>2 DEF HostRecoversRequest, Executing, AttemptOps
  <2>8. HostBindsSession(c) \/ HostRecoversSession(c)
    BY <2>2, <2>4, <2>5, <2>6, <2>7, ServeKinds DEF AttemptOps
  <2> QED BY <2>2, <2>8, AssignFacts DEF HostBindsSession, HostRecoversSession, Settled
<1> QED BY <1>2, <1>3

LEMMA ServeKeepsSettled ==
    ASSUME BaseInv, SessionsSettled, NEW c \in Channels, HostServes(c), FenceKept
    PROVE  SessionsSettled'
<1>0. ServeFacts(c)
  BY HostServesFacts DEF BaseInv
<1>1. /\ UNCHANGED <<registered, chan, flow, session, link>> /\ table \subseteq table'
      /\ c \in registered
      /\ \A d \in Channels : sent'[d] # None => sent'[d] = sent[d]
      /\ \A d \in Channels \ {c} : sent'[d] = sent[d]
  BY <1>0, ServeWire
  DEF ServeFacts, channelVars, playerVars, flowVars, TakesScopes, RepliesTruly, Replied,
      wireVars, BaseInv, TypeOK
<1>o. registered \subseteq Channels /\ link[c] = "OPEN"
  BY <1>1 DEF BaseInv, TypeOK, FenceTypeOK, ChannelsInOrder
<1>2. \A d \in Channels : link'[d] = "PROOF" => sent'[d] # None /\ sent'[d].op \in FirstOps
  BY <1>1, <1>o DEF SessionsSettled
<1>3. ASSUME NEW d \in registered', sent'[d] # None, sent'[d].op \notin FirstOps
      PROVE  Settled(sent[d].session)'
  <2>1. sent'[d] = sent[d] /\ d \in registered
    BY <1>1, <1>3, <1>o
  <2>2. Settled(sent[d].session)
    BY <1>3, <2>1 DEF SessionsSettled
  <2> QED BY <1>1, <2>1, <2>2, SettledStays DEF Settled
<1>4. ASSUME chan' \in registered', sent'[chan'] = None, session' # None
      PROVE  Settled(session)'
  <2>1. CASE sent[chan] = None
    <3>1. Settled(session)
      BY <1>1, <1>4, <2>1 DEF SessionsSettled
    <3> QED BY <1>1, <3>1, SettledStays DEF Settled
  <2>2. CASE sent[chan] # None
    <3>1. chan \in Channels /\ c = chan
      BY <1>1, <1>4, <1>o, <2>2
    <3>2. ASSUME NEW s, s = session PROVE Settled(s)'
      BY <1>1, <1>4, <3>1, <3>2, AnswerSettles
    <3> QED BY <1>1, <3>2 DEF Settled
  <2> QED BY <2>1, <2>2
<1>5. ASSUME chan' \in registered', answer'[chan'] # None, answer'[chan'].kind = "ACK",
             flow'.cmd # None, flow'.cmd[1] = "OPEN"
      PROVE  Settled(flow.cmd[2])'
  <2>1. ASSUME NEW a, a = flow.cmd[2] PROVE Settled(a)'
    BY <1>1, <1>5, <2>1, OpenAckSettles
  <2> QED BY <1>1, <2>1 DEF Settled
<1> QED BY <1>2, <1>3, <1>4, <1>5, ServeKeepsOpened DEF SessionsSettled

(* A channel is accepted with the first request of its player in flight.   *)
LEMMA AcceptKeepsSettled ==
    ASSUME BaseInv, SessionsSettled, NEW c \in Channels, HostAcceptsProof(c)
    PROVE  SessionsSettled'
<1>1. /\ link[c] = "PROOF" /\ link' = [link EXCEPT ![c] = "OPEN"]
      /\ registered' = registered \cup {c}
      /\ UNCHANGED <<table, opened, busy, sent, answer, session, chan, flow>>
  BY DEF HostAcceptsProof, Register, hostVars, scopeVars, playerVars, flowVars
<1>2. /\ link \in [Channels -> {"NONE", "PROOF", "OPEN", "GONE"}]
      /\ answer[c] = None
  BY <1>1 DEF BaseInv, TypeOK, ChannelsInOrder
<1>3. \A d \in Channels : link'[d] = "PROOF" => link[d] = "PROOF"
  BY <1>1, <1>2
<1>4. sent[c] # None /\ sent[c].op \in FirstOps
  BY <1>1 DEF SessionsSettled
<1>5. \A a : Settled(a)' <=> Settled(a)
  BY <1>1 DEF Settled
<1> QED BY <1>1, <1>2, <1>3, <1>4, <1>5 DEF SessionsSettled

LEMMA EndKeepsSettled ==
    ASSUME BaseInv, SessionsSettled, NEW c \in Channels,
           HostLosesChannel(c) \/ HostLosesProof(c)
    PROVE  SessionsSettled'
<1>1. /\ link' = [link EXCEPT ![c] = "GONE"] /\ sent' = [sent EXCEPT ![c] = None]
      /\ registered' \subseteq registered
      /\ table' = table \/ (table' = {} /\ registered' = {})
      /\ UNCHANGED <<opened, busy, answer, session, chan, flow>>
  BY DEF HostLosesChannel, HostLosesProof, CloseChannel, EmptyTable, hostVars, fenceVars,
         scopeVars, channelVars, playerVars, flowVars
<1>2. c \notin registered'
  BY DEF HostLosesChannel, HostLosesProof, CloseChannel, BaseInv, ChannelsInOrder,
         fenceVars, channelVars
<1>3. /\ link \in [Channels -> {"NONE", "PROOF", "OPEN", "GONE"}]
      /\ sent \in [Channels -> Rpcs \cup {None}]
      /\ registered \subseteq Channels
  BY DEF BaseInv, TypeOK, FenceTypeOK
<1>4. /\ link'[c] = "GONE" /\ \A d \in Channels \ {c} : link'[d] = link[d]
      /\ sent'[c] = None /\ \A d \in Channels \ {c} : sent'[d] = sent[d]
  BY <1>1, <1>3
<1>5. busy # NoChannel => busy \in Channels /\ busy # c
  BY <1>3 DEF BaseInv, BusyInside, ChannelsInOrder, HostLosesChannel, HostLosesProof
<1>6. \A d \in Channels : link'[d] = "PROOF" => sent'[d] # None /\ sent'[d].op \in FirstOps
  BY <1>4 DEF SessionsSettled
<1>7. \A d \in registered' : d \in registered /\ sent'[d] = sent[d] /\ d \in Channels
  BY <1>1, <1>2, <1>3, <1>4
<1>8. CASE table' = table
  <2>1. \A a : Settled(a)' <=> Settled(a)
    BY <1>8 DEF Settled
  <2>2. busy # NoChannel => sent'[busy] = sent[busy]
    BY <1>4, <1>5
  <2>3. \A a \in opened' : Seat(Attempt(a)) \in table' =>
            Settled(a)' \/ (busy' # NoChannel /\ sent'[busy'].id = a)
    BY <1>1, <1>8, <2>1, <2>2 DEF SessionsSettled
  <2> QED BY <1>1, <1>6, <1>7, <2>1, <2>3 DEF SessionsSettled
<1>9. CASE table' = {} /\ registered' = {}
  BY <1>6, <1>9 DEF SessionsSettled
<1> QED BY <1>1, <1>8, <1>9

LEMMA NextKeepsSettled ==
    ASSUME BaseInv, SessionsSettled, [Next]_vars
    PROVE  SessionsSettled'
<1>1. BaseInv' /\ FenceKept
  BY NextKeepsBase
<1> DEFINE Stands == UNCHANGED <<table, registered, opened, busy, link, sent, answer,
                                 session, chan, flow>>
<1>q. ASSUME Stands PROVE SessionsSettled'
  <2>1. \A a : Settled(a)' <=> Settled(a)
    BY <1>q DEF Settled
  <2> QED BY <1>q, <2>1 DEF SessionsSettled
<1>2. ASSUME NEW c \in Channels, HostServes(c) PROVE SessionsSettled'
  BY <1>1, <1>2, ServeKeepsSettled
<1>3. ASSUME NEW c \in Channels,
             HostAcceptsProof(c) \/ HostLosesChannel(c) \/ HostLosesProof(c)
      PROVE  SessionsSettled'
  BY <1>3, AcceptKeepsSettled, EndKeepsSettled
<1>4. ASSUME NEW r \in Requests, NEW status \in {"IN_REVIEW", "REJECTED"},
             GmDecides(r, status)
      PROVE  SessionsSettled'
  BY <1>4, <1>q DEF GmDecides, fenceVars, scopeVars, channelVars, wireVars, playerVars, flowVars
<1>5. CASE CampaignAdvances \/ HostStarts \/ UNCHANGED vars
  BY <1>5, <1>q
  DEF CampaignAdvances, HostStarts, Reopen, vars, hostVars, fenceVars, scopeVars,
      channelVars, wireVars, playerVars, flowVars
<1>6. CASE HostStops
  <2>1. /\ \A d \in Channels : link'[d] # "PROOF"
        /\ registered' = {} /\ table' = {}
    BY <1>6 DEF HostStops, Close, EmptyTable
  <2> QED BY <2>1 DEF SessionsSettled
<1>7. CASE PlayerStep
  <2>1. PlayerMoves /\ HostStands
    BY <1>7, PlayerStepMoves, PlayerStepOnly DEF HostStands
  <2> QED BY <1>1, <2>1, PlayerKeepsSettled
<1> QED BY <1>2, <1>3, <1>4, <1>5, <1>6, <1>7 DEF Next, PlayerStep

LEMMA InitEstablishesSettled == Init => SessionsSettled
<1> SUFFICES ASSUME Init PROVE SessionsSettled
  OBVIOUS
<1>1. /\ link = [c \in Channels |-> "NONE"] /\ opened = {} /\ registered = {}
  BY DEF Init, FenceInit
<1> QED BY <1>1 DEF SessionsSettled

(* Whatever arrives late, BEGIN and CANCEL are executed only for a session *)
(* that was taken over before, or under a full table: their bindScope      *)
(* never creates a lease.                                                  *)
THEOREM BindsNothing == Spec => []BeginNeverBinds
<1>1. ASSUME BaseInv, SessionsSettled PROVE BeginNeverBinds
  <2> SUFFICES ASSUME NEW c \in Channels, Live(c), sent[c] # None,
                      sent[c].op \in {"BEGIN", "CANCEL"}
               PROVE  \/ Key(c, Session(sent[c].session)) \in table
                      \/ Cardinality(table) = MaxScopes
    BY DEF BeginNeverBinds
  <2>1. c \in registered /\ sent[c].op \notin FirstOps
    BY DEF Live, FirstOps
  <2>2. Settled(sent[c].session)
    BY <2>1, <1>1 DEF SessionsSettled
  <2> QED BY <2>2, KeyIsSeat DEF Settled
<1>2. BaseInv /\ SessionsSettled => BeginNeverBinds
  BY <1>1
<1>3. BaseInv /\ SessionsSettled /\ [Next]_vars => SessionsSettled'
  BY NextKeepsSettled
<1> QED BY <1>2, <1>3, BaseInvariant, InitEstablishesSettled, PTL DEF Spec

-----------------------------------------------------------------------------
(***************************************************************************)
(* The protocol implements the request of DeviceRequest.                   *)
(***************************************************************************)
\* The history of a stored request, with its first status.
Shown(h) == <<"PENDING">> \o h

AllStatuses == Statuses \cup {"PENDING"}

LEMMA ShownSequence ==
    ASSUME NEW h \in Histories
    PROVE  /\ h \in Seq(AllStatuses) /\ Len(h) \in Nat
           /\ Shown(h) \in Seq(AllStatuses)
           /\ Len(Shown(h)) = Len(h) + 1
           /\ Shown(h)[1] = "PENDING"
           /\ \A i \in 1..Len(h) : Shown(h)[i + 1] = h[i]
<1>1. h \in Seq(AllStatuses) /\ Len(h) \in Nat
  <2>1. h \in Seq(Statuses) /\ Len(h) \in 0..2
    BY HistoryLengths
  <2>2. Statuses \subseteq AllStatuses
    BY DEF AllStatuses
  <2> QED BY <2>1, <2>2, SeqMonotonic
<1>2. <<"PENDING">> \in Seq(AllStatuses) /\ Len(<<"PENDING">>) = 1 /\ <<"PENDING">>[1] = "PENDING"
  <2>1. "PENDING" \in AllStatuses
    BY DEF AllStatuses
  <2> QED BY <2>1, ShortSequences
<1> DEFINE p == <<"PENDING">>
<1>3. /\ p \o h \in Seq(AllStatuses)
      /\ Len(p \o h) = Len(p) + Len(h)
      /\ \A i \in 1..Len(p) + Len(h) :
            (p \o h)[i] = IF i <= Len(p) THEN p[i] ELSE h[i - Len(p)]
  <2> HIDE DEF p
  <2> QED BY <1>1, <1>2, ConcatProperties DEF p
<1>4. Len(p) = 1 /\ p[1] = "PENDING" /\ Shown(h) = p \o h
  BY <1>2 DEF Shown
<1> HIDE DEF p
<1>5. Len(Shown(h)) = Len(h) + 1 /\ Shown(h)[1] = "PENDING"
  BY <1>1, <1>3, <1>4
<1>6. ASSUME NEW i \in 1..Len(h) PROVE Shown(h)[i + 1] = h[i]
  <2>1. i + 1 \in 1..1 + Len(h) /\ ~(i + 1 <= 1) /\ i + 1 - 1 = i
    BY <1>1
  <2> QED BY <1>3, <1>4, <2>1
<1> QED BY <1>1, <1>3, <1>4, <1>5, <1>6

(* Its last status tells what a request may still do.                      *)
LEMMA ShownStatus ==
    ASSUME NEW h \in Histories
    PROVE  /\ Shown(h) # <<>> /\ Shown(h)[Len(Shown(h))] = Status(h)
           /\ Request!Open(Shown(h)) <=> Active(h)
           /\ Request!Pending(Shown(h)) <=> h = <<>>
           /\ Request!Decided(Shown(h)) <=> Status(h) \in {"IN_REVIEW", "REJECTED"}
<1>1. /\ Shown(h) \in Seq(AllStatuses) /\ Len(h) \in Nat
      /\ Len(Shown(h)) = Len(h) + 1
      /\ Shown(h)[1] = "PENDING"
      /\ \A i \in 1..Len(h) : Shown(h)[i + 1] = h[i]
  BY ShownSequence
<1>2. Len(h) = 0 <=> h = <<>>
  BY HistoryLengths
<1>3. Shown(h) # <<>>
  <2>1. Len(<<>>) = 0
    OBVIOUS
  <2> QED BY <1>1, <2>1
<1>4. Shown(h)[Len(Shown(h))] = Status(h)
  <2>1. CASE h = <<>>
    BY <1>1, <1>2, <2>1 DEF Status
  <2>2. CASE h # <<>>
    <3>1. Len(h) \in 1..Len(h)
      BY <1>1, <1>2, <2>2
    <3> QED BY <1>1, <2>2, <3>1 DEF Status
  <2> QED BY <2>1, <2>2
<1>5. Request!Open(Shown(h)) <=> Status(h) \in {"PENDING", "IN_REVIEW"}
  BY <1>3, <1>4 DEF Request!Open
<1>6. Request!Decided(Shown(h)) <=> Status(h) \in {"IN_REVIEW", "REJECTED"}
  BY <1>3, <1>4 DEF Request!Decided
<1>7. Active(h) <=> Status(h) \in {"PENDING", "IN_REVIEW"}
  BY StatusTable DEF Active, Histories, Closing
<1>8. Shown(h) = <<"PENDING">> <=> h = <<>>
  <2>1. CASE h = <<>>
    <3>1. "PENDING" \in AllStatuses
      BY DEF AllStatuses
    <3>2. <<"PENDING">> \in Seq(AllStatuses)
      BY <3>1, ShortSequences
    <3> QED BY <2>1, <3>2, ConcatEmptySeq DEF Shown
  <2>2. CASE h # <<>>
    <3>1. Len(<<"PENDING">>) = 1
      OBVIOUS
    <3> QED BY <1>1, <1>2, <2>2, <3>1
  <2> QED BY <2>1, <2>2
<1> QED BY <1>3, <1>4, <1>5, <1>6, <1>7, <1>8 DEF Request!Pending

LEMMA ShownAppends ==
    ASSUME NEW h \in Histories, NEW status \in Statuses
    PROVE  Append(Shown(h), status) = Shown(Append(h, status))
<1>1. h \in Seq(AllStatuses) /\ Shown(h) \in Seq(AllStatuses)
  BY ShownSequence
<1>2. "PENDING" \in AllStatuses /\ status \in AllStatuses
  BY DEF AllStatuses
<1>3. <<"PENDING">> \in Seq(AllStatuses) /\ <<status>> \in Seq(AllStatuses)
  BY <1>2, ShortSequences
<1>4. Append(h, status) = h \o <<status>> /\ Append(Shown(h), status) = Shown(h) \o <<status>>
  BY <1>1, <1>2, AppendIsConcat
<1>5. (<<"PENDING">> \o h) \o <<status>> = <<"PENDING">> \o (h \o <<status>>)
  BY <1>1, <1>3, ConcatAssociative
<1> QED BY <1>4, <1>5 DEF Shown

(* A history the player was shown is the beginning of a longer one.        *)
LEMMA ShownExtends ==
    ASSUME NEW f \in Histories, NEW g \in Histories, Extends(f, g)
    PROVE  /\ Len(Shown(g)) \in 1..Len(Shown(f))
           /\ Shown(g) = SubSeq(Shown(f), 1, Len(Shown(g)))
<1>1. Len(g) <= Len(f) /\ g = SubSeq(f, 1, Len(g))
  BY DEF Extends
<1>2. /\ f \in Seq(AllStatuses) /\ Len(f) \in Nat /\ Shown(f) \in Seq(AllStatuses)
      /\ Len(Shown(f)) = Len(f) + 1 /\ Shown(f)[1] = "PENDING"
      /\ \A i \in 1..Len(f) : Shown(f)[i + 1] = f[i]
  BY ShownSequence
<1>3. /\ g \in Seq(AllStatuses) /\ Len(g) \in Nat /\ Shown(g) \in Seq(AllStatuses)
      /\ Len(Shown(g)) = Len(g) + 1 /\ Shown(g)[1] = "PENDING"
      /\ \A i \in 1..Len(g) : Shown(g)[i + 1] = g[i]
  BY ShownSequence
<1>4. \A i \in 1..Len(g) : g[i] = f[i]
  <2>1. \A i \in 1..Len(g) : f[i] \in AllStatuses
    BY <1>1, <1>2, <1>3, ElementOfSeq
  <2>2. \A i \in 1..Len(g) - 1 + 1 : SubSeq(f, 1, Len(g))[i] = f[1 + i - 1]
    BY <1>3, <2>1, SubSeqProperties
  <2> QED BY <1>1, <1>3, <2>2
<1> DEFINE s == SubSeq(Shown(f), 1, Len(Shown(g)))
<1>5. /\ s \in Seq(AllStatuses) /\ Len(s) = Len(Shown(g))
      /\ \A i \in 1..Len(Shown(g)) : s[i] = Shown(f)[i]
  <2>1. \A i \in 1..Len(Shown(g)) : Shown(f)[i] \in AllStatuses
    BY <1>1, <1>2, <1>3, ElementOfSeq
  <2>2. Len(Shown(g)) \in Nat /\ 1 <= Len(Shown(g))
    BY <1>3
  <2>3. /\ s \in Seq(AllStatuses)
        /\ Len(s) = IF 1 <= Len(Shown(g)) THEN Len(Shown(g)) - 1 + 1 ELSE 0
        /\ \A i \in 1..Len(Shown(g)) - 1 + 1 : s[i] = Shown(f)[1 + i - 1]
    BY <2>1, <2>2, SubSeqProperties
  <2> QED BY <2>2, <2>3
<1> HIDE DEF s
<1>6. ASSUME NEW i \in 1..Len(s) PROVE s[i] = Shown(g)[i]
  <2>1. CASE i = 1
    BY <1>2, <1>3, <1>5, <2>1
  <2>2. CASE i # 1
    <3>1. i - 1 \in 1..Len(g) /\ i - 1 \in 1..Len(f) /\ i = (i - 1) + 1
      BY <1>1, <1>2, <1>3, <1>5, <2>2
    <3>2. Shown(f)[(i - 1) + 1] = f[i - 1] /\ Shown(g)[(i - 1) + 1] = g[i - 1]
      BY <1>2, <1>3, <3>1
    <3> QED BY <1>4, <1>5, <3>1, <3>2
  <2> QED BY <2>1, <2>2
<1>7. s = Shown(g)
  BY <1>3, <1>5, <1>6, SeqEqual
<1>8. Len(Shown(g)) \in 1..Len(Shown(f))
  BY <1>1, <1>2, <1>3
<1> QED BY <1>7, <1>8 DEF s

\* What the abstract request is, in the states of the protocol.
Asked == {r \in Requests : outbox[SUBMIT(r)] # "NONE"}
HistoryOf == [r \in Requests |-> IF r \in submitted THEN Shown(log[r]) ELSE <<>>]
KnownOf ==
    [r \in Requests |-> IF outbox[SUBMIT(r)] = "ACK" THEN Shown(view[r]) ELSE <<>>]
CancelOf ==
    [r \in Requests |->
        CASE outbox[CANCEL(r)] = "NONE" -> "NO"
          [] outbox[CANCEL(r)] = "PENDING" -> "ASKED"
          [] outbox[CANCEL(r)] = "ACK" -> "CANCELLED"
          [] OTHER -> "TOO_LATE"]

RequestStep == Request!RequestNext \/ UNCHANGED <<Asked, HistoryOf, KnownOf, CancelOf>>

LEMMA RequestStepForm == RequestStep <=> [Request!RequestNext]_(Request!requestVars)
  BY DEF RequestStep, Request!requestVars, Asked, HistoryOf, KnownOf, CancelOf, Shown

LEMMA AskForm ==
    ASSUME NEW r \in Requests,
           r \notin Asked, \A q \in Asked : ~Request!Open(KnownOf[q]),
           Asked' = Asked \cup {r}, UNCHANGED <<HistoryOf, KnownOf, CancelOf>>
    PROVE  RequestStep
<1>1. Request!Ask(r)
  BY DEF Request!Ask, Asked, HistoryOf, KnownOf, CancelOf, Shown
<1> QED BY <1>1 DEF RequestStep, Request!RequestNext

LEMMA SubmitForm ==
    ASSUME NEW r \in Requests,
           r \in Asked, HistoryOf[r] = <<>>,
           \A q \in Requests : ~Request!Open(HistoryOf[q]),
           HistoryOf' = [HistoryOf EXCEPT ![r] = <<"PENDING">>],
           UNCHANGED <<Asked, KnownOf, CancelOf>>
    PROVE  RequestStep
<1>1. Request!Submit(r)
  BY DEF Request!Submit, Asked, HistoryOf, KnownOf, CancelOf, Shown
<1> QED BY <1>1 DEF RequestStep, Request!RequestNext

LEMMA DecideForm ==
    ASSUME NEW r \in Requests, NEW status \in {"IN_REVIEW", "REJECTED"},
           IF status = "REJECTED" THEN Request!Open(HistoryOf[r])
                                  ELSE Request!Pending(HistoryOf[r]),
           HistoryOf' = [HistoryOf EXCEPT ![r] = Append(HistoryOf[r], status)],
           UNCHANGED <<Asked, KnownOf, CancelOf>>
    PROVE  RequestStep
<1>1. Request!Decide(r, status)
  BY DEF Request!Decide, Asked, HistoryOf, KnownOf, CancelOf, Shown
<1> QED BY <1>1 DEF RequestStep, Request!RequestNext

LEMMA AskCancelForm ==
    ASSUME NEW r \in Requests,
           Request!Pending(KnownOf[r]), CancelOf[r] = "NO",
           CancelOf' = [CancelOf EXCEPT ![r] = "ASKED"],
           UNCHANGED <<Asked, HistoryOf, KnownOf>>
    PROVE  RequestStep
<1>1. Request!AskCancel(r)
  BY DEF Request!AskCancel, Asked, HistoryOf, KnownOf, CancelOf, Shown
<1> QED BY <1>1 DEF RequestStep, Request!RequestNext

LEMMA CancelForm ==
    ASSUME NEW r \in Requests,
           CancelOf[r] = "ASKED", Request!Pending(HistoryOf[r]),
           HistoryOf' = [HistoryOf EXCEPT ![r] = Append(HistoryOf[r], "CANCELLED")],
           UNCHANGED <<Asked, KnownOf, CancelOf>>
    PROVE  RequestStep
<1>1. Request!Cancel(r)
  BY DEF Request!Cancel, Asked, HistoryOf, KnownOf, CancelOf, Shown
<1> QED BY <1>1 DEF RequestStep, Request!RequestNext

LEMMA LearnForm ==
    ASSUME NEW r \in Requests,
           NEW n \in Len(KnownOf[r]) + 1 .. Len(HistoryOf[r]),
           KnownOf' = [KnownOf EXCEPT ![r] = SubSeq(HistoryOf[r], 1, n)],
           CancelOf' = IF CancelOf[r] = "ASKED" /\ Request!Decided(KnownOf'[r])
                       THEN [CancelOf EXCEPT ![r] = "TOO_LATE"]
                       ELSE CancelOf,
           UNCHANGED <<Asked, HistoryOf>>
    PROVE  RequestStep
<1>1. Request!Learn(r)
  BY DEF Request!Learn, Asked, HistoryOf, KnownOf, CancelOf, Shown
<1> QED BY <1>1 DEF RequestStep, Request!RequestNext

LEMMA ConfirmCancelForm ==
    ASSUME NEW r \in Requests,
           CancelOf[r] = "ASKED", HistoryOf[r] = <<"PENDING", "CANCELLED">>,
           CancelOf' = [CancelOf EXCEPT ![r] = "CANCELLED"],
           KnownOf' = [KnownOf EXCEPT ![r] = HistoryOf[r]],
           UNCHANGED <<Asked, HistoryOf>>
    PROVE  RequestStep
<1>1. Request!ConfirmCancel(r)
  BY DEF Request!ConfirmCancel, Asked, HistoryOf, KnownOf, CancelOf, Shown
<1> QED BY <1>1 DEF RequestStep, Request!RequestNext

\* A request gives way to the next one only when it is closed.
FormerClosed ==
    \A q \in Requests :
        outbox[SUBMIT(q)] = "ACK" => q = request \/ Status(view[q]) \in Closing

SubmitsInTurn ==
    \A q \in Requests :
        outbox[SUBMIT(q)] = "PENDING" => request = None \/ Status(view[request]) \in Closing

\* A decision the player knows settles its CANCEL at once.
CancelWaits ==
    \A q \in Requests :
        outbox[CANCEL(q)] = "PENDING" => view[q] \in {<<>>, <<"CANCELLED">>}

RequestInv == FormerClosed /\ SubmitsInTurn /\ CancelWaits

\* The steps of the player's journal, as far as requests are concerned.
Pins(r) ==
    /\ outbox[SUBMIT(r)] = "NONE" /\ ~Provisional /\ Pending = {}
    /\ outbox' = [outbox EXCEPT ![SUBMIT(r)] = "PENDING"]
    /\ UNCHANGED <<request, view>>

PinsCancel(r) ==
    /\ r = request /\ outbox[CANCEL(r)] = "NONE" /\ view[r] = <<>>
    /\ outbox' = [outbox EXCEPT ![CANCEL(r)] = "PENDING"]
    /\ UNCHANGED <<request, view>>

Receives(r) ==
    /\ outbox[SUBMIT(r)] = "PENDING" /\ r \in submitted
    /\ outbox' = [outbox EXCEPT ![SUBMIT(r)] = "ACK"]
    /\ request' = r
    /\ view' = [view EXCEPT ![r] = <<>>]

Learns(r, h) ==
    /\ r = request /\ Extends(log[r], h) /\ Extends(h, view[r])
    /\ outbox[CANCEL(r)] = "PENDING" => Status(h) \notin {"IN_REVIEW", "REJECTED"}
    /\ view' = [view EXCEPT ![r] = h]
    /\ UNCHANGED <<outbox, request>>

Settles(r, h) ==
    /\ r = request /\ Extends(log[r], h) /\ Extends(h, view[r])
    /\ outbox[CANCEL(r)] = "PENDING" /\ Status(h) \in {"IN_REVIEW", "REJECTED"}
    /\ outbox' = [outbox EXCEPT ![CANCEL(r)] = "SETTLED"]
    /\ view' = [view EXCEPT ![r] = h]
    /\ UNCHANGED request

Confirms(r) ==
    /\ r = request /\ outbox[CANCEL(r)] = "PENDING" /\ log[r] = <<"CANCELLED">>
    /\ outbox' = [outbox EXCEPT ![CANCEL(r)] = "ACK"]
    /\ view' = [view EXCEPT ![r] = <<"CANCELLED">>]
    /\ UNCHANGED request

OtherWrite ==
    /\ \/ UNCHANGED outbox
       \/ \E a \in Attempts, v \in {"PENDING", "ACK", "ABSENT"} :
            outbox' = [outbox EXCEPT ![OPEN(a)] = v]
    /\ UNCHANGED <<request, view>>

JournalStep ==
    \/ OtherWrite
    \/ \E r \in Requests :
        \/ Pins(r)
        \/ PinsCancel(r)
        \/ Receives(r)
        \/ \E h \in Histories : Learns(r, h) \/ Settles(r, h)
        \/ Confirms(r)

(* One command of a request changes, and the others stay.                  *)
LEMMA OneSubmitChanges ==
    ASSUME BaseInv, NEW r \in Requests, NEW v \in {"PENDING", "ACK"},
           outbox' = [outbox EXCEPT ![SUBMIT(r)] = v]
    PROVE  /\ outbox'[SUBMIT(r)] = v
           /\ \A q \in Requests \ {r} : outbox'[SUBMIT(q)] = outbox[SUBMIT(q)]
           /\ \A q \in Requests : outbox'[CANCEL(q)] = outbox[CANCEL(q)]
<1> DEFINE m == SUBMIT(r)
<1>1. m \in Commands /\ outbox' = [outbox EXCEPT ![m] = v]
  BY CommandForms
<1>2. /\ \A q \in Requests \ {r} : SUBMIT(q) # m
      /\ \A q \in Requests : CANCEL(q) # m
  BY CommandsDiffer
<1> HIDE DEF m
<1>3. /\ outbox'[m] = v
      /\ \A q \in Requests : SUBMIT(q) # m => outbox'[SUBMIT(q)] = outbox[SUBMIT(q)]
      /\ \A q \in Requests : CANCEL(q) # m => outbox'[CANCEL(q)] = outbox[CANCEL(q)]
  BY <1>1, OneCommandChanges DEF BaseInv
<1> QED BY <1>2, <1>3 DEF m

LEMMA OneCancelChanges ==
    ASSUME BaseInv, NEW r \in Requests, NEW v \in {"PENDING", "ACK", "SETTLED"},
           outbox' = [outbox EXCEPT ![CANCEL(r)] = v]
    PROVE  /\ outbox'[CANCEL(r)] = v
           /\ \A q \in Requests \ {r} : outbox'[CANCEL(q)] = outbox[CANCEL(q)]
           /\ \A q \in Requests : outbox'[SUBMIT(q)] = outbox[SUBMIT(q)]
<1> DEFINE m == CANCEL(r)
<1>1. m \in Commands /\ outbox' = [outbox EXCEPT ![m] = v]
  BY CommandForms
<1>2. /\ \A q \in Requests \ {r} : CANCEL(q) # m
      /\ \A q \in Requests : SUBMIT(q) # m
  BY CommandsDiffer
<1> HIDE DEF m
<1>3. /\ outbox'[m] = v
      /\ \A q \in Requests : SUBMIT(q) # m => outbox'[SUBMIT(q)] = outbox[SUBMIT(q)]
      /\ \A q \in Requests : CANCEL(q) # m => outbox'[CANCEL(q)] = outbox[CANCEL(q)]
  BY <1>1, OneCommandChanges DEF BaseInv
<1> QED BY <1>2, <1>3 DEF m

LEMMA OtherWriteFacts ==
    ASSUME BaseInv, OtherWrite
    PROVE  \A r \in Requests : /\ outbox'[SUBMIT(r)] = outbox[SUBMIT(r)]
                               /\ outbox'[CANCEL(r)] = outbox[CANCEL(r)]
<1>1. CASE UNCHANGED outbox
  BY <1>1
<1>2. ASSUME NEW a \in Attempts, NEW v \in {"PENDING", "ACK", "ABSENT"},
             outbox' = [outbox EXCEPT ![OPEN(a)] = v]
      PROVE  \A r \in Requests : /\ outbox'[SUBMIT(r)] = outbox[SUBMIT(r)]
                                 /\ outbox'[CANCEL(r)] = outbox[CANCEL(r)]
  <2> DEFINE m == OPEN(a)
  <2>1. m \in Commands /\ outbox' = [outbox EXCEPT ![m] = v]
    BY <1>2, CommandForms
  <2>2. \A q \in Requests : CANCEL(q) # m /\ SUBMIT(q) # m
    BY CommandsDiffer
  <2> HIDE DEF m
  <2> QED BY <2>1, <2>2, OneCommandChanges DEF BaseInv
<1> QED BY <1>1, <1>2 DEF OtherWrite

(* Nothing else is pending.                                                *)
LEMMA OnePending ==
    ASSUME BaseInv, NEW r \in Requests
    PROVE  /\ outbox[SUBMIT(r)] = "PENDING" =>
                \A q \in Requests \ {r} : outbox[SUBMIT(q)] # "PENDING"
           /\ outbox[CANCEL(r)] = "PENDING" =>
                \A q \in Requests : outbox[SUBMIT(q)] # "PENDING"
<1>1. \A m, n \in Commands : outbox[m] = "PENDING" /\ outbox[n] = "PENDING" => m = n
  BY DEF BaseInv, OutboxKinds, Pending
<1>2. \A q \in Requests : SUBMIT(q) \in Commands /\ CANCEL(q) \in Commands
  BY CommandForms
<1> QED BY <1>1, <1>2, CommandsDiffer

LEMMA JournalKeepsRequest ==
    ASSUME BaseInv, RequestInv, JournalStep
    PROVE  RequestInv'
<1>t. /\ TypeOK /\ view \in [Requests -> Histories] /\ request \in Requests \cup {None}
      /\ log \in [Requests -> Histories]
  BY DEF BaseInv, TypeOK
<1>1. CASE OtherWrite
  <2>1. \A r \in Requests : /\ outbox'[SUBMIT(r)] = outbox[SUBMIT(r)]
                            /\ outbox'[CANCEL(r)] = outbox[CANCEL(r)]
    BY <1>1, OtherWriteFacts
  <2>2. UNCHANGED <<request, view>>
    BY <1>1 DEF OtherWrite
  <2> QED BY <2>1, <2>2 DEF RequestInv, FormerClosed, SubmitsInTurn, CancelWaits
<1>2. ASSUME NEW r \in Requests, Pins(r) PROVE RequestInv'
  <2>1. /\ \A q \in Requests \ {r} : outbox'[SUBMIT(q)] = outbox[SUBMIT(q)]
        /\ \A q \in Requests : outbox'[CANCEL(q)] = outbox[CANCEL(q)]
        /\ outbox'[SUBMIT(r)] = "PENDING"
        /\ UNCHANGED <<request, view>>
    BY <1>2, OneSubmitChanges DEF Pins
  <2>2. request = None \/ Status(view[request]) \in Closing
    BY <1>2 DEF Pins, Provisional, Active
  <2> QED BY <2>1, <2>2 DEF RequestInv, FormerClosed, SubmitsInTurn, CancelWaits
<1>3. ASSUME NEW r \in Requests, PinsCancel(r) PROVE RequestInv'
  <2>1. /\ \A q \in Requests : outbox'[SUBMIT(q)] = outbox[SUBMIT(q)]
        /\ \A q \in Requests \ {r} : outbox'[CANCEL(q)] = outbox[CANCEL(q)]
        /\ UNCHANGED <<request, view>> /\ view[r] = <<>>
    BY <1>3, OneCancelChanges DEF PinsCancel
  <2> QED BY <2>1 DEF RequestInv, FormerClosed, SubmitsInTurn, CancelWaits
<1>4. ASSUME NEW r \in Requests, Receives(r) PROVE RequestInv'
  <2>1. /\ \A q \in Requests \ {r} : outbox'[SUBMIT(q)] = outbox[SUBMIT(q)]
        /\ \A q \in Requests : outbox'[CANCEL(q)] = outbox[CANCEL(q)]
        /\ outbox'[SUBMIT(r)] = "ACK"
        /\ request' = r /\ view' = [view EXCEPT ![r] = <<>>]
    BY <1>4, OneSubmitChanges DEF Receives
  <2>2. /\ view'[r] = <<>> /\ \A q \in Requests \ {r} : view'[q] = view[q]
    BY <1>t, <2>1
  <2>3. request = None \/ Status(view[request]) \in Closing
    BY <1>4 DEF RequestInv, SubmitsInTurn, Receives
  <2>4. \A q \in Requests \ {r} : outbox[SUBMIT(q)] # "PENDING"
    BY <1>4, OnePending DEF Receives
  <2>5. FormerClosed'
    <3>1. ASSUME NEW q \in Requests \ {r}, outbox'[SUBMIT(q)] = "ACK"
          PROVE  Status(view'[q]) \in Closing
      <4>1. q = request \/ Status(view[q]) \in Closing
        BY <2>1, <3>1 DEF RequestInv, FormerClosed
      <4>2. q # None
        BY NoneIsNoId
      <4> QED BY <2>2, <2>3, <4>1, <4>2
    <3> QED BY <2>1, <3>1 DEF FormerClosed
  <2>6. SubmitsInTurn'
    BY <2>1, <2>4 DEF SubmitsInTurn
  <2>7. CancelWaits'
    BY <2>1, <2>2 DEF RequestInv, CancelWaits
  <2> QED BY <2>5, <2>6, <2>7 DEF RequestInv
<1>5. ASSUME NEW r \in Requests, NEW h \in Histories, Learns(r, h)
      PROVE  RequestInv'
  <2>1. /\ view'[r] = h /\ \A q \in Requests \ {r} : view'[q] = view[q]
        /\ UNCHANGED <<outbox, request>> /\ r = request
    BY <1>t, <1>5 DEF Learns
  <2>2. Status(view[r]) \in Closing => Status(h) \in Closing
    <3>1. view[r] \in Histories /\ Extends(h, view[r])
      BY <1>t, <1>5 DEF Learns
    <3> QED BY <3>1, ExtendsTable, StatusTable, HistoryValues DEF Closing
  <2>3. outbox[CANCEL(r)] = "PENDING" => h \in {<<>>, <<"CANCELLED">>}
    BY <1>5, StatusTable DEF Learns, Histories
  <2>4. FormerClosed'
    BY <2>1 DEF RequestInv, FormerClosed
  <2>5. SubmitsInTurn'
    BY <2>1, <2>2 DEF RequestInv, SubmitsInTurn
  <2>6. CancelWaits'
    BY <2>1, <2>3 DEF RequestInv, CancelWaits
  <2> QED BY <2>4, <2>5, <2>6 DEF RequestInv
<1>6. ASSUME NEW r \in Requests, NEW h \in Histories,
             \/ Settles(r, h)
             \/ h = <<"CANCELLED">> /\ Confirms(r)
      PROVE  RequestInv'
  <2>1. /\ view'[r] = h /\ \A q \in Requests \ {r} : view'[q] = view[q]
        /\ UNCHANGED request /\ r = request /\ outbox[CANCEL(r)] = "PENDING"
    BY <1>t, <1>6 DEF Settles, Confirms
  <2>2. \E v \in {"SETTLED", "ACK"} : outbox' = [outbox EXCEPT ![CANCEL(r)] = v]
    BY <1>6 DEF Settles, Confirms
  <2>3. /\ \A q \in Requests : outbox'[SUBMIT(q)] = outbox[SUBMIT(q)]
        /\ \A q \in Requests \ {r} : outbox'[CANCEL(q)] = outbox[CANCEL(q)]
        /\ outbox'[CANCEL(r)] \in {"SETTLED", "ACK"}
    BY <2>2, OneCancelChanges
  <2>4. \A q \in Requests : outbox[SUBMIT(q)] # "PENDING"
    BY <2>1, OnePending
  <2>5. FormerClosed'
    BY <2>1, <2>3 DEF RequestInv, FormerClosed
  <2>6. SubmitsInTurn'
    BY <2>3, <2>4 DEF SubmitsInTurn
  <2>7. CancelWaits'
    BY <2>1, <2>3 DEF RequestInv, CancelWaits
  <2> QED BY <2>5, <2>6, <2>7 DEF RequestInv
<1> QED BY <1>1, <1>2, <1>3, <1>4, <1>5, <1>6, HistoryValues DEF JournalStep

LEMMA ShownGrows ==
    ASSUME NEW f \in Histories, NEW g \in Histories, NEW h \in Histories,
           Extends(f, g), Extends(g, h), g # h
    PROVE  \E n \in Len(Shown(h)) + 1 .. Len(Shown(f)) :
              Shown(g) = SubSeq(Shown(f), 1, n)
<1>1. Len(g) \in Nat /\ g \in Seq(AllStatuses) /\ Len(Shown(g)) = Len(g) + 1
  BY ShownSequence
<1>2. Len(h) \in Nat /\ Len(Shown(h)) = Len(h) + 1
  BY ShownSequence
<1>3. Len(h) <= Len(g) /\ h = SubSeq(g, 1, Len(h)) /\ g = SubSeq(g, 1, Len(g))
  BY <1>1, SubSeqFull DEF Extends
<1>4. Len(h) < Len(g)
  BY <1>1, <1>2, <1>3
<1>5. /\ Len(Shown(g)) \in 1..Len(Shown(f))
      /\ Shown(g) = SubSeq(Shown(f), 1, Len(Shown(g)))
  BY ShownExtends
<1>6. Len(Shown(f)) \in Nat
  <2>1. Len(f) \in Nat /\ Len(Shown(f)) = Len(f) + 1
    BY ShownSequence
  <2> QED BY <2>1
<1>7. Len(Shown(g)) \in Len(Shown(h)) + 1 .. Len(Shown(f))
  BY <1>1, <1>2, <1>4, <1>5, <1>6
<1> QED BY <1>5, <1>7

LEMMA ShownStart ==
    /\ Shown(<<>>) = <<"PENDING">> /\ Len(Shown(<<>>)) = 1 /\ Len(<<>>) = 0
    /\ Shown(<<"CANCELLED">>) = <<"PENDING", "CANCELLED">>
    /\ ~Request!Open(<<>>) /\ ~Request!Pending(<<>>) /\ ~Request!Decided(<<>>)
<1>1. Shown(<<>>) = <<"PENDING">> /\ Len(Shown(<<>>)) = 1 /\ Len(<<>>) = 0
  <2>1. Request!Pending(Shown(<<>>))
    BY ShownStatus, HistoryValues
  <2>2. Len(<<>>) = 0 /\ Len(<<"PENDING">>) = 1
    OBVIOUS
  <2> QED BY <2>1, <2>2 DEF Request!Pending
<1>2. Shown(<<"CANCELLED">>) = <<"PENDING", "CANCELLED">>
  <2> DEFINE c == <<"CANCELLED">>
             p == <<"PENDING", "CANCELLED">>
  <2>1. Len(c) = 1 /\ c[1] = "CANCELLED" /\ c \in Histories
    BY HistoryValues
  <2>2. /\ p \in Seq(AllStatuses) /\ Len(p) = 2
        /\ p[1] = "PENDING" /\ p[2] = "CANCELLED"
    <3>1. "PENDING" \in AllStatuses /\ "CANCELLED" \in AllStatuses
      BY DEF AllStatuses, Statuses, Closing
    <3> QED BY <3>1, ShortSequences
  <2> HIDE DEF c, p
  <2>3. /\ Shown(c) \in Seq(AllStatuses) /\ Len(Shown(c)) = Len(c) + 1
        /\ Shown(c)[1] = "PENDING"
        /\ \A i \in 1..Len(c) : Shown(c)[i + 1] = c[i]
    BY <2>1, ShownSequence
  <2>4. Shown(c)[2] = "CANCELLED"
    <3>1. 1 \in 1..Len(c) /\ 1 + 1 = 2
      BY <2>1
    <3> QED BY <2>1, <2>3, <3>1
  <2>5. \A i \in 1..Len(Shown(c)) : Shown(c)[i] = p[i]
    BY <2>1, <2>2, <2>3, <2>4
  <2>6. Shown(c) = p
    BY <2>1, <2>2, <2>3, <2>5, SeqEqual
  <2> QED BY <2>6 DEF c, p
<1>3. ~Request!Open(<<>>) /\ ~Request!Decided(<<>>)
  BY DEF Request!Open, Request!Decided
<1>4. ~Request!Pending(<<>>)
  <2>1. Len(<<>>) = 0 /\ Len(<<"PENDING">>) = 1
    OBVIOUS
  <2> QED BY <2>1 DEF Request!Pending
<1> QED BY <1>1, <1>2, <1>3, <1>4

LEMMA PinsImplements ==
    ASSUME BaseInv, RequestInv, UNCHANGED <<submitted, log>>,
           NEW r \in Requests, Pins(r)
    PROVE  RequestStep
<1>1. /\ outbox'[SUBMIT(r)] = "PENDING"
      /\ \A q \in Requests \ {r} : outbox'[SUBMIT(q)] = outbox[SUBMIT(q)]
      /\ \A q \in Requests : outbox'[CANCEL(q)] = outbox[CANCEL(q)]
      /\ outbox[SUBMIT(r)] = "NONE" /\ ~Provisional /\ UNCHANGED view
  BY OneSubmitChanges DEF Pins
<1>2. r \notin Asked /\ Asked' = Asked \cup {r}
  BY <1>1 DEF Asked
<1>3. UNCHANGED <<HistoryOf, KnownOf, CancelOf>>
  BY <1>1 DEF HistoryOf, KnownOf, CancelOf
<1>4. ASSUME NEW q \in Asked PROVE ~Request!Open(KnownOf[q])
  <2>1. q \in Requests
    BY <1>4 DEF Asked
  <2>2. CASE outbox[SUBMIT(q)] = "ACK"
    <3>1. view[q] \in Histories /\ KnownOf[q] = Shown(view[q])
      BY <2>1, <2>2 DEF KnownOf, BaseInv, TypeOK
    <3>2. ~Active(view[q])
      <4>1. CASE q = request
        <5>1. q # None
          BY <2>1, NoneIsNoId
        <5> QED BY <1>1, <4>1, <5>1 DEF Provisional
      <4>2. CASE q # request
        BY <2>1, <2>2, <4>2 DEF RequestInv, FormerClosed, Active
      <4> QED BY <4>1, <4>2
    <3> QED BY <3>1, <3>2, ShownStatus
  <2>3. CASE outbox[SUBMIT(q)] # "ACK"
    <3>1. KnownOf[q] = <<>>
      BY <2>1, <2>3 DEF KnownOf
    <3> QED BY <3>1, ShownStart
  <2> QED BY <2>2, <2>3
<1> QED BY <1>2, <1>3, <1>4, AskForm

LEMMA PinsCancelImplements ==
    ASSUME BaseInv, UNCHANGED <<submitted, log>>,
           NEW r \in Requests, PinsCancel(r)
    PROVE  RequestStep
<1>1. /\ outbox'[CANCEL(r)] = "PENDING"
      /\ \A q \in Requests \ {r} : outbox'[CANCEL(q)] = outbox[CANCEL(q)]
      /\ \A q \in Requests : outbox'[SUBMIT(q)] = outbox[SUBMIT(q)]
      /\ outbox[CANCEL(r)] = "NONE" /\ r = request /\ view[r] = <<>> /\ UNCHANGED view
  BY OneCancelChanges DEF PinsCancel
<1>2. outbox[SUBMIT(r)] = "ACK"
  BY <1>1, NoneIsNoId DEF BaseInv, PlayerKnows
<1>3. UNCHANGED <<Asked, HistoryOf, KnownOf>>
  BY <1>1 DEF Asked, HistoryOf, KnownOf
<1>4. Request!Pending(KnownOf[r])
  <2>1. KnownOf[r] = Shown(<<>>)
    BY <1>1, <1>2 DEF KnownOf
  <2> QED BY <2>1, ShownStatus, HistoryValues
<1>5. CancelOf[r] = "NO" /\ CancelOf' = [CancelOf EXCEPT ![r] = "ASKED"]
  BY <1>1 DEF CancelOf
<1> QED BY <1>3, <1>4, <1>5, AskCancelForm

LEMMA ReceivesImplements ==
    ASSUME BaseInv, UNCHANGED <<submitted, log>>,
           NEW r \in Requests, Receives(r)
    PROVE  RequestStep
<1>1. /\ outbox'[SUBMIT(r)] = "ACK"
      /\ \A q \in Requests \ {r} : outbox'[SUBMIT(q)] = outbox[SUBMIT(q)]
      /\ \A q \in Requests : outbox'[CANCEL(q)] = outbox[CANCEL(q)]
      /\ outbox[SUBMIT(r)] = "PENDING" /\ r \in submitted
      /\ view' = [view EXCEPT ![r] = <<>>]
  BY OneSubmitChanges DEF Receives
<1>2. view \in [Requests -> Histories] /\ log[r] \in Histories
  BY DEF BaseInv, TypeOK
<1>3. UNCHANGED <<Asked, HistoryOf, CancelOf>>
  BY <1>1 DEF Asked, HistoryOf, CancelOf
<1>4. HistoryOf[r] = Shown(log[r]) /\ KnownOf[r] = <<>>
  BY <1>1 DEF HistoryOf, KnownOf
<1>5. KnownOf' = [KnownOf EXCEPT ![r] = Shown(<<>>)]
  BY <1>1, <1>2 DEF KnownOf
<1>6. /\ Len(Shown(<<>>)) \in 1..Len(Shown(log[r]))
      /\ Shown(<<>>) = SubSeq(Shown(log[r]), 1, Len(Shown(<<>>)))
  BY <1>2, HistoryValues, ExtendsItself, ShownExtends
<1>7. /\ 1 \in Len(KnownOf[r]) + 1 .. Len(HistoryOf[r])
      /\ KnownOf' = [KnownOf EXCEPT ![r] = SubSeq(HistoryOf[r], 1, 1)]
  <2>1. Len(Shown(<<>>)) = 1 /\ Len(<<>>) = 0
    BY ShownStart
  <2>2. Len(KnownOf[r]) = 0 /\ 1 \in 1..Len(HistoryOf[r])
    BY <1>4, <1>6, <2>1
  <2>3. Shown(<<>>) = SubSeq(HistoryOf[r], 1, 1)
    BY <1>4, <1>6, <2>1
  <2>4. 1 \in Len(KnownOf[r]) + 1 .. Len(HistoryOf[r])
    BY <2>2
  <2> QED BY <1>5, <2>3, <2>4
<1>8. CancelOf[r] # "ASKED"
  BY <1>1 DEF CancelOf, BaseInv, PlayerKnows
<1> QED BY <1>3, <1>7, <1>8, LearnForm

LEMMA LearnsImplements ==
    ASSUME BaseInv, RequestInv, UNCHANGED <<submitted, log>>,
           NEW r \in Requests, NEW h \in Histories, Learns(r, h) \/ Settles(r, h)
    PROVE  RequestStep
<1>1. /\ r = request /\ Extends(log[r], h) /\ Extends(h, view[r])
      /\ view' = [view EXCEPT ![r] = h]
  BY DEF Learns, Settles
<1>2. /\ view \in [Requests -> Histories] /\ view[r] \in Histories
      /\ log[r] \in Histories
  BY DEF BaseInv, TypeOK
<1>3. outbox[SUBMIT(r)] = "ACK" /\ r \in submitted
  BY <1>1, NoneIsNoId DEF BaseInv, PlayerKnows
<1>4. \A q \in Requests : outbox'[SUBMIT(q)] = outbox[SUBMIT(q)]
  <2>1. CASE Learns(r, h)
    BY <2>1 DEF Learns
  <2>2. CASE outbox' = [outbox EXCEPT ![CANCEL(r)] = "SETTLED"]
    BY <2>2, OneCancelChanges
  <2> QED BY <2>1, <2>2 DEF Settles
<1>5. UNCHANGED <<Asked, HistoryOf>>
  BY <1>4 DEF Asked, HistoryOf
<1>6. /\ HistoryOf[r] = Shown(log[r]) /\ KnownOf[r] = Shown(view[r])
      /\ KnownOf' = [KnownOf EXCEPT ![r] = Shown(h)] /\ KnownOf'[r] = Shown(h)
  BY <1>1, <1>2, <1>3, <1>4 DEF HistoryOf, KnownOf
<1>7. CancelOf' = IF CancelOf[r] = "ASKED" /\ Status(h) \in {"IN_REVIEW", "REJECTED"}
                  THEN [CancelOf EXCEPT ![r] = "TOO_LATE"]
                  ELSE CancelOf
  <2>1. CancelOf[r] = "ASKED" <=> outbox[CANCEL(r)] = "PENDING"
    BY DEF CancelOf
  <2>2. CASE Learns(r, h)
    BY <2>1, <2>2 DEF Learns, CancelOf
  <2>3. CASE Settles(r, h)
    <3>1. /\ outbox'[CANCEL(r)] = "SETTLED"
          /\ \A q \in Requests \ {r} : outbox'[CANCEL(q)] = outbox[CANCEL(q)]
          /\ outbox[CANCEL(r)] = "PENDING" /\ Status(h) \in {"IN_REVIEW", "REJECTED"}
      BY <2>3, OneCancelChanges DEF Settles
    <3>2. CancelOf' = [CancelOf EXCEPT ![r] = "TOO_LATE"]
      BY <3>1 DEF CancelOf
    <3> QED BY <2>1, <3>1, <3>2
  <2> QED BY <2>2, <2>3
<1>8. Request!Decided(KnownOf'[r]) <=> Status(h) \in {"IN_REVIEW", "REJECTED"}
  BY <1>6, ShownStatus
<1>9. CASE h = view[r]
  <2>1. Learns(r, h)
    <3>1. SUFFICES ASSUME Settles(r, h) PROVE FALSE
      OBVIOUS
    <3>2. h \in {<<>>, <<"CANCELLED">>} /\ Status(h) \in {"IN_REVIEW", "REJECTED"}
      BY <1>9, <3>1 DEF RequestInv, CancelWaits, Settles
    <3> QED BY <3>2, StatusTable
  <2>2. UNCHANGED <<outbox, view>>
    BY <1>1, <1>2, <1>9, <2>1 DEF Learns
  <2>3. UNCHANGED <<KnownOf, CancelOf>>
    BY <2>2 DEF KnownOf, CancelOf
  <2> QED BY <1>5, <2>3 DEF RequestStep
<1>10. CASE h # view[r]
  <2>1. PICK n \in Len(Shown(view[r])) + 1 .. Len(Shown(log[r])) :
            Shown(h) = SubSeq(Shown(log[r]), 1, n)
    BY <1>1, <1>2, <1>10, ShownGrows
  <2>2. /\ n \in Len(KnownOf[r]) + 1 .. Len(HistoryOf[r])
        /\ KnownOf' = [KnownOf EXCEPT ![r] = SubSeq(HistoryOf[r], 1, n)]
    BY <1>6, <2>1
  <2> QED BY <1>5, <1>7, <1>8, <2>2, LearnForm
<1> QED BY <1>9, <1>10

LEMMA ConfirmsImplements ==
    ASSUME BaseInv, UNCHANGED <<submitted, log>>,
           NEW r \in Requests, Confirms(r)
    PROVE  RequestStep
<1>1. /\ outbox'[CANCEL(r)] = "ACK"
      /\ \A q \in Requests \ {r} : outbox'[CANCEL(q)] = outbox[CANCEL(q)]
      /\ \A q \in Requests : outbox'[SUBMIT(q)] = outbox[SUBMIT(q)]
      /\ outbox[CANCEL(r)] = "PENDING" /\ r = request /\ log[r] = <<"CANCELLED">>
      /\ view' = [view EXCEPT ![r] = <<"CANCELLED">>]
  BY OneCancelChanges DEF Confirms
<1>2. outbox[SUBMIT(r)] = "ACK" /\ r \in submitted /\ view \in [Requests -> Histories]
  BY <1>1, NoneIsNoId DEF BaseInv, PlayerKnows, TypeOK
<1>3. UNCHANGED <<Asked, HistoryOf>>
  BY <1>1 DEF Asked, HistoryOf
<1>4. HistoryOf[r] = Shown(<<"CANCELLED">>)
  BY <1>1, <1>2 DEF HistoryOf
<1>5. KnownOf' = [KnownOf EXCEPT ![r] = HistoryOf[r]]
  BY <1>1, <1>2, <1>4 DEF KnownOf
<1>6. CancelOf[r] = "ASKED" /\ CancelOf' = [CancelOf EXCEPT ![r] = "CANCELLED"]
  BY <1>1 DEF CancelOf
<1> QED BY <1>3, <1>4, <1>5, <1>6, ShownStart, ConfirmCancelForm

LEMMA JournalImplements ==
    ASSUME BaseInv, RequestInv, UNCHANGED <<submitted, log>>, JournalStep
    PROVE  RequestStep
<1>1. CASE OtherWrite
  <2>1. UNCHANGED view /\ \A r \in Requests : /\ outbox'[SUBMIT(r)] = outbox[SUBMIT(r)]
                                              /\ outbox'[CANCEL(r)] = outbox[CANCEL(r)]
    BY <1>1, OtherWriteFacts DEF OtherWrite
  <2>2. UNCHANGED <<Asked, HistoryOf, KnownOf, CancelOf>>
    BY <2>1 DEF Asked, HistoryOf, KnownOf, CancelOf
  <2> QED BY <2>2 DEF RequestStep
<1> QED BY <1>1, PinsImplements, PinsCancelImplements, ReceivesImplements,
           LearnsImplements, ConfirmsImplements DEF JournalStep

(* The host stores, cancels or decides a request.                          *)
LEMMA ServeImplements ==
    ASSUME BaseInv, NEW c \in Channels, ServeFacts(c)
    PROVE  RequestStep
<1>1. /\ sent[c] \in Rpcs /\ sent[c] # None /\ UNCHANGED <<outbox, view, request>>
      /\ StoresWhatWasAsked(c)
  BY RpcIsNotNone DEF ServeFacts, playerVars
<1>2. UNCHANGED <<Asked, KnownOf, CancelOf>>
  BY <1>1 DEF Asked, KnownOf, CancelOf
<1>t. /\ log \in [Requests -> Histories] /\ submitted \subseteq Requests
      /\ stage[c] \in StageRecords \cup {None}
  BY DEF BaseInv, TypeOK, StageRecords
<1>3. CASE log' # log
  <2> DEFINE r == sent[c].id
  <2>1. /\ sent[c].op = "CANCEL" /\ log[r] \in {<<>>, <<"CANCELLED">>}
        /\ log' = [log EXCEPT ![r] = <<"CANCELLED">>]
    BY <1>1, <1>3 DEF StoresWhatWasAsked
  <2>2. r \in submitted /\ outbox[CANCEL(r)] # "NONE"
    BY <1>1, <2>1 DEF BaseInv, HostOwned, Owned
  <2> HIDE DEF r
  <2>3. r \in Requests /\ log[r] = <<>>
    <3>1. r \in Requests
      BY <1>t, <2>2
    <3>2. log[r] # <<"CANCELLED">>
      BY <1>t, <1>3, <2>1, <3>1
    <3> QED BY <2>1, <3>1, <3>2
  <2>4. outbox[CANCEL(r)] = "PENDING"
    <3>1. outbox[CANCEL(r)] \in {"PENDING", "ACK"}
      BY <2>1, <2>2, <2>3, CancelledByOwner
    <3>2. outbox[CANCEL(r)] # "ACK"
      BY <2>3, HistoryValues DEF BaseInv, PlayerKnows
    <3> QED BY <3>1, <3>2
  <2>5. submitted' = submitted
    <3>1. SUFFICES ASSUME submitted' # submitted PROVE FALSE
      OBVIOUS
    <3>2. SessionIsFree
      <4>1. \/ submitted' = submitted
            \/ /\ submitted' = submitted \cup {stage[c].request}
               /\ stage[c].request \in submitted \/ SessionIsFree
        BY <1>1 DEF StoresWhatWasAsked
      <4> QED BY <3>1, <4>1
    <3>3. Status(log[r]) = "PENDING"
      BY <2>3, StatusTable
    <3> QED BY <2>2, <3>2, <3>3 DEF SessionIsFree, Active, Closing
  <2>6. HistoryOf[r] = Shown(<<>>)
    BY <2>2, <2>3 DEF HistoryOf
  <2>7. HistoryOf' = [HistoryOf EXCEPT ![r] = Shown(<<"CANCELLED">>)]
    BY <1>t, <2>1, <2>2, <2>3, <2>5 DEF HistoryOf
  <2>8. Append(Shown(<<>>), "CANCELLED") = Shown(<<"CANCELLED">>)
    <3>1. "CANCELLED" \in Statuses /\ <<>> \in Histories
      BY HistoryValues DEF Statuses, Closing
    <3>2. Append(Shown(<<>>), "CANCELLED") = Shown(Append(<<>>, "CANCELLED"))
      BY <3>1, ShownAppends
    <3>3. Append(<<>>, "CANCELLED") = <<"CANCELLED">>
      OBVIOUS
    <3> QED BY <3>2, <3>3
  <2>9. Request!Pending(HistoryOf[r]) /\ CancelOf[r] = "ASKED"
    BY <2>3, <2>4, <2>6, ShownStatus, HistoryValues DEF CancelOf
  <2> QED BY <1>2, <2>3, <2>6, <2>7, <2>8, <2>9, CancelForm
<1>4. CASE log' = log /\ submitted' # submitted
  <2> DEFINE r == stage[c].request
  <2>1. /\ stage[c] # None /\ submitted' = submitted \cup {r}
        /\ r \in submitted \/ SessionIsFree
    BY <1>1, <1>4 DEF StoresWhatWasAsked
  <2>2. r \in Requests /\ outbox[SUBMIT(r)] # "NONE"
    BY <1>t, <2>1 DEF BaseInv, HostOwned, StageRecords
  <2> HIDE DEF r
  <2>3. r \notin submitted /\ SessionIsFree
    BY <1>4, <2>1
  <2>4. log[r] = <<>>
    BY <2>2, <2>3 DEF BaseInv, HostOwned
  <2>5. r \in Asked /\ HistoryOf[r] = <<>>
    BY <2>2, <2>3 DEF Asked, HistoryOf
  <2>6. HistoryOf' = [HistoryOf EXCEPT ![r] = Shown(<<>>)]
    BY <1>4, <2>1, <2>2, <2>4 DEF HistoryOf
  <2>7. ASSUME NEW q \in Requests PROVE ~Request!Open(HistoryOf[q])
    <3>1. CASE q \in submitted
      <4>1. log[q] \in Histories /\ ~Active(log[q]) /\ HistoryOf[q] = Shown(log[q])
        BY <1>t, <2>3, <3>1 DEF SessionIsFree, HistoryOf
      <4> QED BY <4>1, ShownStatus
    <3>2. CASE q \notin submitted
      <4>1. HistoryOf[q] = <<>>
        BY <3>2 DEF HistoryOf
      <4> QED BY <4>1, ShownStart
    <3> QED BY <3>1, <3>2
  <2> QED BY <1>2, <2>2, <2>5, <2>6, <2>7, ShownStart, SubmitForm
<1>5. CASE log' = log /\ submitted' = submitted
  <2>1. UNCHANGED HistoryOf
    BY <1>5 DEF HistoryOf
  <2> QED BY <1>2, <2>1 DEF RequestStep
<1> QED BY <1>3, <1>4, <1>5

LEMMA DecisionImplements ==
    ASSUME BaseInv, NEW r \in Requests, NEW status \in {"IN_REVIEW", "REJECTED"},
           GmDecides(r, status)
    PROVE  RequestStep
<1>1. /\ UNCHANGED <<outbox, view, submitted>>
      /\ r \in submitted
      /\ Status(log[r]) \in IF status = "IN_REVIEW" THEN {"PENDING"}
                                                    ELSE {"PENDING", "IN_REVIEW"}
      /\ log' = [log EXCEPT ![r] = Append(log[r], status)]
  BY DEF GmDecides, playerVars
<1>2. log \in [Requests -> Histories] /\ log[r] \in Histories
  BY DEF BaseInv, TypeOK
<1>3. UNCHANGED <<Asked, KnownOf, CancelOf>>
  BY <1>1 DEF Asked, KnownOf, CancelOf
<1>4. HistoryOf[r] = Shown(log[r])
  BY <1>1 DEF HistoryOf
<1>5. HistoryOf' = [HistoryOf EXCEPT ![r] = Shown(Append(log[r], status))]
  BY <1>1, <1>2 DEF HistoryOf
<1>6. Shown(Append(log[r], status)) = Append(HistoryOf[r], status)
  <2>1. status \in Statuses
    BY DEF Statuses, Closing
  <2> QED BY <1>2, <1>4, <2>1, ShownAppends
<1>7. IF status = "REJECTED" THEN Request!Open(HistoryOf[r])
                             ELSE Request!Pending(HistoryOf[r])
  <2>1. CASE status = "REJECTED"
    <3>1. Active(log[r])
      BY <1>1, <2>1 DEF Active, Closing
    <3> QED BY <1>2, <1>4, <2>1, <3>1, ShownStatus
  <2>2. CASE status = "IN_REVIEW"
    <3>1. log[r] = <<>>
      BY <1>1, <1>2, <2>2, StatusTable DEF Histories
    <3> QED BY <1>2, <1>4, <2>2, <3>1, ShownStatus
  <2> QED BY <2>1, <2>2
<1> QED BY <1>3, <1>5, <1>6, <1>7, DecideForm

(* What the player reads ends in one write of its journal, or in none.     *)
LEMMA ReadingIsJournalStep ==
    ASSUME BaseInv, RequestInv, PlayerReads
    PROVE  JournalStep
<1>t. /\ view \in [Requests -> Histories] /\ log \in [Requests -> Histories]
      /\ request \in Requests \cup {None} /\ flow.log \in Histories
  BY DEF BaseInv, TypeOK
<1>0. ASSUME UNCHANGED <<outbox, view, request>> PROVE JournalStep
  BY <1>0 DEF JournalStep, OtherWrite
<1>1. CASE PlayerSettlesCancel
  <2> DEFINE m == PendingCommand
             S == {"RECONCILE", "RECOVER", "RECOVER_AGAIN", "RECHECK", "LASTCHECK"}
             r == m[2]
             h == Got.log
  <2>1. /\ m \in Pending /\ m[1] = "CANCEL" /\ Answered(S) /\ Advance(m[2], Got.log)
        /\ Got.kind = "ACK" /\ Status(Got.log) \in {"IN_REVIEW", "REJECTED"}
        /\ outbox' = [outbox EXCEPT ![m] = "SETTLED"] /\ UNCHANGED request
    BY <1>1 DEF PlayerSettlesCancel, CancelLost, PendingCommand
  <2>s. S \in SUBSET Steps
    BY DEF Steps
  <2> HIDE DEF m, S
  <2>2. r \in Requests /\ m = CANCEL(r) /\ request = r /\ outbox[m] = "PENDING"
    BY <2>1, PendingCancel
  <2>3. Subject = r /\ Subject # None
    BY <2>1, <2>s, CancelSubject
  <2>4. h \in Histories /\ Extends(log[r], h)
    BY <2>1, <2>s, <2>3, ReadingFacts
  <2> HIDE DEF r, h
  <2>5. Extends(h, view[r])
    <3>1. view[r] \in {<<>>, <<"CANCELLED">>}
      BY <2>2 DEF RequestInv, CancelWaits
    <3>2. CASE view[r] = <<>>
      BY <2>4, <3>2, ExtendsItself
    <3>3. CASE view[r] = <<"CANCELLED">>
      <4>1. Extends(log[r], <<"CANCELLED">>) /\ log[r] \in Histories
        BY <1>t, <2>2, <3>3 DEF BaseInv, PlayerKnows
      <4>2. log[r] = <<"CANCELLED">>
        BY <4>1, ExtendsTable, HistoryValues
      <4>3. h \in {<<>>, <<"CANCELLED">>}
        BY <2>4, <4>2, ExtendsTable, HistoryValues
      <4>4. Status(h) \notin {"IN_REVIEW", "REJECTED"}
        BY <4>3, StatusTable
      <4> QED BY <2>1, <4>4 DEF h
    <3> QED BY <3>1, <3>2, <3>3
  <2>6. view' = [view EXCEPT ![r] = h]
    BY <2>1, <2>5 DEF Advance, r, h
  <2>7. Settles(r, h)
    BY <2>1, <2>2, <2>4, <2>5, <2>6 DEF Settles, h
  <2> QED BY <2>2, <2>4, <2>7 DEF JournalStep
<1>2. CASE PlayerReconciles
  <2> DEFINE h == Got.log
  <2>1. /\ Answered({"RECONCILE"}) /\ UNCHANGED <<outbox, request>>
        /\ Got.kind = "ACK" /\ ~CancelLost(PendingCommand)
        /\ IF request # None THEN Advance(request, h) ELSE UNCHANGED view
    BY <1>2 DEF PlayerReconciles
  <2>s. {"RECONCILE"} \in SUBSET Steps
    BY DEF Steps
  <2>2. CASE UNCHANGED view
    BY <1>0, <2>1, <2>2
  <2>3. CASE request # None /\ Extends(h, view[request])
             /\ view' = [view EXCEPT ![request] = h]
    <3>1. request \in Requests /\ flow.step = "RECONCILE" /\ Subject = request
      BY <1>t, <2>1, <2>3 DEF Answered, Subject
    <3>2. h \in Histories /\ Extends(log[request], h)
      BY <2>1, <2>s, <2>3, <3>1, ReadingFacts
    <3>3. ASSUME outbox[CANCEL(request)] = "PENDING"
          PROVE  Status(h) \notin {"IN_REVIEW", "REJECTED"}
      <4> DEFINE n == CANCEL(request)
      <4>1. n \in Commands /\ n[1] = "CANCEL" /\ n # None
        BY <3>1, CommandForms, CommandIsNotNone
      <4>2. n \in Pending
        BY <3>3, <4>1 DEF Pending
      <4> HIDE DEF n
      <4>3. PendingCommand = n
        <5>1. \A x, y \in Pending : x = y
          BY DEF BaseInv, OutboxKinds
        <5> QED BY <4>2, <5>1 DEF PendingCommand
      <4> QED BY <2>1, <4>1, <4>3 DEF CancelLost
    <3>4. Learns(request, h)
      BY <2>1, <2>3, <3>2, <3>3 DEF Learns
    <3> QED BY <3>1, <3>2, <3>4 DEF JournalStep
  <2> QED BY <2>1, <2>2, <2>3 DEF Advance
<1>3. CASE PlayerEndsOpen
  <2> DEFINE m == flow.cmd
             S == {"DELIVER", "RECOVER"}
  <2>1. /\ Answered(S) /\ m[1] = "OPEN" /\ UNCHANGED <<request, view>>
        /\ \E v \in {"PENDING", "ACK", "ABSENT"} : outbox' = [outbox EXCEPT ![m] = v]
    BY <1>3 DEF PlayerEndsOpen
  <2>2. m \in Commands
    <3>1. S \in SUBSET Steps /\ flow.step # "RECONCILE"
      BY <2>1 DEF Steps, Answered
    <3> HIDE DEF S
    <3> QED BY <2>1, <3>1, ReadingFacts
  <2> HIDE DEF m
  <2>3. m[2] \in Attempts /\ m = OPEN(m[2])
    BY <2>1, <2>2, CommandForms
  <2>4. OtherWrite
    BY <2>1, <2>3 DEF OtherWrite
  <2> QED BY <2>4 DEF JournalStep
<1>4. CASE PlayerEndsSubmit
  <2> DEFINE m == flow.cmd
             S == {"DELIVER", "REDELIVER", "RECOVER"}
             r == m[2]
  <2>1. /\ Answered(S) /\ m[1] = "SUBMIT" /\ Got.kind = "ACK"
        /\ view' = [view EXCEPT ![r] = <<>>] /\ request' = r
        /\ outbox' = [outbox EXCEPT ![m] = "ACK"]
    BY <1>4 DEF PlayerEndsSubmit
  <2>s. S \in SUBSET Steps /\ flow.step # "RECONCILE"
    BY <2>1 DEF Steps, Answered
  <2> HIDE DEF S
  <2>2. m \in Commands /\ outbox[m] = "PENDING"
    BY <2>1, <2>s, ReadingFacts DEF Pending
  <2>3. r \in Requests /\ m = SUBMIT(r)
    BY <2>1, <2>2, CommandForms
  <2>4. r \in submitted
    <3>1. Subject = r /\ r # None
      BY <2>1, <2>s, <2>3, NoneIsNoId DEF Subject
    <3> QED BY <2>1, <2>s, <3>1, ReadingFacts
  <2> HIDE DEF r
  <2>5. Receives(r)
    BY <2>1, <2>2, <2>3, <2>4 DEF Receives
  <2> QED BY <2>3, <2>5 DEF JournalStep
<1>5. CASE PlayerAppliesCurrent
  <2>1. /\ UNCHANGED <<outbox, request>> /\ Advance(request, flow.log)
        /\ request \in Requests /\ Pending = {} /\ Extends(log[request], flow.log)
    BY <1>t, <1>5 DEF PlayerAppliesCurrent, BaseInv, FlowFits
  <2>2. CASE UNCHANGED view
    BY <1>0, <2>1, <2>2
  <2>3. CASE Extends(flow.log, view[request])
             /\ view' = [view EXCEPT ![request] = flow.log]
    <3>1. outbox[CANCEL(request)] # "PENDING"
      BY <2>1, CommandForms DEF Pending
    <3>2. Learns(request, flow.log)
      BY <2>1, <2>3, <3>1 DEF Learns
    <3> QED BY <1>t, <2>1, <3>2 DEF JournalStep
  <2> QED BY <2>1, <2>2, <2>3 DEF Advance
<1>6. CASE PlayerEndsCancel
  <2> DEFINE m == flow.cmd
             S == Steps \ {"RECONCILE"}
             r == m[2]
  <2>1. /\ Answered(S) /\ m[1] = "CANCEL" /\ Got = Reply("ACK", <<"CANCELLED">>)
        /\ view' = [view EXCEPT ![r] = <<"CANCELLED">>] /\ UNCHANGED request
        /\ outbox' = [outbox EXCEPT ![m] = "ACK"]
    BY <1>6 DEF PlayerEndsCancel
  <2>s. S \in SUBSET Steps /\ flow.step # "RECONCILE"
    BY <2>1 DEF Answered
  <2> HIDE DEF S
  <2>2. m \in Pending
    BY <2>1, <2>s, ReadingFacts
  <2>3. /\ r \in Requests /\ m = CANCEL(r) /\ request = r /\ outbox[m] = "PENDING"
    BY <2>1, <2>2, PendingCancel
  <2>4. log[r] = <<"CANCELLED">>
    <3>1. Subject = r /\ Subject # None
      BY <2>1, <2>2, <2>s, CancelSubject
    <3>2. Got.kind = "ACK" /\ Got.log = <<"CANCELLED">>
      BY <2>1, ReplyTyped
    <3>3. Extends(log[r], <<"CANCELLED">>)
      BY <2>1, <2>s, <3>1, <3>2, ReadingFacts
    <3>4. log[r] \in Histories
      BY <1>t, <2>3
    <3> QED BY <3>3, <3>4, ExtendsTable, HistoryValues
  <2> HIDE DEF r
  <2>5. Confirms(r)
    BY <2>1, <2>3, <2>4 DEF Confirms
  <2> QED BY <2>3, <2>5 DEF JournalStep
<1>7. CASE \/ PlayerReconcileFails \/ PlayerSendsBatch \/ PlayerRedelivers
           \/ PlayerRechecks \/ PlayerStaysPending
  BY <1>0, <1>7
  DEF PlayerReconcileFails, PlayerSendsBatch, PlayerRedelivers, PlayerRechecks,
      PlayerStaysPending, Unconfirmed, playerVars
<1> QED BY <1>1, <1>2, <1>3, <1>4, <1>5, <1>6, <1>7 DEF PlayerReads

(* Each step writes the journal or is one of the host, and implements one  *)
(* step of the request.                                                    *)
LEMMA StepImplementsRequest ==
    ASSUME BaseInv, RequestInv, [Next]_vars
    PROVE  RequestInv' /\ RequestStep
<1>0. ASSUME UNCHANGED <<outbox, view, request>> PROVE JournalStep
  BY <1>0 DEF JournalStep, OtherWrite
<1>1. ASSUME JournalStep PROVE RequestInv'
  BY <1>1, JournalKeepsRequest
<1>2. ASSUME JournalStep, UNCHANGED <<submitted, log>> PROVE RequestInv' /\ RequestStep
  BY <1>1, <1>2, JournalImplements
<1>3. ASSUME NEW c \in Channels, HostServes(c)
      PROVE  RequestInv' /\ RequestStep
  <2>1. ServeFacts(c)
    BY <1>3, HostServesFacts DEF BaseInv
  <2>2. UNCHANGED <<outbox, view, request>>
    BY <2>1 DEF ServeFacts, playerVars
  <2> QED BY <1>0, <1>1, <2>1, <2>2, ServeImplements
<1>4. ASSUME NEW r \in Requests, NEW status \in {"IN_REVIEW", "REJECTED"},
             GmDecides(r, status)
      PROVE  RequestInv' /\ RequestStep
  <2>1. UNCHANGED <<outbox, view, request>>
    BY <1>4 DEF GmDecides, playerVars
  <2> QED BY <1>0, <1>1, <1>4, <2>1, DecisionImplements
<1>5. ASSUME NEW c \in Channels,
             HostAcceptsProof(c) \/ HostLosesProof(c) \/ HostLosesChannel(c)
      PROVE  RequestInv' /\ RequestStep
  BY <1>0, <1>2, <1>5
  DEF HostAcceptsProof, HostLosesProof, HostLosesChannel, playerVars, hostVars
<1>6. CASE CampaignAdvances \/ HostStops \/ HostStarts \/ UNCHANGED vars
  BY <1>0, <1>2, <1>6
  DEF CampaignAdvances, HostStops, HostStarts, NoHostWrite, vars, playerVars, hostVars
<1>7. CASE PlayerRecovers \/ PlayerRefreshes \/ PlayerLeavesChannel
  BY <1>0, <1>2, <1>7
  DEF PlayerRecovers, PlayerRefreshes, PlayerLeavesChannel, PlayerOnly, playerVars, hostVars
<1>8. CASE PlayerReads
  <2>1. UNCHANGED <<submitted, log>>
    BY <1>8, PlayerReadsOnly DEF PlayerOnly, hostVars
  <2> QED BY <1>2, <1>8, <2>1, ReadingIsJournalStep
<1>9. ASSUME NEW a \in Attempts, PlayerOpens(a)
      PROVE  RequestInv' /\ RequestStep
  <2>1. OtherWrite /\ UNCHANGED <<submitted, log>>
    BY <1>9 DEF PlayerOpens, OtherWrite, hostVars
  <2> QED BY <1>2, <2>1 DEF JournalStep
<1>10. ASSUME NEW r \in Requests, PlayerSubmits(r)
       PROVE  RequestInv' /\ RequestStep
  <2>1. Pins(r) /\ UNCHANGED <<submitted, log>>
    BY <1>10 DEF PlayerSubmits, Pins, hostVars
  <2> QED BY <1>2, <2>1 DEF JournalStep
<1>11. CASE PlayerCancels
  <2>1. request \in Requests
    BY <1>11 DEF PlayerCancels, BaseInv, TypeOK
  <2>2. PinsCancel(request) /\ UNCHANGED <<submitted, log>>
    BY <1>11 DEF PlayerCancels, PinsCancel, hostVars
  <2> QED BY <1>2, <2>1, <2>2 DEF JournalStep
<1> QED BY <1>3, <1>4, <1>5, <1>6, <1>7, <1>8, <1>9, <1>10, <1>11 DEF Next

LEMMA InitIsRequestInit ==
    ASSUME Init
    PROVE  RequestInv /\ Request!RequestInit
<1>1. \A r \in Requests : outbox[SUBMIT(r)] = "NONE" /\ outbox[CANCEL(r)] = "NONE"
  BY CommandForms DEF Init
<1>2. submitted = {}
  BY DEF Init
<1> QED BY <1>1, <1>2
    DEF RequestInv, FormerClosed, SubmitsInTurn, CancelWaits, Request!RequestInit

(* With all its losses, crashes, late frames and repeats the protocol is   *)
(* the request of DeviceRequest: one history on the host, shown to the     *)
(* player in order, and of a CANCEL and a decision one that wins.          *)
THEOREM AdmissionImplementsRequest == Spec => ImplementsRequest
<1>1. Init => RequestInv /\ Request!RequestInit
  BY InitIsRequestInit
<1>2. BaseInv /\ RequestInv /\ [Next]_vars
      => RequestInv' /\ [Request!RequestNext]_(Request!requestVars)
  BY StepImplementsRequest, RequestStepForm
<1> QED BY <1>1, <1>2, BaseInvariant, PTL
    DEF Spec, ImplementsRequest, Request!RequestSpec
=============================================================================
