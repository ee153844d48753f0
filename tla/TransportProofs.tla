---------------------------- MODULE TransportProofs ----------------------------
(***************************************************************************)
(* Proofs about the clients goroutines share, for any goroutines, values   *)
(* and number of calls: that of client.go implements KVService and attaches*)
(* the spans it stores to their traces, that of grpc_client.go implements  *)
(* RemoteService.                                                          *)
(***************************************************************************)
EXTENDS IPCProperties, TracesProperties, GrpcProperties, SequenceTheorems, TLAPS

-----------------------------------------------------------------------------
(* IPCClient and Traces *)

LEMMA Elements ==
    ASSUME NEW S, NEW s \in Seq(S)
    PROVE  /\ \A i \in DOMAIN s : s[i] \in S
           /\ DOMAIN s = {} => s = <<>>
           /\ Len(s) \in Nat
           /\ Len(s) = 0 => s = <<>>
           /\ Len(s) = 1 => Head(s) = s[1] /\ Tail(s) = <<>>
BY ElementOfSeq, EmptySeq

LEMMA OneAtMost ==
    \A a, b \in Nat : a # 0 /\ a + b <= 1 => a = 1 /\ b = 0
OBVIOUS

(* A reply has the type of a reply, and its reader a value to return.      *)
LEMMA ReplyTyped ==
    ASSUME NEW m \in [from : Threads, req : Requests],
           NEW v \in Values \cup {Absent}
    PROVE  /\ Reply(m, Kind(m.req.op), Payload(m.req.op, v)) \in Replies
           /\ \A kind \in Refusals(m.req.op) : Reply(m, kind, Absent) \in Replies
           /\ Effect(m.req, v) \in Values \cup {Absent}
           /\ m.req.op # "close" => Kind(m.req.op) \in Accepts(m.req.op)
<1>1. Kind(m.req.op) \in {"ok", "value", "txn", "stats"}
  BY DEF Kind
<1>2. Payload(m.req.op, v) \in Values \cup {Absent}
  BY IPCAssumption DEF Payload
<1>3. Effect(m.req, v) \in Values \cup {Absent}
  BY DEF Effect, Requests
<1>4. m.req.op # "close" => Kind(m.req.op) \in Accepts(m.req.op)
  BY DEF Kind, Accepts, Requests, Ops, ReadOps
<1>5. Refusals(m.req.op) \subseteq {"error", "malformed"}
  BY DEF Refusals
<1>. QED  BY <1>1, <1>2, <1>3, <1>4, <1>5 DEF Reply, Replies

LEMMA DecodeTyped ==
    ASSUME NEW op, NEW m \in Replies
    PROVE  Decode(op, m) \in [ok : BOOLEAN, value : Values \cup {Absent}]
BY DEF Decode, Decoded, Outcome, Failed, Replies

LEMMA FailedTyped ==
    /\ Failed \in [ok : BOOLEAN, value : Values \cup {Absent}]
    /\ \A b \in BOOLEAN :
         Outcome(b, Absent) \in [ok : BOOLEAN, value : Values \cup {Absent}]
BY DEF Failed, Outcome

LEMMA WireTyped ==
    ASSUME TypeOK
    PROVE  /\ \A i \in DOMAIN outbox : outbox[i].from \in Threads
           /\ \A i \in DOMAIN inbox : inbox[i].from \in Threads
<1>. DEFINE M == [from : Threads, req : Requests]
<1>1. outbox \in Seq(M) /\ inbox \in Seq(Replies)
  BY DEF TypeOK
<1>2. ASSUME NEW i \in DOMAIN outbox
      PROVE  outbox[i].from \in Threads
  <2>1. outbox[i] \in M
    <3>. HIDE DEF M
    <3>. QED  BY <1>1, <1>2, Elements
  <2>. QED  BY <2>1
<1>3. ASSUME NEW i \in DOMAIN inbox
      PROVE  inbox[i].from \in Threads
  <2>1. inbox[i] \in Replies
    BY <1>1, <1>3, Elements
  <2>. QED  BY <2>1 DEF Replies
<1>. QED  BY <1>2, <1>3

(* Whoever is about to write finds nothing on the wire. *)
LEMMA WireEmpty ==
    ASSUME IInv, NEW t \in Threads, holder = t \/ holder = Free, ~At(t, "recv")
    PROVE  outbox = <<>> /\ inbox = <<>>
<1>1. outbox \in Seq([from : Threads, req : Requests]) /\ inbox \in Seq(Replies)
  BY DEF IInv, TypeOK
<1>2. DOMAIN outbox = {} /\ DOMAIN inbox = {}
  BY WireTyped, IPCAssumption DEF IInv, RepliesPair
<1>. QED  BY <1>1, <1>2, Elements

(* A step of one goroutine that ends where the others are not. *)
LEMMA OwnStep ==
    ASSUME IInv, NEW t \in Threads, NEW c \in CallRecord,
           call' = [call EXCEPT ![t] = c],
           holder' \in Threads \cup {Free},
           holder' = t <=> c.pc \in {"send", "recv", "unlock"},
           \A u \in Threads \ {t} : holder' = u <=> holder = u,
           c.pc # "idle" => c.req \in Requests,
           c.pc = "recv" => c.req.op # "close",
           closed' \in BOOLEAN, conn' \in {"up", "down"}, value' = value,
           closed' => conn' = "down",
           outbox' = <<>>, inbox' = <<>>
    PROVE  IInv'
<1>1. TypeOK'
  BY DEF IInv, TypeOK
<1>2. call'[t] = c /\ \A u \in Threads \ {t} : call'[u] = call[u]
  BY DEF IInv, TypeOK
<1>3. MutexHeld'
  BY <1>2 DEF IInv, MutexHeld
<1>4. CallsSound'
  BY <1>2 DEF IInv, CallsSound, At
<1>5. RepliesPair' /\ ClosedIsDown'
  BY DEF RepliesPair, ClosedIsDown
<1>. QED  BY <1>1, <1>3, <1>4, <1>5 DEF IInv

LEMMA NextIInv ==
    ASSUME IInv, [Next]_vars
    PROVE  IInv'
<1>1. ASSUME NEW t \in Threads, NEW r \in Requests, Call(t, r)
      PROVE  IInv'
  <2>1. call' = [call EXCEPT ![t] = [pc |-> "lock", req |-> r, out |-> Failed]]
    BY <1>1 DEF Call
  <2>2. call'[t] = [pc |-> "lock", req |-> r, out |-> Failed]
        /\ \A u \in Threads \ {t} : call'[u] = call[u]
    BY <2>1 DEF IInv, TypeOK
  <2>3. TypeOK'
    BY <1>1, <2>1, FailedTyped DEF IInv, TypeOK, CallRecord, PCs, Call
  <2>4. MutexHeld' /\ CallsSound' /\ ClosedIsDown'
    BY <1>1, <2>2 DEF IInv, MutexHeld, CallsSound, ClosedIsDown, At, Call
  <2>5. RepliesPair'
    <3>1. \A u \in Threads : At(u, "recv") => u # t /\ call'[u] = call[u]
      BY <1>1, <2>2 DEF Call, At
    <3>. QED  BY <1>1, <3>1, WireTyped DEF IInv, RepliesPair, At, Call
  <2>. QED  BY <2>3, <2>4, <2>5 DEF IInv
<1>2. ASSUME NEW t \in Threads, Lock(t)
      PROVE  IInv'
  <2>1. outbox = <<>> /\ inbox = <<>>
    BY <1>2, WireEmpty DEF Lock, At
  <2>2. call[t].req \in Requests
    BY <1>2 DEF IInv, CallsSound, Lock, At
  <2>3. \A u \in Threads \ {t} : holder' = u <=> holder = u
    BY <1>2, IPCAssumption DEF Lock
  <2>4. CASE ~closed
    BY <1>2, <2>1, <2>2, <2>3, <2>4, FailedTyped, OwnStep
       DEF Lock, Moves, IInv, TypeOK, CallRecord, PCs
  <2>5. CASE closed
    BY <1>2, <2>1, <2>2, <2>3, <2>5, FailedTyped, OwnStep
       DEF Lock, Moves, IInv, TypeOK, CallRecord, PCs, ClosedIsDown
  <2>. QED  BY <2>4, <2>5
<1>3. ASSUME NEW t \in Threads, Close(t)
      PROVE  IInv'
  <2>1. call[t].req \in Requests /\ holder = t
    BY <1>3 DEF IInv, CallsSound, MutexHeld, Close, At
  <2>. QED  BY <1>3, <2>1, FailedTyped, OwnStep
            DEF Close, Moves, IInv, TypeOK, CallRecord, PCs
<1>4. ASSUME NEW t \in Threads, Send(t)
      PROVE  IInv'
  <2>1. call[t].req \in Requests /\ holder = t
    BY <1>4 DEF IInv, CallsSound, MutexHeld, Send, At
  <2>2. outbox = <<>> /\ inbox = <<>>
    BY <1>4, <2>1, WireEmpty DEF Send, At
  <2>3. outbox' = <<[from |-> t, req |-> call[t].req]>>
    BY <1>4, <2>2 DEF Send
  <2>4. call' = [call EXCEPT ![t] = [pc |-> "recv", req |-> call[t].req, out |-> Failed]]
    BY <1>4 DEF Send, Moves
  <2>5. /\ call'[t] = [pc |-> "recv", req |-> call[t].req, out |-> Failed]
        /\ \A u \in Threads \ {t} : call'[u] = call[u]
    BY <2>4 DEF IInv, TypeOK
  <2>6. TypeOK'
    BY <1>4, <2>1, <2>3, <2>4, FailedTyped DEF IInv, TypeOK, CallRecord, PCs, Send
  <2>7. MutexHeld' /\ CallsSound' /\ ClosedIsDown'
    BY <1>4, <2>1, <2>5 DEF IInv, MutexHeld, CallsSound, ClosedIsDown, At, Send
  <2>8. RepliesPair'
    BY <1>4, <2>1, <2>2, <2>3, <2>5 DEF RepliesPair, At, Send
  <2>. QED  BY <2>6, <2>7, <2>8 DEF IInv
<1>5. ASSUME NEW t \in Threads, SendFails(t)
      PROVE  IInv'
  <2>1. call[t].req \in Requests /\ holder = t
    BY <1>5 DEF IInv, CallsSound, MutexHeld, SendFails, At
  <2>2. outbox = <<>> /\ inbox = <<>>
    BY <1>5, <2>1, WireEmpty DEF SendFails, At
  <2>. QED  BY <1>5, <2>1, <2>2, FailedTyped, OwnStep
            DEF SendFails, Moves, IInv, TypeOK, CallRecord, PCs, ClosedIsDown
<1>6. ASSUME NEW t \in Threads, Receive(t)
      PROVE  IInv'
  <2>1. call[t].req \in Requests /\ holder = t
    BY <1>6 DEF IInv, CallsSound, MutexHeld, Receive, At
  <2>2. outbox = <<>> /\ inbox' = <<>> /\ Head(inbox) \in Replies
    BY <1>6 DEF Receive, IInv, TypeOK, RepliesPair
  <2>. QED  BY <1>6, <2>1, <2>2, DecodeTyped, OwnStep
            DEF Receive, Moves, IInv, TypeOK, CallRecord, PCs, ClosedIsDown
<1>7. ASSUME NEW t \in Threads, ReceiveFails(t)
      PROVE  IInv'
  <2>1. call[t].req \in Requests /\ holder = t
    BY <1>7 DEF IInv, CallsSound, MutexHeld, ReceiveFails, At
  <2>2. inbox = <<>>
    BY <1>7 DEF ReceiveFails, EOF
  <2>3. outbox = <<>>
    BY <1>7 DEF ReceiveFails, EOF, IInv, ClosedIsDown
  <2>. QED  BY <1>7, <2>1, <2>2, <2>3, FailedTyped, OwnStep
            DEF ReceiveFails, Moves, IInv, TypeOK, CallRecord, PCs, ClosedIsDown,
                AfterFailedRead
<1>8. ASSUME NEW t \in Threads, Return(t)
      PROVE  IInv'
  <2>1. holder = t
    BY <1>8 DEF IInv, MutexHeld, Return, At
  <2>2. outbox = <<>> /\ inbox = <<>>
    BY <1>8, <2>1, WireEmpty DEF Return, At
  <2>3. Idle \in CallRecord
    BY FailedTyped DEF Idle, CallRecord, PCs
  <2>. QED  BY <1>8, <2>1, <2>2, <2>3, IPCAssumption, OwnStep
            DEF Return, Idle, IInv, TypeOK, ClosedIsDown
<1>9. ASSUME Serve
      PROVE  IInv'
  <2>. DEFINE M == [from : Threads, req : Requests]
              m == Head(outbox)
  <2>1. outbox \in Seq(M) /\ outbox # <<>> /\ inbox \in Seq(Replies)
    BY <1>9 DEF Serve, IInv, TypeOK
  <2>2. Len(outbox) = 1 /\ inbox = <<>> /\ m = outbox[1] /\ Tail(outbox) = <<>>
    <3>1. Len(outbox) # 0 /\ Len(outbox) + Len(inbox) <= 1
      BY <2>1 DEF IInv, RepliesPair
    <3>. HIDE DEF M
    <3>2. Len(outbox) \in Nat /\ Len(inbox) \in Nat
      BY <2>1, Elements
    <3>3. Len(outbox) = 1 /\ Len(inbox) = 0
      BY <3>1, <3>2, OneAtMost
    <3>. QED  BY <3>3, <2>1, Elements
  <2>3. m \in M
    <3>. HIDE DEF M
    <3>. QED  BY <2>1, <2>2, Elements
  <2>4. /\ m.from \in Threads /\ holder = m.from /\ At(m.from, "recv")
        /\ call[m.from].req = m.req
    BY <2>2, <2>3 DEF IInv, RepliesPair
  <2>5. m.req.op # "close"
    BY <2>4 DEF IInv, CallsSound
  <2>6. PICK p \in Replies :
          /\ inbox' = Append(inbox, p) /\ p.from = m.from
          /\ p.kind \in Accepts(m.req.op) \cup Refusals(m.req.op)
          /\ value' \in Values \cup {Absent}
    <3>1. value \in Values \cup {Absent}
      BY DEF IInv, TypeOK
    <3>. HIDE DEF m
    <3>2. /\ Reply(m, Kind(m.req.op), Payload(m.req.op, value)) \in Replies
          /\ \A kind \in Refusals(m.req.op) : Reply(m, kind, Absent) \in Replies
          /\ Effect(m.req, value) \in Values \cup {Absent}
          /\ Kind(m.req.op) \in Accepts(m.req.op)
      BY <3>1, <2>3, <2>5, ReplyTyped
    <3>. QED  BY <1>9, <3>1, <3>2 DEF Serve, Reply, m
  <2>7. inbox' = <<p>> /\ outbox' = <<>>
    BY <1>9, <2>2, <2>6 DEF Serve
  <2>. HIDE DEF m
  <2>8. TypeOK'
    BY <1>9, <2>6, <2>7 DEF Serve, IInv, TypeOK
  <2>9. RepliesPair'
    BY <1>9, <2>4, <2>6, <2>7 DEF Serve, RepliesPair, At
  <2>. QED  BY <1>9, <2>7, <2>8, <2>9
            DEF Serve, IInv, MutexHeld, CallsSound, ClosedIsDown, At
<1>10. ASSUME Break
       PROVE  IInv'
  <2>1. TypeOK'
    <3>1. CASE inbox' = inbox
      BY <1>10, <3>1 DEF Break, IInv, TypeOK
    <3>2. CASE inbox' = <<>>
      BY <1>10, <3>2 DEF Break, IInv, TypeOK
    <3>. QED  BY <1>10, <3>1, <3>2 DEF Break
  <2>2. RepliesPair'
    BY <1>10 DEF Break, IInv, TypeOK, RepliesPair, At
  <2>. QED  BY <1>10, <2>1, <2>2
            DEF Break, IInv, MutexHeld, CallsSound, ClosedIsDown, At
<1>11. CASE UNCHANGED vars
  BY <1>11 DEF vars, IInv, TypeOK, MutexHeld, RepliesPair, ClosedIsDown,
               CallsSound, At
<1>. QED  BY <1>1, <1>2, <1>3, <1>4, <1>5, <1>6, <1>7, <1>8, <1>9, <1>10, <1>11
          DEF Next, Proceed

LEMMA InitIInv ==
    ASSUME Init
    PROVE  IInv
<1>1. \A t \in Threads : call[t].pc = "idle"
  BY DEF Init, Idle
<1>2. TypeOK
  <2>1. Idle \in CallRecord
    BY FailedTyped DEF Idle, CallRecord, PCs
  <2>2. call \in [Threads -> CallRecord]
    BY <2>1 DEF Init
  <2>3. outbox = <<>> /\ inbox = <<>>
    BY DEF Init
  <2>4. /\ outbox \in Seq([from : Threads, req : Requests])
        /\ inbox \in Seq(Replies)
    BY <2>3, EmptySeq
  <2>5. holder = Free /\ closed = FALSE /\ conn = "up" /\ value = Absent
    BY DEF Init
  <2>. QED  BY <2>2, <2>4, <2>5 DEF TypeOK
<1>. QED  BY <1>1, <1>2, IPCAssumption
          DEF Init, IInv, MutexHeld, RepliesPair, ClosedIsDown, CallsSound, At

(* mu pairs every reply with its request: IInv, which says who holds mu    *)
(* and that what is on the wire is his, holds for ever.                    *)
THEOREM ClientInvariant == Spec => []IInv
BY InitIInv, NextIInv, PTL DEF Spec

(* No goroutine ever reads the reply to a request of another one, or of an *)
(* earlier call that failed.                                               *)
THEOREM RepliesAlwaysPair == Spec => []RepliesPair
<1>1. IInv => RepliesPair
  BY DEF IInv
<1>. QED  BY <1>1, ClientInvariant, PTL

-----------------------------------------------------------------------------
(* The shared client implements the service.                               *)

LEMMA PendingIs ==
    ASSUME NEW t \in Threads
    PROVE  /\ At(t, "idle") => Pending(t) = NoCall
           /\ At(t, "unlock") => Pending(t) = Done(call[t].req, call[t].out)
           /\ At(t, "lock") \/ At(t, "send") => Pending(t) = Called(call[t].req)
           /\ At(t, "recv") /\ outbox # <<>> => Pending(t) = Called(call[t].req)
           /\ At(t, "recv") /\ outbox = <<>> /\ inbox = <<>> =>
                Pending(t) = Done(call[t].req, Failed)
           /\ At(t, "recv") /\ outbox = <<>> /\ inbox # <<>> =>
                Pending(t) = Done(call[t].req,
                                  Decode(call[t].req.op, Head(inbox)))
BY DEF Pending, At

LEMMA PendingWillBe ==
    ASSUME NEW t \in Threads, NEW c \in CallRecord, call'[t] = c
    PROVE  /\ c.pc = "idle" => Pending(t)' = NoCall
           /\ c.pc = "unlock" => Pending(t)' = Done(c.req, c.out)
           /\ c.pc \in {"lock", "send"} => Pending(t)' = Called(c.req)
           /\ c.pc = "recv" /\ outbox' # <<>> => Pending(t)' = Called(c.req)
           /\ c.pc = "recv" /\ outbox' = <<>> /\ inbox' = <<>> =>
                Pending(t)' = Done(c.req, Failed)
           /\ c.pc = "recv" /\ outbox' = <<>> /\ inbox' # <<>> =>
                Pending(t)' = Done(c.req, Decode(c.req.op, Head(inbox')))
BY DEF Pending, At

(* Only the goroutine that moves, or whose messages do, is seen to move.   *)
LEMMA ServiceStep ==
    ASSUME NEW t \in Threads,
           \A u \in Threads \ {t} : Pending(u)' = Pending(u)
    PROVE  Service' = [Service EXCEPT ![t] = Pending(t)']
BY DEF Service

LEMMA OthersStay ==
    ASSUME IInv, NEW t \in Threads, holder \in {t, Free},
           \A u \in Threads \ {t} : call'[u] = call[u]
    PROVE  \A u \in Threads \ {t} : Pending(u)' = Pending(u)
<1>1. \A u \in Threads \ {t} : ~At(u, "recv")
  BY IPCAssumption DEF IInv, MutexHeld, At
<1>. QED  BY <1>1 DEF Pending, At

LEMMA Moved ==
    ASSUME IInv, NEW t \in Threads, NEW c,
           call' = [call EXCEPT ![t] = c]
    PROVE  call'[t] = c /\ \A u \in Threads \ {t} : call'[u] = call[u]
BY DEF IInv, TypeOK

(* The reply the server makes of a request is the answer of the service.   *)
LEMMA ReplyIsAnswer ==
    ASSUME NEW m, m.req \in Requests, m.req.op # "close",
           NEW v \in Values \cup {Absent}
    PROVE  /\ Decode(m.req.op, Reply(m, Kind(m.req.op), Payload(m.req.op, v)))
                = KV!Answer(m.req, v)
           /\ \A kind \in Refusals(m.req.op) :
                Decode(m.req.op, Reply(m, kind, Absent)) = Failed
<1>. DEFINE op == m.req.op
            p == Payload(op, v)
<1>1. /\ Kind(op) \in Accepts(op)
      /\ \A kind \in Refusals(op) : kind \notin Accepts(op)
  BY DEF Kind, Accepts, Refusals, Requests, Ops, ReadOps
<1>2. /\ Decode(op, Reply(m, Kind(op), p)) = Outcome(TRUE, Decoded(op, p))
      /\ \A kind \in Refusals(op) : Decode(op, Reply(m, kind, Absent)) = Failed
  <2>. HIDE DEF op, p
  <2>. QED  BY <1>1 DEF Decode, Reply
<1>3. KV!Answer(m.req, v) = Outcome(TRUE, Decoded(op, p))
  <2>1. CASE op = "get"
    BY <2>1, IPCAssumption
       DEF KV!Answer, KV!Outcome, Outcome, Decoded, Payload
  <2>2. CASE op = "scan"
    BY <2>2 DEF KV!Answer, KV!Outcome, Outcome, Decoded, Payload
  <2>3. CASE op \notin {"get", "scan"}
    BY <2>3 DEF KV!Answer, KV!Outcome, Outcome, Decoded, Payload
  <2>. QED  BY <2>1, <2>2, <2>3
<1>. QED  BY <1>2, <1>3

LEMMA InitService ==
    ASSUME Init
    PROVE  KV!Init
<1>1. \A t \in Threads : Pending(t) = NoCall
  BY PendingIs DEF Init, Idle, At
<1>. QED  BY <1>1 DEF Init, Service, KV!Init, KV!NoCall, NoCall, KV!NoRequest, NoRequest,
                      KV!Failed, Failed, KV!Outcome, Outcome

KVVars == <<value, ~closed, Service>>

(* How the calls of the service read on Service. *)
LEMMA AsService ==
    ASSUME NEW t \in Threads, NEW r, NEW o,
           \A u \in Threads \ {t} : Pending(u)' = Pending(u),
           value' = value, closed' = closed
    PROVE  /\ Pending(t)' = Pending(t) => UNCHANGED KVVars
           /\ r \in Requests /\ Pending(t) = NoCall /\ Pending(t)' = Called(r)
                => KV!Invoke(t, r)
           /\ Pending(t) \in {Called(r), Done(r, o)}
              /\ Pending(t)' = Done(r, Failed) => KV!Fail(t)
           /\ Pending(t) = Done(r, o) /\ Pending(t)' = NoCall
                => KV!Return(t)
<1>1. Service' = [Service EXCEPT ![t] = Pending(t)'] /\ Service[t] = Pending(t)
  BY ServiceStep DEF Service
<1>2. KV!NoCall = NoCall /\ KV!Failed = Failed /\ KV!Requests = Requests
  BY DEF KV!NoCall, NoCall, KV!NoRequest, NoRequest, KV!Failed, Failed,
         KV!Outcome, Outcome, KV!Requests, Requests, KV!Ops, Ops,
         KV!ReadOps, ReadOps
<1>3. Pending(t)' = Pending(t) => UNCHANGED KVVars
  BY <1>1 DEF KVVars, Service
<1>4. ASSUME r \in Requests, Pending(t) = NoCall, Pending(t)' = Called(r)
      PROVE  KV!Invoke(t, r)
  BY <1>1, <1>2, <1>4 DEF KV!Invoke, KV!Called, Called
<1>5. ASSUME Pending(t) \in {Called(r), Done(r, o)},
             Pending(t)' = Done(r, Failed)
      PROVE  KV!Fail(t)
  <2>1. Pending(t).step # "idle" /\ Pending(t).req = r
    BY <1>5 DEF Called, Done
  <2>. QED  BY <1>1, <1>2, <1>5, <2>1 DEF KV!Fail, KV!Done, Done
<1>6. ASSUME Pending(t) = Done(r, o), Pending(t)' = NoCall
      PROVE  KV!Return(t)
  <2>1. Pending(t).step = "done"
    BY <1>6 DEF Done
  <2>. QED  BY <1>1, <1>2, <1>6, <2>1 DEF KV!Return
<1>. QED  BY <1>3, <1>4, <1>5, <1>6

(* The steps of a goroutine that holds mu or takes it.                     *)
LEMMA HolderStep ==
    ASSUME IInv, NEW t \in Threads, NEW c \in CallRecord,
           holder \in {t, Free}, call' = [call EXCEPT ![t] = c],
           c.req = call[t].req, value' = value, closed' = closed,
           \/ At(t, "lock") /\ c.pc = "send"
           \/ (At(t, "lock") \/ At(t, "send")) /\ c.pc = "unlock" /\ c.out = Failed
           \/ At(t, "send") /\ c.pc = "recv" /\ outbox' # <<>>
           \/ /\ At(t, "recv") /\ c.pc = "unlock" /\ outbox = <<>>
              /\ c.out = IF inbox = <<>> THEN Failed
                         ELSE Decode(call[t].req.op, Head(inbox))
    PROVE  KV!Next \/ UNCHANGED KVVars
<1>. DEFINE r == call[t].req
<1>1. call'[t] = c /\ \A u \in Threads \ {t} : call'[u] = call[u]
  BY Moved
<1>2. \A u \in Threads \ {t} : Pending(u)' = Pending(u)
  BY <1>1, OthersStay
<1>3. CASE At(t, "lock") /\ c.pc = "send"
  <2>1. Pending(t) = Called(r) /\ Pending(t)' = Called(r)
    BY <1>1, <1>3, PendingIs, PendingWillBe
  <2>. QED  BY <1>2, <2>1, AsService
<1>4. CASE (At(t, "lock") \/ At(t, "send")) /\ c.pc = "unlock" /\ c.out = Failed
  <2>1. Pending(t) = Called(r) /\ Pending(t)' = Done(r, Failed)
    BY <1>1, <1>4, PendingIs, PendingWillBe
  <2>. QED  BY <1>2, <2>1, AsService DEF KV!Next
<1>5. CASE At(t, "send") /\ c.pc = "recv" /\ outbox' # <<>>
  <2>1. Pending(t) = Called(r) /\ Pending(t)' = Called(r)
    BY <1>1, <1>5, PendingIs, PendingWillBe
  <2>. QED  BY <1>2, <2>1, AsService
<1>6. CASE /\ At(t, "recv") /\ c.pc = "unlock" /\ outbox = <<>>
           /\ c.out = IF inbox = <<>> THEN Failed
                      ELSE Decode(r.op, Head(inbox))
  <2>1. Pending(t) = Done(r, c.out) /\ Pending(t)' = Done(r, c.out)
    BY <1>1, <1>6, PendingIs, PendingWillBe
  <2>. QED  BY <1>2, <2>1, AsService
<1>. QED  BY <1>3, <1>4, <1>5, <1>6

(* Close, the first one and those that find the client closed.             *)
LEMMA CloseStep ==
    ASSUME IInv, NEW t \in Threads, holder \in {t, Free},
           At(t, "lock") \/ At(t, "send"), call[t].req.op = "close",
           call' = [call EXCEPT ![t] = [pc |-> "unlock", req |-> @.req,
                                        out |-> Outcome(TRUE, Absent)]],
           closed' = TRUE, value' = value
    PROVE  KV!Close(t)
<1>. DEFINE r == call[t].req
            c == [pc |-> "unlock", req |-> r, out |-> Outcome(TRUE, Absent)]
<1>1. c \in CallRecord
  BY FailedTyped DEF IInv, TypeOK, CallRecord, PCs
<1>2. call'[t] = c /\ \A u \in Threads \ {t} : call'[u] = call[u]
  BY Moved
<1>3. Pending(t) = Called(r) /\ Pending(t)' = Done(r, c.out)
  BY <1>1, <1>2, PendingIs, PendingWillBe
<1>4. Service' = [Service EXCEPT ![t] = Pending(t)'] /\ Service[t] = Pending(t)
  BY <1>2, OthersStay, ServiceStep DEF Service
<1>. QED  BY <1>3, <1>4
          DEF KV!Close, Called, Done, KV!Done, KV!Outcome, Outcome

(* A step of the server: the request of the goroutine that waits takes     *)
(* effect and is answered, or is refused.                                  *)
LEMMA ServeStep ==
    ASSUME IInv, Serve
    PROVE  KV!Next
<1>. DEFINE M == [from : Threads, req : Requests]
<1>1. outbox \in Seq(M) /\ outbox # <<>> /\ inbox \in Seq(Replies)
  BY DEF Serve, IInv, TypeOK
<1>2. /\ Head(outbox) = outbox[1] /\ 1 \in DOMAIN outbox /\ outbox[1] \in M
      /\ inbox = <<>> /\ Tail(outbox) = <<>>
  <2>1. Len(outbox) # 0 /\ Len(outbox) + Len(inbox) <= 1
    BY <1>1 DEF IInv, RepliesPair
  <2>. HIDE DEF M
  <2>2. Len(outbox) = 1 /\ Len(inbox) = 0
    BY <1>1, <2>1, Elements, OneAtMost
  <2>. QED  BY <1>1, <2>2, Elements
<1>. PICK m \in M : m = Head(outbox)
  BY <1>2
<1>. PICK t \in Threads : t = m.from
  OBVIOUS
<1>3. m.req \in Requests
  OBVIOUS
<1>4. holder = t /\ At(t, "recv") /\ call[t].req = m.req
  BY <1>2 DEF IInv, RepliesPair
<1>5. m.req.op # "close" /\ ~closed
  BY <1>3, <1>4 DEF IInv, CallsSound, ClosedIsDown, Serve
<1>6. value \in Values \cup {Absent} /\ call' = call /\ outbox' = <<>>
      /\ closed' = closed
  BY <1>2 DEF Serve, IInv, TypeOK
<1>. HIDE DEF M
<1>7. Pending(t) = Called(m.req)
  BY <1>1, <1>3, <1>4, PendingIs
<1>8. call[t] \in CallRecord /\ call'[t] = call[t] /\ call[t].pc = "recv"
  BY <1>3, <1>4, <1>6 DEF IInv, TypeOK, At
<1>9. \A u \in Threads \ {t} : Pending(u)' = Pending(u)
  BY <1>3, <1>4, <1>6, OthersStay
<1>10. Service' = [Service EXCEPT ![t] = Pending(t)'] /\ Service[t] = Pending(t)
  BY <1>3, <1>9, ServiceStep DEF Service
<1>11. CASE /\ value' = Effect(m.req, value)
            /\ inbox' = Append(inbox, Reply(m, Kind(m.req.op),
                                            Payload(m.req.op, value)))
  <2>1. inbox' # <<>> /\ Head(inbox') = Reply(m, Kind(m.req.op),
                                              Payload(m.req.op, value))
    BY <1>2, <1>11
  <2>2. Pending(t)' = Done(m.req, KV!Answer(m.req, value))
    BY <1>3, <1>4, <1>5, <1>6, <1>8, <2>1, PendingWillBe, ReplyIsAnswer
  <2>3. KV!Effect(m.req, value) = Effect(m.req, value)
    BY DEF KV!Effect, Effect
  <2>4. Service[t].step = "called" /\ Service[t].req = m.req
    BY <1>7, <1>10 DEF Called
  <2>5. Service' = [Service EXCEPT ![t] = KV!Done(m.req, KV!Answer(m.req, value))]
    BY <1>10, <2>2 DEF KV!Done, Done
  <2>6. value' = KV!Effect(m.req, value)
    BY <1>11, <2>3
  <2>7. KV!Take(t)
    BY <1>5, <1>6, <2>4, <2>5, <2>6 DEF KV!Take
  <2>. QED  BY <2>7 DEF KV!Next
<1>12. ASSUME NEW kind \in Refusals(m.req.op), UNCHANGED value,
              inbox' = Append(inbox, Reply(m, kind, Absent))
       PROVE  KV!Next
  <2>1. inbox' # <<>> /\ Head(inbox') = Reply(m, kind, Absent)
    BY <1>2, <1>12
  <2>2. Pending(t)' = Done(m.req, Failed)
    BY <1>3, <1>4, <1>5, <1>6, <1>8, <2>1, PendingWillBe, ReplyIsAnswer
  <2>3. KV!Fail(t)
    BY <1>3, <1>6, <1>7, <1>9, <1>12, <2>2, AsService
  <2>. QED  BY <1>3, <2>3 DEF KV!Next
<1>. QED  BY <1>11, <1>12 DEF Serve

(* The end of the connection: the call that waits, if there is one, has    *)
(* its answer already or fails.                                            *)
LEMMA BreakStep ==
    ASSUME IInv, Break
    PROVE  KV!Next \/ UNCHANGED KVVars
<1>1. call' = call /\ outbox' = <<>> /\ value' = value /\ closed' = closed
  BY DEF Break
<1>2. \A u \in Threads : ~At(u, "recv") => Pending(u)' = Pending(u)
  BY <1>1 DEF Pending, At
<1>3. CASE \A u \in Threads : ~At(u, "recv")
  BY <1>1, <1>2, <1>3 DEF KVVars, Service
<1>4. ASSUME NEW t \in Threads, At(t, "recv")
      PROVE  KV!Next \/ UNCHANGED KVVars
  <2>. DEFINE r == call[t].req
  <2>1. holder = t /\ call[t] \in CallRecord /\ call'[t] = call[t]
    BY <1>1, <1>4 DEF IInv, TypeOK, MutexHeld, At
  <2>2. \A u \in Threads \ {t} : Pending(u)' = Pending(u)
    BY <1>1, <2>1, OthersStay
  <2>3. CASE outbox = <<>> /\ inbox' = inbox
    <3>1. Pending(t)' = Pending(t)
      BY <1>1, <2>3 DEF Pending, At
    <3>. QED  BY <1>1, <2>2, <3>1, AsService
  <2>4. CASE outbox # <<>> \/ inbox' # inbox
    <3>1. inbox' = <<>>
      <4>1. inbox' = <<>> \/ inbox' = inbox
        BY DEF Break
      <4>2. outbox # <<>> => inbox = <<>>
        <5>. DEFINE M == [from : Threads, req : Requests]
        <5>1. /\ outbox \in Seq(M) /\ inbox \in Seq(Replies)
              /\ Len(outbox) + Len(inbox) <= 1
          BY DEF IInv, TypeOK, RepliesPair
        <5>. HIDE DEF M
        <5>2. outbox # <<>> => Len(outbox) # 0
          BY <5>1, Elements
        <5>. QED  BY <5>1, <5>2, Elements, OneAtMost
      <4>. QED  BY <2>4, <4>1, <4>2
    <3>2. Pending(t)' = Done(r, Failed)
      BY <1>1, <1>4, <2>1, <3>1, PendingWillBe DEF At
    <3>3. \E o : Pending(t) \in {Called(r), Done(r, o)}
      BY <1>4, PendingIs
    <3>4. KV!Fail(t)
      BY <1>1, <2>2, <3>2, <3>3, AsService
    <3>. QED  BY <3>4 DEF KV!Next
  <2>. QED  BY <2>3, <2>4
<1>. QED  BY <1>3, <1>4

LEMMA NextService ==
    ASSUME IInv, [Next]_vars
    PROVE  KV!Next \/ UNCHANGED KVVars
<1>1. ASSUME NEW t \in Threads, NEW r \in Requests, Call(t, r)
      PROVE  KV!Next
  <2>. DEFINE c == [pc |-> "lock", req |-> r, out |-> Failed]
  <2>1. c \in CallRecord
    BY FailedTyped DEF CallRecord, PCs
  <2>2. call'[t] = c /\ \A u \in Threads \ {t} : call'[u] = call[u]
    BY <1>1, Moved DEF Call
  <2>3. \A u \in Threads \ {t} : Pending(u)' = Pending(u)
    BY <1>1, <2>2 DEF Call, Pending, At
  <2>4. Pending(t) = NoCall /\ Pending(t)' = Called(r)
    BY <1>1, <2>1, <2>2, PendingIs, PendingWillBe DEF Call
  <2>5. KV!Invoke(t, r)
    BY <1>1, <2>3, <2>4, AsService DEF Call
  <2>6. r \in KV!Requests
    BY DEF KV!Requests, Requests, KV!Ops, Ops, KV!ReadOps, ReadOps
  <2>. QED  BY <2>5, <2>6 DEF KV!Next
<1>2. ASSUME NEW t \in Threads, Lock(t)
      PROVE  KV!Next \/ UNCHANGED KVVars
  <2>1. call[t].out \in [ok : BOOLEAN, value : Values \cup {Absent}]
        /\ call[t].req \in Requests \cup {NoRequest}
    BY DEF IInv, TypeOK, CallRecord
  <2>2. CASE ~closed
    BY <1>2, <2>1, <2>2, FailedTyped, HolderStep
       DEF Lock, Moves, CallRecord, PCs
  <2>3. CASE closed /\ call[t].req.op = "close"
    <3>1. closed' = TRUE
      BY <1>2, <2>3 DEF Lock, IInv, TypeOK
    <3>2. KV!Close(t)
      BY <1>2, <2>3, <3>1, CloseStep DEF Lock, Moves
    <3>. QED  BY <3>2 DEF KV!Next
  <2>4. CASE closed /\ call[t].req.op # "close"
    BY ZenonT(40), <1>2, <2>1, <2>4, FailedTyped, HolderStep
       DEF Lock, Moves, CallRecord, PCs, Failed
  <2>. QED  BY <2>2, <2>3, <2>4
<1>3. ASSUME NEW t \in Threads, Proceed(t)
      PROVE  KV!Next \/ UNCHANGED KVVars
  <2>1. call[t].req \in Requests /\ holder = t
    BY <1>3 DEF IInv, CallsSound, MutexHeld, At, Proceed, Close, Send,
                SendFails, Receive, ReceiveFails, Return
  <2>2. CASE Close(t)
    <3>1. KV!Close(t)
      BY <2>1, <2>2, CloseStep DEF Close, Moves
    <3>. QED  BY <3>1 DEF KV!Next
  <2>3. CASE Send(t)
    <3>1. outbox' # <<>>
      BY <2>3 DEF Send, IInv, TypeOK
    <3>. QED  BY <2>1, <2>3, <3>1, FailedTyped, HolderStep
              DEF Send, Moves, CallRecord, PCs
  <2>4. CASE SendFails(t)
    BY <2>1, <2>4, FailedTyped, HolderStep DEF SendFails, Moves, CallRecord, PCs
  <2>5. CASE Receive(t)
    <3>1. outbox = <<>> /\ Head(inbox) \in Replies
      BY <2>5 DEF Receive, IInv, TypeOK, RepliesPair
    <3>. QED  BY <2>1, <2>5, <3>1, DecodeTyped, HolderStep
              DEF Receive, Moves, CallRecord, PCs
  <2>6. CASE ReceiveFails(t)
    <3>1. outbox = <<>> /\ inbox = <<>>
      BY <2>6 DEF ReceiveFails, EOF, IInv, ClosedIsDown
    <3>. QED  BY <2>1, <2>6, <3>1, FailedTyped, HolderStep
              DEF ReceiveFails, AfterFailedRead, Moves, CallRecord, PCs
  <2>7. CASE Return(t)
    <3>1. Idle \in CallRecord
      BY FailedTyped DEF Idle, CallRecord, PCs
    <3>2. call'[t] = Idle /\ \A u \in Threads \ {t} : call'[u] = call[u]
      BY <2>7, Moved DEF Return
    <3>3. Pending(t) = Done(call[t].req, call[t].out) /\ Pending(t)' = NoCall
      BY <2>7, <3>1, <3>2, PendingIs, PendingWillBe DEF Return, Idle
    <3>4. \A u \in Threads \ {t} : Pending(u)' = Pending(u)
      BY <2>1, <3>2, OthersStay
    <3>5. KV!Return(t)
      BY <2>7, <3>3, <3>4, AsService DEF Return
    <3>. QED  BY <3>5 DEF KV!Next
  <2>. QED  BY <1>3, <2>2, <2>3, <2>4, <2>5, <2>6, <2>7 DEF Proceed
<1>4. CASE Serve
  BY <1>4, ServeStep
<1>5. CASE Break
  BY <1>5, BreakStep
<1>6. CASE UNCHANGED vars
  BY <1>6 DEF vars, KVVars, Service, Pending, At
<1>. QED  BY <1>1, <1>2, <1>3, <1>4, <1>5, <1>6 DEF Next

(* The client that goroutines share is the service: every call happens at  *)
(* one point between its start and its return or fails, and has no effect  *)
(* afterwards.                                                             *)
THEOREM ClientIsService == Spec => ImplementsService
<1>1. Init => KV!Init
  BY InitService
<1>2. IInv /\ [Next]_vars => [KV!Next]_KVVars
  BY NextService
<1>. QED  BY <1>1, <1>2, ClientInvariant, PTL
          DEF Spec, ImplementsService, KV!Spec, KVVars

-----------------------------------------------------------------------------
(* Why mu comes back: fairness is left to TLC, the rest is shown here.     *)

(* Who waits for a message will get one, or sees the connection end. *)
ReadsAnswered ==
    \A t \in Threads : At(t, "recv") =>
      inbox # <<>> \/ EOF \/ (conn = "up" /\ outbox # <<>>)

(* The steps of t and of the server, the end of the connection included,   *)
(* before t unlocks mu.                                                    *)
WorkLeft(t) ==
    (CASE At(t, "send") -> 4
       [] At(t, "recv") -> (IF outbox # <<>> THEN 3 ELSE 2)
       [] At(t, "unlock") -> 1
       [] OTHER -> 0)
    + (IF conn = "up" THEN 1 ELSE 0)

HolderWorks ==
    \A t \in Threads : holder = t =>
      \/ WorkLeft(t)' < WorkLeft(t)
      \/ /\ holder' = t /\ WorkLeft(t)' = WorkLeft(t)
         /\ \E u \in Threads \ {t}, r \in Requests : Call(u, r)

LEMMA CallTakes ==
    ASSUME IInv, NEW t \in Threads, NEW pc, NEW out, Moves(t, pc, out)
    PROVE  \A u \in Threads : \A p : At(u, p)' <=> IF u = t THEN p = pc ELSE At(u, p)
<1>1. /\ call'[t].pc = pc /\ \A u \in Threads \ {t} : call'[u] = call[u]
  BY DEF Moves, IInv, TypeOK
<1>. QED  BY <1>1 DEF At

LEMMA OnlyHolderMoves ==
    ASSUME IInv, NEW t \in Threads, At(t, "send") \/ At(t, "recv") \/ At(t, "unlock")
    PROVE  holder = t /\ \A u \in Threads : holder = u => u = t
BY DEF IInv, MutexHeld, At

(* A server that reads a request empties the connection of them: it is     *)
(* that of whoever holds mu.                                               *)
LEMMA ServedAlone ==
    ASSUME IInv, Serve, NEW t \in Threads, holder = t
    PROVE  outbox # <<>> /\ At(t, "recv") /\ outbox' = <<>>
<1>. DEFINE M == [from : Threads, req : Requests]
<1>1. outbox \in Seq(M) /\ inbox \in Seq(Replies) /\ outbox # <<>>
  BY DEF Serve, IInv, TypeOK
<1>2. Len(outbox) # 0 /\ Len(outbox) + Len(inbox) <= 1
  BY <1>1 DEF IInv, RepliesPair
<1>3. Len(outbox) = 1 /\ Tail(outbox) = <<>> /\ 1 \in DOMAIN outbox
  <2>. HIDE DEF M
  <2>1. Len(outbox) \in Nat /\ Len(inbox) \in Nat
    BY <1>1, Elements
  <2>2. Len(outbox) = 1
    BY <1>2, <2>1, OneAtMost
  <2>. QED  BY <1>1, <2>2, Elements
<1>4. At(t, "recv")
  BY <1>3 DEF IInv, RepliesPair
<1>. QED  BY <1>1, <1>3, <1>4 DEF Serve

LEMMA NextReads ==
    ASSUME IInv, ReadsAnswered, [Next]_vars
    PROVE  ReadsAnswered'
<1>1. ASSUME NEW t \in Threads, NEW r \in Requests, Call(t, r)
      PROVE  ReadsAnswered'
  <2>1. call'[t].pc = "lock" /\ \A u \in Threads \ {t} : call'[u] = call[u]
    BY <1>1 DEF Call, IInv, TypeOK
  <2>. QED  BY <1>1, <2>1 DEF Call, ReadsAnswered, At, EOF
<1>2. ASSUME NEW t \in Threads, NEW pc \in PCs \ {"recv"}, NEW out, Moves(t, pc, out),
             UNCHANGED <<conn, outbox, inbox>>
      PROVE  ReadsAnswered'
  BY <1>2, CallTakes DEF ReadsAnswered, EOF
<1>3. ASSUME NEW t \in Threads, Lock(t) PROVE ReadsAnswered'
  BY <1>2, <1>3 DEF Lock, PCs
<1>4. ASSUME NEW t \in Threads, Close(t) PROVE ReadsAnswered'
  BY <1>4 DEF Close, ReadsAnswered, EOF
<1>5. ASSUME NEW t \in Threads, Send(t) PROVE ReadsAnswered'
  <2>1. outbox' # <<>> /\ conn' = "up"
    <3>1. outbox' = Append(outbox, [from |-> t, req |-> call[t].req])
          /\ outbox \in Seq([from : Threads, req : Requests])
      BY <1>5 DEF Send, IInv, TypeOK
    <3>. QED  BY <1>5, <3>1 DEF Send
  <2>. QED  BY <2>1 DEF ReadsAnswered
<1>6. ASSUME NEW t \in Threads, SendFails(t) PROVE ReadsAnswered'
  BY <1>2, <1>6 DEF SendFails, PCs
<1>7. ASSUME NEW t \in Threads, Receive(t) \/ ReceiveFails(t) \/ Return(t)
      PROVE  ReadsAnswered'
  <2>1. \A u \in Threads : ~At(u, "recv")'
    <3>1. \A u \in Threads \ {t} : ~At(u, "recv")
      BY <1>7, OnlyHolderMoves DEF Receive, ReceiveFails, Return
    <3>2. call'[t].pc \in {"unlock", "idle"} /\ \A u \in Threads \ {t} : call'[u] = call[u]
      BY <1>7 DEF Receive, ReceiveFails, Return, Moves, AfterFailedRead, Idle, IInv, TypeOK
    <3>. QED  BY <3>1, <3>2 DEF At
  <2>. QED  BY <2>1 DEF ReadsAnswered
<1>8. ASSUME Serve PROVE ReadsAnswered'
  <2>1. PICK p : inbox' = Append(inbox, p)
    BY <1>8 DEF Serve
  <2>2. inbox' # <<>>
    BY <2>1 DEF IInv, TypeOK
  <2>. QED  BY <2>2 DEF ReadsAnswered
<1>9. ASSUME Break PROVE ReadsAnswered'
  BY <1>9 DEF Break, ReadsAnswered, EOF, At
<1>10. CASE UNCHANGED vars
  BY <1>10 DEF vars, ReadsAnswered, EOF, At
<1>. QED  BY <1>1, <1>3, <1>4, <1>5, <1>6, <1>7, <1>8, <1>9, <1>10 DEF Next, Proceed

(* No goroutine reads from a connection that owes it nothing and stays up: *)
(* it would hold mu for ever, for no read has a deadline.                  *)
THEOREM ReadsAlwaysAnswered == Spec => []ReadsAnswered
<1>1. Init => ReadsAnswered
  BY DEF Init, ReadsAnswered, At, Idle
<1>2. IInv /\ ReadsAnswered /\ [Next]_vars => ReadsAnswered'
  BY NextReads
<1>. QED  BY <1>1, <1>2, ClientInvariant, PTL DEF Spec

(* Every step brings whoever holds mu nearer to its unlock, except that    *)
(* other goroutines begin to wait: no call, and no end of the connection,  *)
(* sends a call back, so mu is held for five steps at most.                *)
THEOREM HolderAlwaysWorks == Spec => [][HolderWorks]_vars
<1>1. ASSUME IInv, [Next]_vars, vars' # vars PROVE HolderWorks
  <2>1. ASSUME NEW u \in Threads, NEW r \in Requests, Call(u, r)
        PROVE  HolderWorks
    <3>1. call'[u].pc = "lock" /\ \A t \in Threads \ {u} : call'[t] = call[t]
      BY <1>1, <2>1 DEF Call, IInv, TypeOK
    <3>2. ASSUME NEW t \in Threads, holder = t
          PROVE  t # u /\ WorkLeft(t)' = WorkLeft(t) /\ holder' = t
      <4>1. t # u
        BY <1>1, <2>1, <3>2 DEF IInv, MutexHeld, Call, At
      <4>. QED  BY <2>1, <3>1, <3>2, <4>1 DEF Call, WorkLeft, At
    <3>. QED  BY <2>1, <3>2 DEF HolderWorks
  <2>2. ASSUME NEW u \in Threads, Lock(u) PROVE HolderWorks
    BY <2>2, IPCAssumption DEF Lock, HolderWorks
  <2>3. ASSUME NEW u \in Threads, Proceed(u) PROVE HolderWorks
    <3>1. SUFFICES WorkLeft(u)' < WorkLeft(u)
      BY <1>1, <2>3, OnlyHolderMoves
         DEF HolderWorks, Proceed, Close, Send, SendFails, Receive, ReceiveFails, Return
    <3>2. CASE Close(u)
      <4>1. At(u, "send") /\ At(u, "unlock")' /\ conn' = "down"
        BY <1>1, <3>2, CallTakes DEF Close
      <4>. QED  BY <4>1 DEF WorkLeft, At
    <3>3. CASE Send(u)
      BY <1>1, <3>3, CallTakes DEF Send, WorkLeft, At
    <3>4. CASE SendFails(u)
      BY <1>1, <3>4, CallTakes DEF SendFails, WorkLeft, At
    <3>5. CASE Receive(u)
      BY <1>1, <3>5, CallTakes DEF Receive, WorkLeft, At
    <3>6. CASE ReceiveFails(u)
      BY <1>1, <3>6, CallTakes DEF ReceiveFails, AfterFailedRead, WorkLeft, At
    <3>7. CASE Return(u)
      <4>1. call'[u].pc = "idle" /\ call[u].pc = "unlock" /\ conn' = conn
        BY <1>1, <3>7 DEF Return, Idle, At, IInv, TypeOK
      <4>. QED  BY <4>1 DEF WorkLeft, At
    <3>. QED  BY <2>3, <3>2, <3>3, <3>4, <3>5, <3>6, <3>7 DEF Proceed
  <2>4. CASE Serve
    <3>1. ASSUME NEW t \in Threads, holder = t PROVE WorkLeft(t)' < WorkLeft(t)
      <4>1. outbox # <<>> /\ At(t, "recv") /\ outbox' = <<>>
        BY <1>1, <2>4, <3>1, ServedAlone
      <4>. QED  BY <2>4, <4>1 DEF Serve, WorkLeft, At
    <3>. QED  BY <3>1 DEF HolderWorks
  <2>5. CASE Break
    BY <2>5 DEF Break, HolderWorks, WorkLeft, At
  <2>. QED  BY <1>1, <2>1, <2>2, <2>3, <2>4, <2>5 DEF Next
<1>2. IInv /\ [Next]_vars => [HolderWorks]_vars
  BY <1>1
<1>. QED  BY <1>2, ClientInvariant, PTL DEF Spec

-----------------------------------------------------------------------------
(* Spans.  A call that is under way holds identifiers that are nobody      *)
(* else's, or a record that will be attached when it is stored; that, and  *)
(* that what is stored stays, is what TracesInv adds to SpansAttached.     *)

(* Where a span with this record belongs. *)
Attached(p, r) ==
    /\ p[1] \in DOMAIN traces
    /\ IF r.parent = 0 THEN traces[p[1]].root = p[2]
       ELSE /\ <<p[1], r.parent>> \in DOMAIN spans
            /\ spans[<<p[1], r.parent>>].start <= r.start
    /\ traces[p[1]].start <= r.start /\ r.start <= micros
    /\ r.end # 0 => r.start <= r.end

(* What a goroutine in a call has in hand is new, or as it is stored.      *)
JobFits(j) ==
    /\ j.pc \in {"trace", "span"} =>
         j.span \in 1..drawn /\ \A p \in DOMAIN spans : p[2] # j.span
    /\ j.pc = "trace" =>
         /\ j.trace \in 1..drawn /\ j.trace \notin DOMAIN traces
         /\ j.data.parent = 0 /\ j.data.end = 0 /\ j.data.start <= micros
    /\ j.pc = "span" => Attached(SpanOf(j), j.data)
    /\ j.pc = "end" =>
         /\ SpanOf(j) \in DOMAIN spans
         /\ spans[SpanOf(j)].parent = j.data.parent
         /\ spans[SpanOf(j)].start = j.data.start
         /\ j.data.start <= j.data.end /\ j.data.end \in 1..micros

JobsApart ==
    \A t, u \in Tracers : t # u =>
      /\ job[t].pc \in {"trace", "span"} /\ job[u].pc \in {"trace", "span"}
           => job[t].span # job[u].span
      /\ job[t].pc = "trace" /\ job[u].pc = "trace" => job[t].trace # job[u].trace

TracesInv ==
    /\ TracesTypeOK /\ micros # 0
    /\ \A t \in Tracers : JobFits(job[t])
    /\ JobsApart
    /\ given \subseteq DOMAIN spans
    /\ \A p \in DOMAIN spans : Attached(p, spans[p]) /\ p[2] \in 1..drawn
    /\ \A x \in DOMAIN traces : x <= drawn

(* Nothing stored goes away, and spans keep their place. *)
Grows ==
    /\ \A x \in DOMAIN traces : x \in DOMAIN traces' /\ traces'[x] = traces[x]
    /\ \A p \in DOMAIN spans :
         /\ p \in DOMAIN spans'
         /\ spans'[p].parent = spans[p].parent /\ spans'[p].start = spans[p].start
    /\ micros <= micros' /\ drawn <= drawn'

LEMMA AttachedStays ==
    ASSUME TracesTypeOK, TracesTypeOK', Grows, NEW p \in Nat \X Nat,
           NEW r \in SpanRecord, Attached(p, r)
    PROVE  /\ p[1] \in DOMAIN traces'
           /\ IF r.parent = 0 THEN traces'[p[1]].root = p[2]
              ELSE /\ <<p[1], r.parent>> \in DOMAIN spans'
                   /\ spans'[<<p[1], r.parent>>].start <= r.start
           /\ traces'[p[1]].start <= r.start /\ r.start <= micros'
           /\ r.end # 0 => r.start <= r.end
BY DEF TracesTypeOK, Grows, Attached, SpanRecord

(* Goroutines that stand by. *)
LEMMA OtherJobs ==
    ASSUME TracesInv, TracesTypeOK', Grows, NEW t \in Tracers,
           \A p \in DOMAIN spans' \ DOMAIN spans :
             job[t].pc = "span" /\ p[2] = job[t].span,
           \A x \in DOMAIN traces' \ DOMAIN traces :
             job[t].pc = "trace" /\ x = job[t].trace,
           NEW u \in Tracers \ {t}, job'[u] = job[u]
    PROVE  JobFits(job[u])'
<1> DEFINE j == job[u]
<1>1. JobFits(j) /\ j \in [pc : {"idle", "trace", "span", "end"}, trace : Nat,
                           span : Nat, data : SpanRecord]
  BY DEF TracesInv, TracesTypeOK
<1>2. drawn \in Nat /\ drawn' \in Nat /\ micros \in Nat /\ micros' \in Nat
  BY DEF TracesInv, TracesTypeOK
<1>3. j.pc \in {"trace", "span"} =>
        j.span \in 1..drawn' /\ \A p \in DOMAIN spans' : p[2] # j.span
  BY <1>1, <1>2 DEF JobFits, Grows, TracesInv, JobsApart
<1>4. j.pc = "trace" =>
        /\ j.trace \in 1..drawn' /\ j.trace \notin DOMAIN traces'
        /\ j.data.parent = 0 /\ j.data.end = 0 /\ j.data.start <= micros'
  BY <1>1, <1>2 DEF JobFits, Grows, TracesInv, JobsApart, SpanRecord
<1>5. ASSUME j.pc = "span" PROVE Attached(SpanOf(job[u]), job[u].data)'
  <2>1. SpanOf(j) \in Nat \X Nat /\ j.data \in SpanRecord /\ Attached(SpanOf(j), j.data)
    BY <1>1, <1>5 DEF SpanOf, JobFits
  <2>2. SpanOf(job[u])' = SpanOf(j) /\ job'[u].data = j.data
    BY DEF SpanOf
  <2> HIDE DEF j
  <2> QED BY <2>1, <2>2, AttachedStays DEF Attached, TracesInv
<1>6. j.pc = "end" =>
         /\ SpanOf(j) \in DOMAIN spans'
         /\ spans'[SpanOf(j)].parent = j.data.parent
         /\ spans'[SpanOf(j)].start = j.data.start
         /\ j.data.start <= j.data.end /\ j.data.end \in 1..micros'
  BY <1>1, <1>2 DEF JobFits, Grows, SpanRecord
<1>7. SpanOf(job[u])' = SpanOf(j) /\ job'[u] = j
  BY DEF SpanOf
<1> QED
  BY <1>3, <1>4, <1>5, <1>6, <1>7 DEF JobFits

(* All that a step leaves to be shown of the goroutine that takes it.      *)
Unlike(t) ==
    \A u \in Tracers \ {t} :
      /\ job'[t].pc \in {"trace", "span"} /\ job[u].pc \in {"trace", "span"}
           => job'[t].span # job[u].span
      /\ job'[t].pc = "trace" /\ job[u].pc = "trace" => job'[t].trace # job[u].trace

LEMMA JobsKept ==
    ASSUME TracesInv, TracesTypeOK', Grows, NEW t \in Tracers,
           \A u \in Tracers \ {t} : job'[u] = job[u],
           \A p \in DOMAIN spans' \ DOMAIN spans :
             job[t].pc = "span" /\ p[2] = job[t].span,
           \A x \in DOMAIN traces' \ DOMAIN traces :
             job[t].pc = "trace" /\ x = job[t].trace,
           JobFits(job[t])', Unlike(t)
    PROVE  /\ \A u \in Tracers : JobFits(job[u])'
           /\ JobsApart'
<1>1. ASSUME NEW u \in Tracers PROVE JobFits(job[u])'
  <2>1. CASE u = t
    BY <2>1
  <2>2. CASE u # t
    BY <2>2, OtherJobs
  <2> QED BY <2>1, <2>2
<1>2. ASSUME NEW u \in Tracers, NEW w \in Tracers, u # w
      PROVE  /\ job'[u].pc \in {"trace", "span"} /\ job'[w].pc \in {"trace", "span"}
                  => job'[u].span # job'[w].span
             /\ job'[u].pc = "trace" /\ job'[w].pc = "trace"
                  => job'[u].trace # job'[w].trace
  <2>1. CASE u = t
    BY <1>2, <2>1 DEF Unlike
  <2>2. CASE w = t
    BY <1>2, <2>2 DEF Unlike
  <2>3. CASE u # t /\ w # t
    BY <1>2, <2>3 DEF TracesInv, JobsApart
  <2> QED BY <2>1, <2>2, <2>3
<1> QED BY <1>1, <1>2 DEF JobsApart

(* A stored span stays attached when all it gets is an end.                *)
LEMMA SpansKept ==
    ASSUME TracesInv, TracesTypeOK', Grows,
           NEW p \in DOMAIN spans,
           \/ spans'[p].end = spans[p].end
           \/ spans'[p].start <= spans'[p].end
    PROVE  Attached(p, spans[p])' /\ p[2] \in 1..drawn'
<1> DEFINE r == spans[p]
<1>1. r \in SpanRecord /\ Attached(p, r) /\ p \in Nat \X Nat /\ p[2] \in 1..drawn
  BY DEF TracesInv, TracesTypeOK
<1>2. spans'[p].parent = r.parent /\ spans'[p].start = r.start /\ drawn <= drawn'
  BY DEF Grows
<1>3. drawn \in Nat /\ drawn' \in Nat
  BY DEF TracesInv, TracesTypeOK
<1>4. spans'[p].end # 0 => r.start <= spans'[p].end
  BY <1>1, <1>2 DEF Attached
<1> HIDE DEF r
<1>5. /\ p[1] \in DOMAIN traces'
      /\ IF r.parent = 0 THEN traces'[p[1]].root = p[2]
         ELSE /\ <<p[1], r.parent>> \in DOMAIN spans'
              /\ spans'[<<p[1], r.parent>>].start <= r.start
      /\ traces'[p[1]].start <= r.start /\ r.start <= micros'
  BY <1>1, AttachedStays DEF TracesInv
<1>6. Attached(p, spans[p])'
  BY <1>2, <1>4, <1>5 DEF Attached
<1> QED BY <1>1, <1>2, <1>3, <1>6

-----------------------------------------------------------------------------
(* Each step preserves TracesInv. *)
JobRecords == [pc : {"idle", "trace", "span", "end"}, trace : Nat, span : Nat,
         data : SpanRecord]

LEMMA JobTyped ==
    ASSUME TracesTypeOK, NEW t \in Tracers
    PROVE  /\ job[t] \in JobRecords /\ job[t].data \in SpanRecord
           /\ SpanOf(job[t]) \in Nat \X Nat
           /\ NoJob \in JobRecords
BY DEF TracesTypeOK, JobRecords, SpanOf, NoJob, Job, Record, SpanRecord

LEMMA StartTraceKeeps ==
    ASSUME TracesInv, NEW t \in Tracers, StartTrace(t)
    PROVE  TracesInv'
<1> DEFINE j == Job("trace", drawn + 1, drawn + 2, Record(0, micros, 0))
<1>0. /\ drawn' = drawn + 2 /\ job' = [job EXCEPT ![t] = j]
      /\ UNCHANGED <<traces, spans, micros, given, returned, muddled>>
  BY DEF StartTrace, BeginJob
<1>1. TracesTypeOK /\ drawn \in Nat /\ micros \in Nat /\ job \in [Tracers -> JobRecords]
  BY DEF TracesInv, TracesTypeOK, JobRecords
<1>2. /\ j \in JobRecords /\ j.pc = "trace" /\ j.trace = drawn + 1 /\ j.span = drawn + 2
      /\ j.data = Record(0, micros, 0)
  BY <1>1 DEF Job, JobRecords, Record, SpanRecord
<1> HIDE DEF j
<1>3. job' \in [Tracers -> JobRecords] /\ job'[t] = j /\ \A u \in Tracers \ {t} : job'[u] = job[u]
  BY <1>0, <1>1, <1>2
<1>4. TracesTypeOK'
  BY <1>0, <1>1, <1>3 DEF TracesTypeOK, JobRecords
<1>5. Grows
  BY <1>0, <1>1 DEF Grows
<1>6. JobFits(job[t])'
  <2>1. \A p \in DOMAIN spans : p[2] # drawn + 2
    BY <1>1 DEF TracesInv
  <2>2. drawn + 1 \notin DOMAIN traces
    BY <1>1 DEF TracesInv
  <2> QED BY <2>1, <2>2, <1>0, <1>1, <1>2, <1>3 DEF JobFits, Record
<1>7. Unlike(t)
  BY <1>1, <1>2, <1>3 DEF Unlike, TracesInv, JobFits
<1>8. (\A u \in Tracers : JobFits(job[u])') /\ JobsApart'
  BY <1>0, <1>3, <1>4, <1>5, <1>6, <1>7, JobsKept
<1>9. \A p \in DOMAIN spans' : Attached(p, spans[p])' /\ p[2] \in 1..drawn'
  BY <1>0, <1>4, <1>5, SpansKept
<1> QED
  <2>1. \A x \in DOMAIN traces' : x <= drawn'
    BY <1>0, <1>1 DEF TracesInv, TracesTypeOK
  <2> QED BY <1>0, <1>1, <1>4, <1>8, <1>9, <2>1 DEF TracesInv

LEMMA StartSpanKeeps ==
    ASSUME TracesInv, NEW t \in Tracers, NEW p \in given, StartSpan(t, p)
    PROVE  TracesInv'
<1> DEFINE j == Job("span", p[1], drawn + 1, Record(p[2], micros, 0))
<1>0. /\ drawn' = drawn + 1 /\ job' = [job EXCEPT ![t] = j]
      /\ UNCHANGED <<traces, spans, micros, given, returned, muddled>>
  BY DEF StartSpan, BeginJob
<1>1. /\ TracesTypeOK /\ drawn \in Nat /\ micros \in Nat /\ job \in [Tracers -> JobRecords]
      /\ p \in Nat \X Nat /\ p \in DOMAIN spans
  BY DEF TracesInv, TracesTypeOK, JobRecords
<1>2. /\ j \in JobRecords /\ j.pc = "span" /\ j.trace = p[1] /\ j.span = drawn + 1
      /\ j.data = Record(p[2], micros, 0)
  BY <1>1 DEF Job, JobRecords, Record, SpanRecord
<1> HIDE DEF j
<1>3. job' \in [Tracers -> JobRecords] /\ job'[t] = j /\ \A u \in Tracers \ {t} : job'[u] = job[u]
  BY <1>0, <1>1, <1>2
<1>4. TracesTypeOK'
  BY <1>0, <1>1, <1>3 DEF TracesTypeOK, JobRecords
<1>5. Grows
  BY <1>0, <1>1 DEF Grows
<1>6. JobFits(job[t])'
  <2>1. \A q \in DOMAIN spans : q[2] # drawn + 1
    BY <1>1 DEF TracesInv
  <2>2. Attached(p, spans[p]) /\ p[2] \in 1..drawn /\ p = <<p[1], p[2]>>
    BY <1>1 DEF TracesInv
  <2>3. /\ spans[p].start \in Nat /\ p[1] \in DOMAIN traces
        /\ traces[p[1]].start \in Nat
    BY <1>1, <2>2 DEF TracesTypeOK, SpanRecord, Attached
  <2>4. traces[p[1]].start <= micros /\ spans[p].start <= micros
    BY <1>1, <2>2, <2>3 DEF Attached
  <2>5. /\ p[2] # 0 /\ <<p[1], p[2]>> \in DOMAIN spans
        /\ spans[<<p[1], p[2]>>].start <= micros
    BY <1>1, <2>2, <2>4
  <2>6. Attached(<<p[1], drawn + 1>>, Record(p[2], micros, 0))
    BY <1>1, <2>3, <2>4, <2>5 DEF Attached, Record
  <2>7. Attached(SpanOf(job[t]), job[t].data)'
    BY <1>0, <1>2, <1>3, <2>6 DEF Attached, SpanOf
  <2> QED BY <2>1, <2>7, <1>0, <1>1, <1>2, <1>3 DEF JobFits
<1>7. Unlike(t)
  BY <1>1, <1>2, <1>3 DEF Unlike, TracesInv, JobFits
<1>8. (\A u \in Tracers : JobFits(job[u])') /\ JobsApart'
  BY <1>0, <1>3, <1>4, <1>5, <1>6, <1>7, JobsKept
<1>9. \A q \in DOMAIN spans' : Attached(q, spans[q])' /\ q[2] \in 1..drawn'
  BY <1>0, <1>4, <1>5, SpansKept
<1> QED
  <2>1. \A x \in DOMAIN traces' : x <= drawn'
    BY <1>0, <1>1 DEF TracesInv, TracesTypeOK
  <2> QED BY <1>0, <1>1, <1>4, <1>8, <1>9, <2>1 DEF TracesInv

(* A trace is stored, and the call goes on or gives up. *)
LEMMA TracePutKeeps ==
    ASSUME TracesInv, NEW t \in Tracers, job[t].pc = "trace",
           traces' = WithTrace(job[t]),
           job' = [job EXCEPT ![t].pc = "span"] \/ EndJob(t),
           UNCHANGED <<spans, micros, drawn, given, returned, muddled>>
    PROVE  TracesInv'
<1> DEFINE j == job[t]  r == [root |-> j.span, start |-> j.data.start]
<1>1. /\ TracesTypeOK /\ drawn \in Nat /\ micros \in Nat /\ job \in [Tracers -> JobRecords]
      /\ j \in JobRecords /\ j.data \in SpanRecord /\ JobFits(j) /\ NoJob \in JobRecords
  BY JobTyped DEF TracesInv, TracesTypeOK, JobRecords
<1>2. /\ j.span \in 1..drawn /\ (\A p \in DOMAIN spans : p[2] # j.span)
      /\ j.trace \in 1..drawn /\ j.trace \notin DOMAIN traces
      /\ j.data.parent = 0 /\ j.data.end = 0 /\ j.data.start <= micros
      /\ j.data.start \in Nat
  BY <1>1 DEF JobFits, SpanRecord
<1>3. r \in [root : Nat, start : Nat] /\ r.root = j.span /\ r.start = j.data.start
  BY <1>1 DEF JobRecords, SpanRecord
<1>4. traces' = WithRecord(traces, j.trace, r)
  BY DEF WithTrace
<1>5. PICK k \in JobRecords :
        /\ job' = [job EXCEPT ![t] = k]
        /\ k.pc \in {"idle", "span"}
        /\ k.pc = "span" => k.trace = j.trace /\ k.span = j.span /\ k.data = j.data
  <2>1. CASE EndJob(t)
    BY <1>1, <2>1 DEF EndJob, NoJob, Job
  <2>2. CASE job' = [job EXCEPT ![t].pc = "span"]
    <3>1. /\ [j EXCEPT !.pc = "span"] \in JobRecords
          /\ job' = [job EXCEPT ![t] = [j EXCEPT !.pc = "span"]]
      BY <1>1, <2>2 DEF JobRecords
    <3> QED BY <1>1, <3>1 DEF JobRecords
  <2> QED BY <2>1, <2>2
<1> HIDE DEF j, r
<1>6. /\ DOMAIN traces' = DOMAIN traces \cup {j.trace}
      /\ traces'[j.trace] = r
      /\ \A x \in DOMAIN traces : x # j.trace => traces'[x] = traces[x]
  BY <1>4 DEF WithRecord
<1>7. job' \in [Tracers -> JobRecords] /\ job'[t] = k /\ \A u \in Tracers \ {t} : job'[u] = job[u]
  BY <1>1, <1>5
<1>8. /\ DOMAIN traces' \subseteq Nat
      /\ traces' \in [DOMAIN traces' -> [root : Nat, start : Nat]]
  <2>1. /\ DOMAIN traces \subseteq Nat /\ j.trace \in Nat
        /\ traces \in [DOMAIN traces -> [root : Nat, start : Nat]]
    BY <1>1, <1>2 DEF TracesTypeOK
  <2> QED BY <1>3, <1>4, <2>1 DEF WithRecord
<1>9. TracesTypeOK'
  BY <1>1, <1>7, <1>8 DEF TracesTypeOK, JobRecords
<1>10. Grows
  BY <1>1, <1>2, <1>6 DEF Grows
<1>11. JobFits(job[t])'
  <2>1. ASSUME k.pc = "span" PROVE Attached(SpanOf(job[t]), job[t].data)'
    BY <1>2, <1>3, <1>5, <1>6, <1>7, <2>1 DEF Attached, SpanOf
  <2> QED BY <1>2, <1>5, <1>7, <2>1 DEF JobFits
<1>12. Unlike(t)
  BY <1>5, <1>7 DEF Unlike, TracesInv, JobsApart, j
<1>13. \A x \in DOMAIN traces' \ DOMAIN traces : job[t].pc = "trace" /\ x = job[t].trace
  BY <1>6 DEF j
<1>14. (\A u \in Tracers : JobFits(job[u])') /\ JobsApart'
  BY <1>7, <1>9, <1>10, <1>11, <1>12, <1>13, JobsKept
<1>15. \A q \in DOMAIN spans' : Attached(q, spans[q])' /\ q[2] \in 1..drawn'
  BY <1>9, <1>10, SpansKept
<1> QED
  BY <1>1, <1>2, <1>6, <1>9, <1>14, <1>15 DEF TracesInv

(* A call ends and nothing stored changes. *)
LEMMA GiveUpKeeps ==
    ASSUME TracesInv, NEW t \in Tracers, EndJob(t), TracesTypeOK',
           UNCHANGED <<traces, spans, micros, drawn, given>>
    PROVE  TracesInv'
<1>1. TracesTypeOK /\ drawn \in Nat /\ micros \in Nat
  BY DEF TracesInv, TracesTypeOK
<1>2. job'[t].pc = "idle" /\ \A u \in Tracers \ {t} : job'[u] = job[u]
  BY <1>1 DEF EndJob, NoJob, Job, TracesTypeOK
<1>3. Grows
  BY <1>1 DEF Grows
<1>4. JobFits(job[t])' /\ Unlike(t)
  BY <1>2 DEF JobFits, Unlike
<1>5. (\A u \in Tracers : JobFits(job[u])') /\ JobsApart'
  BY <1>2, <1>3, <1>4, JobsKept
<1>6. \A q \in DOMAIN spans' : Attached(q, spans[q])' /\ q[2] \in 1..drawn'
  BY <1>3, SpansKept
<1> QED BY <1>5, <1>6 DEF TracesInv

(* A span is stored as the call has it in hand, and the call ends. *)
LEMMA SpanPutKeeps ==
    ASSUME TracesInv, NEW t \in Tracers, job[t].pc = "span", EndJob(t),
           spans' = WithSpan(job[t]),
           given' \in {given, given \cup {SpanOf(job[t])}},
           UNCHANGED <<traces, micros, drawn, returned, muddled>>
    PROVE  TracesInv'
<1>0. PICK p, r : p = SpanOf(job[t]) /\ r = job[t].data
  OBVIOUS
<1>1. /\ TracesTypeOK /\ drawn \in Nat /\ micros \in Nat
      /\ p \in Nat \X Nat /\ r \in SpanRecord /\ JobFits(job[t])
      /\ NoJob \in JobRecords /\ job \in [Tracers -> JobRecords]
  BY <1>0, JobTyped DEF TracesInv, TracesTypeOK, JobRecords
<1>2. /\ job[t].span \in 1..drawn /\ p[2] = job[t].span /\ Attached(p, r)
      /\ \A q \in DOMAIN spans : q[2] # p[2]
  BY <1>0, <1>1 DEF JobFits, SpanOf
<1>3. spans' = WithRecord(spans, p, r)
  BY <1>0 DEF WithSpan
<1>4. job'[t] = NoJob /\ job' \in [Tracers -> JobRecords] /\ \A u \in Tracers \ {t} : job'[u] = job[u]
  BY <1>1 DEF EndJob
<1>5. given' \in {given, given \cup {p}}
  BY <1>0
<1>6. \A q : q[2] = p[2] => q[2] = job[t].span
  BY <1>2
<1>7. /\ DOMAIN spans' = DOMAIN spans \cup {p}
      /\ spans'[p] = r
      /\ \A x \in DOMAIN spans : x # p => spans'[x] = spans[x]
  BY <1>3 DEF WithRecord
<1>8. p \notin DOMAIN spans
  BY <1>2
<1>9. /\ DOMAIN spans' \subseteq Nat \X Nat
      /\ spans' \in [DOMAIN spans' -> SpanRecord]
  <2>1. /\ DOMAIN spans \subseteq Nat \X Nat
        /\ spans \in [DOMAIN spans -> SpanRecord]
    BY <1>1 DEF TracesTypeOK
  <2> QED BY <1>1, <1>3, <2>1 DEF WithRecord
<1>10. given' \subseteq Nat \X Nat
  BY <1>1, <1>5 DEF TracesTypeOK
<1>11. TracesTypeOK'
  BY <1>1, <1>4, <1>9, <1>10 DEF TracesTypeOK, JobRecords
<1>12. Grows
  BY <1>1, <1>7, <1>8 DEF Grows
<1>13. JobFits(job[t])' /\ Unlike(t)
  BY <1>4 DEF JobFits, Unlike, NoJob, Job
<1>14. \A q \in DOMAIN spans' \ DOMAIN spans : job[t].pc = "span" /\ q[2] = job[t].span
  BY <1>6, <1>7
<1>15. (\A u \in Tracers : JobFits(job[u])') /\ JobsApart'
  BY <1>4, <1>11, <1>12, <1>13, <1>14, JobsKept
<1>16. Attached(p, spans[p])'
  <2>1. /\ p[1] \in DOMAIN traces'
        /\ IF r.parent = 0 THEN traces'[p[1]].root = p[2]
           ELSE /\ <<p[1], r.parent>> \in DOMAIN spans'
                /\ spans'[<<p[1], r.parent>>].start <= r.start
        /\ traces'[p[1]].start <= r.start /\ r.start <= micros'
        /\ r.end # 0 => r.start <= r.end
    BY <1>1, <1>2, <1>11, <1>12, AttachedStays
  <2>2. spans'[p] = r
    BY <1>7
  <2>3. /\ spans'[p].parent = r.parent /\ spans'[p].start = r.start
        /\ spans'[p].end = r.end
    BY <2>2
  <2> QED BY <2>1, <2>3 DEF Attached
<1>17. \A q \in DOMAIN spans : Attached(q, spans[q])' /\ q[2] \in 1..drawn'
  <2> TAKE q \in DOMAIN spans
  <2>1. spans'[q].end = spans[q].end
    BY <1>7, <1>8
  <2> QED BY <1>11, <1>12, <2>1, SpansKept
<1>18. \A q \in DOMAIN spans' : Attached(q, spans[q])' /\ q[2] \in 1..drawn'
  <2>1. p[2] \in 1..drawn'
    BY <1>1, <1>2
  <2>2. Attached(p, spans[p])' /\ p[2] \in 1..drawn'
    BY <1>16, <2>1
  <2>3. ASSUME NEW q \in DOMAIN spans' PROVE Attached(q, spans[q])' /\ q[2] \in 1..drawn'
    <3>1. CASE q = p
      BY <2>2, <3>1
    <3>2. CASE q \in DOMAIN spans
      BY <1>17, <3>2
    <3> QED BY <1>7, <3>1, <3>2
  <2> QED BY <2>3
<1>19. given' \subseteq DOMAIN spans'
  BY <1>5, <1>7 DEF TracesInv
<1> QED
  BY <1>1, <1>11, <1>15, <1>18, <1>19 DEF TracesInv

LEMMA EndSpanKeeps ==
    ASSUME TracesInv, NEW t \in Tracers, NEW p, EndSpan(t, p)
    PROVE  TracesInv'
<1> DEFINE j == Job("end", p[1], p[2], [spans[p] EXCEPT !.end = micros])
<1>0. /\ p \in DOMAIN spans /\ job' = [job EXCEPT ![t] = j]
      /\ muddled' \in {muddled, muddled \cup {p}}
      /\ UNCHANGED <<traces, spans, micros, drawn, given, returned>>
  BY DEF EndSpan, BeginJob
<1>1. /\ TracesTypeOK /\ drawn \in Nat /\ micros \in Nat \ {0}
      /\ job \in [Tracers -> JobRecords]
      /\ p \in Nat \X Nat /\ spans[p] \in SpanRecord /\ Attached(p, spans[p])
      /\ muddled \subseteq Nat \X Nat
  BY <1>0 DEF TracesInv, TracesTypeOK, JobRecords
<1>2. /\ j \in JobRecords /\ j.pc = "end" /\ SpanOf(j) = p
      /\ j.data.parent = spans[p].parent /\ j.data.start = spans[p].start
      /\ j.data.end = micros
  <2>1. /\ [spans[p] EXCEPT !.end = micros] \in SpanRecord
        /\ [spans[p] EXCEPT !.end = micros].end = micros
        /\ [spans[p] EXCEPT !.end = micros].start = spans[p].start
        /\ [spans[p] EXCEPT !.end = micros].parent = spans[p].parent
    BY <1>1 DEF SpanRecord
  <2>2. /\ j.pc = "end" /\ j.trace = p[1] /\ j.span = p[2]
        /\ j.data = [spans[p] EXCEPT !.end = micros]
    BY DEF Job
  <2>3. p[1] \in Nat /\ p[2] \in Nat /\ p = <<p[1], p[2]>>
    BY <1>1
  <2>4. j \in JobRecords
    BY <2>1, <2>3 DEF Job, JobRecords
  <2> HIDE DEF j
  <2> QED BY <2>1, <2>2, <2>3, <2>4 DEF SpanOf
<1> HIDE DEF j
<1>3. job' \in [Tracers -> JobRecords] /\ job'[t] = j /\ \A u \in Tracers \ {t} : job'[u] = job[u]
  BY <1>0, <1>1, <1>2
<1>4. muddled' \subseteq Nat \X Nat
  BY <1>0, <1>1
<1>5. TracesTypeOK'
  BY <1>0, <1>1, <1>3, <1>4 DEF TracesTypeOK, JobRecords
<1>6. Grows
  BY <1>0, <1>1 DEF Grows
<1>7. JobFits(job[t])'
  <2>1. spans[p].start <= micros
    BY <1>1 DEF Attached
  <2>2. SpanOf(job[t])' = p
    BY <1>2, <1>3 DEF SpanOf
  <2> QED BY <1>0, <1>1, <1>2, <1>3, <2>1, <2>2 DEF JobFits
<1>8. Unlike(t)
  BY <1>2, <1>3 DEF Unlike
<1>9. (\A u \in Tracers : JobFits(job[u])') /\ JobsApart'
  BY <1>0, <1>3, <1>5, <1>6, <1>7, <1>8, JobsKept
<1>10. \A q \in DOMAIN spans' : Attached(q, spans[q])' /\ q[2] \in 1..drawn'
  BY <1>0, <1>5, <1>6, SpansKept
<1> QED
  BY <1>0, <1>1, <1>5, <1>9, <1>10 DEF TracesInv

(* A span is stored again, ended now, and the call ends. *)
LEMMA EndPutKeeps ==
    ASSUME TracesInv, NEW t \in Tracers, job[t].pc = "end", EndJob(t),
           NEW now \in EndTimes(job[t]), spans' = WithEnd(job[t], now),
           returned' \in {returned, WithRecord(returned, SpanOf(job[t]), now)},
           muddled' \in {muddled, muddled \cup {SpanOf(job[t])}},
           UNCHANGED <<traces, micros, drawn, given>>
    PROVE  TracesInv'
<1> DEFINE p == SpanOf(job[t])  d == job[t].data  r == [d EXCEPT !.end = now]
<1>1. /\ TracesTypeOK /\ drawn \in Nat /\ micros \in Nat
      /\ p \in Nat \X Nat /\ d \in SpanRecord /\ JobFits(job[t])
      /\ NoJob \in JobRecords /\ job \in [Tracers -> JobRecords]
  BY JobTyped DEF TracesInv, TracesTypeOK, JobRecords
<1>2. /\ p \in DOMAIN spans
      /\ spans[p].parent = d.parent /\ spans[p].start = d.start
      /\ d.start <= d.end /\ d.end \in 1..micros
  BY <1>1 DEF JobFits
<1>3. /\ spans' = WithRecord(spans, p, r)
      /\ returned' \in {returned, WithRecord(returned, p, now)}
      /\ muddled' \in {muddled, muddled \cup {p}}
      /\ now \in d.end..micros
  BY DEF WithEnd, EndTimes
<1>4. now \in Nat /\ r \in SpanRecord
      /\ r.parent = d.parent /\ r.start = d.start /\ r.end = now
  BY <1>1, <1>2, <1>3 DEF SpanRecord
<1>5. d.start <= now
  BY <1>1, <1>2, <1>3 DEF SpanRecord
<1>6. job'[t] = NoJob /\ job' \in [Tracers -> JobRecords] /\ \A u \in Tracers \ {t} : job'[u] = job[u]
  BY <1>1 DEF EndJob
<1> HIDE DEF p, r, d
<1>7. /\ DOMAIN spans' = DOMAIN spans
      /\ spans'[p] = r
      /\ \A x \in DOMAIN spans : x # p => spans'[x] = spans[x]
  <2>1. DOMAIN spans \cup {p} = DOMAIN spans
    BY <1>2
  <2> QED BY <1>3, <2>1 DEF WithRecord
<1>8. /\ DOMAIN spans' \subseteq Nat \X Nat
      /\ spans' \in [DOMAIN spans' -> SpanRecord]
  <2>1. /\ DOMAIN spans \subseteq Nat \X Nat
        /\ spans \in [DOMAIN spans -> SpanRecord]
    BY <1>1 DEF TracesTypeOK
  <2> QED BY <1>1, <1>3, <1>4, <2>1 DEF WithRecord
<1>9. /\ DOMAIN returned' \subseteq Nat \X Nat
      /\ returned' \in [DOMAIN returned' -> Nat]
  <2>1. /\ DOMAIN returned \subseteq Nat \X Nat
        /\ returned \in [DOMAIN returned -> Nat]
    BY <1>1 DEF TracesTypeOK
  <2>2. CASE returned' = returned
    BY <2>1, <2>2
  <2>3. CASE returned' = WithRecord(returned, p, now)
    BY <1>1, <1>4, <2>1, <2>3 DEF WithRecord
  <2> QED BY <1>3, <2>2, <2>3
<1>10. muddled' \subseteq Nat \X Nat
  BY <1>1, <1>3 DEF TracesTypeOK
<1>11. TracesTypeOK'
  BY <1>1, <1>6, <1>8, <1>9, <1>10 DEF TracesTypeOK, JobRecords
<1>12. Grows
  BY <1>1, <1>2, <1>4, <1>7 DEF Grows
<1>13. JobFits(job[t])' /\ Unlike(t)
  BY <1>6 DEF JobFits, Unlike, NoJob, Job
<1>14. (\A u \in Tracers : JobFits(job[u])') /\ JobsApart'
  BY <1>6, <1>7, <1>11, <1>12, <1>13, JobsKept
<1>15. \A q \in DOMAIN spans' : Attached(q, spans[q])' /\ q[2] \in 1..drawn'
  <2> SUFFICES ASSUME NEW q \in DOMAIN spans
               PROVE  Attached(q, spans[q])' /\ q[2] \in 1..drawn'
    BY <1>7
  <2>1. spans'[q].end = spans[q].end \/ spans'[q].start <= spans'[q].end
    BY <1>4, <1>5, <1>7
  <2> QED BY <1>11, <1>12, <2>1, SpansKept
<1> QED
  BY <1>1, <1>7, <1>11, <1>14, <1>15 DEF TracesInv

LEMMA TimePassesKeeps ==
    ASSUME TracesInv, TimePasses
    PROVE  TracesInv'
<1>1. /\ TracesTypeOK /\ micros' = micros + 1 /\ micros \in Nat /\ drawn \in Nat
      /\ UNCHANGED <<traces, spans, drawn, job, given, returned, muddled>>
  BY DEF TimePasses, TracesInv, TracesTypeOK
<1>2. TracesTypeOK' /\ Grows
  BY <1>1 DEF TracesTypeOK, Grows
<1>3. \A q \in DOMAIN spans' : Attached(q, spans[q])' /\ q[2] \in 1..drawn'
  BY <1>1, <1>2, SpansKept
<1>4. ASSUME NEW t \in Tracers PROVE JobFits(job[t])'
  <2>1. /\ job[t].data \in SpanRecord /\ SpanOf(job[t]) \in Nat \X Nat
        /\ JobFits(job[t]) /\ job' = job
    BY <1>1, JobTyped DEF TracesInv
  <2>2. ASSUME job[t].pc = "span" PROVE Attached(SpanOf(job[t]), job[t].data)'
    <3>1. Attached(SpanOf(job[t]), job[t].data) /\ SpanOf(job[t])' = SpanOf(job[t])
      BY <2>1, <2>2 DEF JobFits, SpanOf
    <3> QED BY <1>1, <1>2, <2>1, <3>1, AttachedStays DEF Attached
  <2>3. SpanOf(job[t])' = SpanOf(job[t])
    BY <2>1 DEF SpanOf
  <2> QED BY <1>1, <2>1, <2>2, <2>3 DEF JobFits, SpanRecord
<1> QED
  BY <1>1, <1>2, <1>3, <1>4 DEF TracesInv, JobsApart

LEMMA TracesInit_TracesInv == TracesInit => TracesInv
<1> SUFFICES ASSUME TracesInit PROVE TracesInv
  OBVIOUS
<1>1. /\ DOMAIN traces = {} /\ spans = traces /\ returned = traces
      /\ traces \in [DOMAIN traces -> [root : Nat, start : Nat]]
      /\ traces \in [DOMAIN traces -> SpanRecord]
      /\ traces \in [DOMAIN traces -> Nat]
  BY DEF TracesInit
<1>2. NoJob \in JobRecords /\ NoJob.pc = "idle"
  BY DEF NoJob, Job, JobRecords, Record, SpanRecord
<1>3. job \in [Tracers -> JobRecords] /\ \A t \in Tracers : job[t].pc = "idle"
  BY <1>2 DEF TracesInit
<1>4. TracesTypeOK
  BY <1>1, <1>3 DEF TracesInit, TracesTypeOK, JobRecords
<1> QED
  BY <1>1, <1>3, <1>4 DEF TracesInit, TracesInv, JobFits, JobsApart

LEMMA TracesNext_TracesInv == TracesInv /\ [TracesNext]_tracesVars => TracesInv'
<1> SUFFICES ASSUME TracesInv, [TracesNext]_tracesVars PROVE TracesInv'
  OBVIOUS
<1>1. CASE UNCHANGED tracesVars
  BY <1>1 DEF tracesVars, TracesInv, TracesTypeOK, JobFits, JobsApart, Attached, SpanOf
<1>2. CASE TimePasses
  BY <1>2, TimePassesKeeps
<1>3. ASSUME NEW t \in Tracers, PutTraceFails(t) PROVE TracesInv'
  <2>1. CASE traces' = WithTrace(job[t])
    BY <1>3, <2>1, TracePutKeeps DEF PutTraceFails
  <2>2. CASE traces' = traces
    <3>1. TracesTypeOK'
      BY <1>3, <2>2, JobTyped
      DEF PutTraceFails, EndJob, TracesInv, TracesTypeOK, JobRecords
    <3> QED BY <1>3, <2>2, <3>1, GiveUpKeeps DEF PutTraceFails
  <2> QED BY <1>3, <2>1, <2>2 DEF PutTraceFails
<1>4. ASSUME NEW t \in Tracers, PutSpanFails(t) PROVE TracesInv'
  <2>1. CASE spans' = WithSpan(job[t])
    BY <1>4, <2>1, SpanPutKeeps DEF PutSpanFails, GivenOnError
  <2>2. CASE spans' = spans
    <3>1. TracesTypeOK'
      BY <1>4, <2>2, JobTyped
      DEF PutSpanFails, GivenOnError, EndJob, TracesInv, TracesTypeOK, JobRecords
    <3> QED BY <1>4, <2>2, <3>1, GiveUpKeeps DEF PutSpanFails, GivenOnError
  <2> QED BY <1>4, <2>1, <2>2 DEF PutSpanFails
<1>5. ASSUME NEW t \in Tracers, PutEndFails(t) PROVE TracesInv'
  <2>1. PICK now \in EndTimes(job[t]) :
          spans' \in {spans, WithEnd(job[t], now)} /\ returned' = returned
    BY <1>5 DEF PutEndFails, ReturnedOnError
  <2>2. CASE spans' = WithEnd(job[t], now)
    BY <1>5, <2>1, <2>2, EndPutKeeps DEF PutEndFails
  <2>3. CASE spans' = spans
    <3>1. TracesTypeOK'
      BY <1>5, <2>1, <2>3, JobTyped
      DEF PutEndFails, EndJob, TracesInv, TracesTypeOK, JobRecords
    <3> QED BY <1>5, <2>3, <3>1, GiveUpKeeps DEF PutEndFails
  <2> QED BY <2>1, <2>2, <2>3
<1>6. ASSUME NEW t \in Tracers, StartTrace(t) \/ PutTrace(t) PROVE TracesInv'
  BY <1>6, StartTraceKeeps, TracePutKeeps DEF PutTrace
<1>7. ASSUME NEW t \in Tracers, PutSpan(t) PROVE TracesInv'
  BY <1>7, SpanPutKeeps DEF PutSpan
<1>8. ASSUME NEW t \in Tracers, PutEnd(t) PROVE TracesInv'
  BY <1>8, EndPutKeeps DEF PutEnd
<1>9. ASSUME NEW t \in Tracers, NEW p \in given, StartSpan(t, p) \/ EndSpan(t, p)
      PROVE TracesInv'
  BY <1>9, StartSpanKeeps, EndSpanKeeps
<1> QED
  BY <1>1, <1>2, <1>3, <1>4, <1>5, <1>6, <1>7, <1>8, <1>9 DEF TracesNext

(* For any goroutines and bounds, and whichever Puts fail, TracesInv.      *)
THEOREM TracesInvariant == TracesSpec => []TracesInv
BY TracesInit_TracesInv, TracesNext_TracesInv, PTL DEF TracesSpec

(* The calls of StartTrace, StartSpan and EndSpan (client.go) leave every  *)
(* stored span attached to its trace, for any number of goroutines.        *)
THEOREM SpansAlwaysAttached == TracesSpec => []SpansAttached
<1>1. TracesInv => SpansAttached
  BY DEF TracesInv, SpansAttached, Attached
<1> QED BY <1>1, TracesInvariant, PTL

(* Nothing but an EndSpan writes to a span that is stored, and one that    *)
(* returns no duration leaves the span muddled.                            *)
LEMMA EndsStep ==
    ASSUME TracesInv, EndsAreKept, [TracesNext]_tracesVars
    PROVE  EndsAreKept'
<1>1. ASSUME UNCHANGED <<spans, returned>>, muddled \subseteq muddled'
      PROVE  EndsAreKept'
  BY <1>1 DEF EndsAreKept
<1>2. ASSUME NEW t \in Tracers, PutSpan(t) \/ PutSpanFails(t)
      PROVE  EndsAreKept'
  <2> DEFINE p == SpanOf(job[t])
  <2>1. p \notin DOMAIN spans /\ UNCHANGED <<returned, muddled>>
    BY <1>2 DEF TracesInv, JobFits, SpanOf, PutSpan, PutSpanFails
  <2>2. CASE spans' = spans
    BY <1>1, <2>1, <2>2
  <2>3. CASE spans' = WithSpan(job[t])
    <3>1. spans' = WithRecord(spans, p, job[t].data)
      BY <2>3 DEF WithSpan
    <3> HIDE DEF p
    <3>2. \A q \in DOMAIN spans : q \in DOMAIN spans' /\ spans'[q] = spans[q]
      BY <2>1, <3>1 DEF WithRecord
    <3> QED BY <2>1, <3>2 DEF EndsAreKept
  <2> QED BY <1>2, <2>2, <2>3 DEF PutSpan, PutSpanFails
<1>3. ASSUME NEW t \in Tracers, PutEnd(t) \/ PutEndFails(t)
      PROVE  EndsAreKept'
  <2>1. PICK p, now :
          /\ p = SpanOf(job[t]) /\ now \in EndTimes(job[t])
          /\ spans' \in {spans, WithEnd(job[t], now)}
          /\ \/ /\ spans' = WithEnd(job[t], now)
                /\ returned' = WithRecord(returned, p, now)
                /\ muddled' = muddled
             \/ returned' = returned /\ muddled' = muddled \cup {p}
    BY <1>3 DEF PutEnd, PutEndFails, ReturnedOnError
  <2>2. /\ p \in DOMAIN spans /\ now # 0
        /\ [job[t].data EXCEPT !.end = now].end = now
    <3>1. job[t].data \in SpanRecord /\ JobFits(job[t]) /\ micros \in Nat
      BY JobTyped DEF TracesInv, TracesTypeOK
    <3>2. job[t].pc = "end"
      BY <1>3 DEF PutEnd, PutEndFails
    <3> QED BY <2>1, <3>1, <3>2 DEF JobFits, EndTimes, SpanRecord
  <2>3. PICK r : r.end = now /\ r = [job[t].data EXCEPT !.end = now]
    BY <2>2
  <2>4. spans' \in {spans, WithRecord(spans, p, r)}
    BY <2>1, <2>3 DEF WithEnd
  <2>5. spans' = WithEnd(job[t], now) => spans' = WithRecord(spans, p, r)
    BY <2>1, <2>3 DEF WithEnd
  <2>6. /\ DOMAIN spans' = DOMAIN spans
        /\ \A q \in DOMAIN spans : q # p => spans'[q] = spans[q]
        /\ spans'[p] \in {spans[p], r}
    BY <2>2, <2>4 DEF WithRecord
  <2>7. CASE spans' = WithEnd(job[t], now) /\ returned' = WithRecord(returned, p, now)
             /\ muddled' = muddled
    <3>1. spans'[p].end = now /\ returned'[p] = now
      BY <2>2, <2>3, <2>5, <2>7 DEF WithRecord
    <3>2. /\ DOMAIN returned' = DOMAIN returned \cup {p}
          /\ \A q \in DOMAIN returned : q # p => returned'[q] = returned[q]
      BY <2>7 DEF WithRecord
    <3> QED BY <2>2, <2>6, <2>7, <3>1, <3>2 DEF EndsAreKept
  <2>8. CASE returned' = returned /\ muddled' = muddled \cup {p}
    BY <2>2, <2>3, <2>6, <2>8 DEF EndsAreKept
  <2> QED BY <2>1, <2>7, <2>8
<1>4. ASSUME NEW t \in Tracers, NEW p, EndSpan(t, p) PROVE EndsAreKept'
  BY <1>1, <1>4 DEF EndSpan
<1>5. ASSUME NEW t \in Tracers, NEW p,
             \/ StartTrace(t) \/ PutTrace(t) \/ PutTraceFails(t) \/ StartSpan(t, p)
      PROVE  EndsAreKept'
  BY <1>1, <1>5 DEF StartTrace, PutTrace, PutTraceFails, StartSpan
<1>6. CASE TimePasses
  BY <1>1, <1>6 DEF TimePasses
<1>7. CASE UNCHANGED tracesVars
  BY <1>1, <1>7 DEF tracesVars
<1> QED
  BY <1>2, <1>3, <1>4, <1>5, <1>6, <1>7 DEF TracesNext

(* A duration that EndSpan (client.go) returned is what the span has until *)
(* another EndSpan returns, for any number of goroutines, unless two of    *)
(* them met or one failed.                                                 *)
THEOREM EndsAlwaysKept == TracesSpec => []EndsAreKept
<1>1. TracesInit => EndsAreKept
  BY DEF TracesInit, EndsAreKept
<1>2. TracesInv /\ EndsAreKept /\ [TracesNext]_tracesVars => EndsAreKept'
  BY EndsStep
<1> QED BY <1>1, <1>2, TracesInvariant, PTL DEF TracesSpec

-----------------------------------------------------------------------------
(* GrpcClient *)

LEMMA FailedCallTyped ==
    Failed \in [ok : BOOLEAN, value : RemoteValues \cup {Absent}]
BY DEF Failed, Outcome

(* What a goroutine makes of an answer is an outcome of its call.          *)
LEMMA OutcomeTyped ==
    ASSUME NEW r \in RemoteCalls, NEW v \in RemoteValues \cup {Absent}
    PROVE  Answered(r, v) \in [ok : BOOLEAN, value : RemoteValues \cup {Absent}]
BY DEF Answered, Outcome, Failed

LEMMA EffectTyped ==
    ASSUME NEW r \in RemoteCalls, NEW v \in RemoteValues \cup {Absent}
    PROVE  RemoteEffect(r, v) \in RemoteValues \cup {Absent}
BY DEF RemoteEffect, RemoteCalls, Writes, Reads, StoringOps

(* A call moves to a record of the right type. *)
LEMMA MovedTyped ==
    ASSUME rpc \in [Callers -> RpcRecord], NEW t \in Callers, NEW c \in RpcRecord,
           rpc' = [rpc EXCEPT ![t] = c]
    PROVE  rpc' \in [Callers -> RpcRecord]
OBVIOUS

LEMMA RestingTyped == Resting \in RpcRecord
BY FailedCallTyped DEF Resting, RpcRecord, RpcPCs, NoReply, RpcReply, ReplyKinds

(* The end of a call (grpc_client.go:558-573). *)
LEMMA EndsTyped ==
    ASSUME rpc \in [Callers -> RpcRecord], NEW t \in Callers,
           NEW out \in [ok : BOOLEAN, value : RemoteValues \cup {Absent}],
           Ends(t, out)
    PROVE  rpc' \in [Callers -> RpcRecord]
BY DEF Ends, RpcRecord, RpcPCs, NoReply, RpcReply, ReplyKinds

-----------------------------------------------------------------------------
LEMMA ServesTyped ==
    ASSUME GrpcTypeOK, NEW t \in Callers, Serves(t)
    PROVE  GrpcTypeOK'
<1> DEFINE r == rpc[t].req
<1>1. PICK kind \in ReplyKinds, v \in {remote, Absent} :
         rpc' = [rpc EXCEPT ![t].pc = "answered", ![t].reply = RpcReply(kind, v)]
  BY DEF Serves, ReplyKinds
<1>2. rpc' \in [Callers -> RpcRecord]
  <2>1. v \in RemoteValues \cup {Absent}
    BY <1>1 DEF GrpcTypeOK
  <2> DEFINE c == [rpc[t] EXCEPT !.pc = "answered", !.reply = RpcReply(kind, v)]
  <2>2. c \in RpcRecord
    BY <2>1 DEF GrpcTypeOK, RpcRecord, RpcPCs, RpcReply
  <2>3. rpc' = [rpc EXCEPT ![t] = c]
    BY <1>1 DEF GrpcTypeOK
  <2> HIDE DEF c
  <2> QED BY <2>2, <2>3, MovedTyped DEF GrpcTypeOK
<1>3. remote' \in {remote, RemoteEffect(r, remote)}
  BY DEF Serves
<1>4. r \in RemoteCalls \/ r = NoRequest
  BY DEF GrpcTypeOK, RpcRecord
<1>5. RemoteEffect(NoRequest, remote) = remote
  BY DEF RemoteEffect, NoRequest, StoringOps
<1>6. remote' \in RemoteValues \cup {Absent}
  BY <1>3, <1>4, <1>5, EffectTyped DEF GrpcTypeOK
<1> QED
  BY <1>2, <1>6 DEF Serves, GrpcTypeOK

LEMMA GivesUpTyped ==
    ASSUME GrpcTypeOK, NEW t \in Callers, GivesUp(t)
    PROVE  GrpcTypeOK'
<1>1. rpc' \in [Callers -> RpcRecord]
  BY FailedCallTyped, EndsTyped DEF GivesUp, GrpcTypeOK
<1>2. abandoned' \in [Writes -> Nat]
  BY DEF GivesUp, GrpcTypeOK
<1> QED
  BY <1>1, <1>2 DEF GivesUp, GrpcTypeOK

(* Every variable keeps its type. *)
LEMMA StepTyped == GrpcTypeOK /\ [GrpcNext]_grpcVars => GrpcTypeOK'
<1> SUFFICES ASSUME GrpcTypeOK, [GrpcNext]_grpcVars PROVE GrpcTypeOK'
  OBVIOUS
<1>1. ASSUME NEW t \in Callers, NEW r \in RemoteCalls, Invoke(t, r)
      PROVE  GrpcTypeOK'
  <2>1. [Resting EXCEPT !.pc = "waiting", !.req = r] \in RpcRecord
    BY RestingTyped DEF RpcRecord, RpcPCs
  <2> QED
    BY <1>1, <2>1, MovedTyped DEF Invoke, GrpcTypeOK
<1>2. ASSUME NEW t \in Callers, Rejects(t) PROVE GrpcTypeOK'
  BY <1>2, FailedCallTyped, EndsTyped DEF Rejects, GrpcTypeOK
<1>3. ASSUME NEW t \in Callers, Sends(t) PROVE GrpcTypeOK'
  BY <1>3 DEF Sends, GrpcTypeOK, RpcRecord, RpcPCs
<1>4. ASSUME NEW t \in Callers, Receives(t) PROVE GrpcTypeOK'
  <2> DEFINE out == ReadsAnswer(rpc[t].req, rpc[t].reply)
  <2>1. out \in [ok : BOOLEAN, value : RemoteValues \cup {Absent}]
    <3>1. rpc[t].reply.value \in RemoteValues \cup {Absent}
      BY DEF GrpcTypeOK, RpcRecord
    <3>2. CASE rpc[t].req \in RemoteCalls
      BY <3>1, <3>2, FailedCallTyped, OutcomeTyped DEF ReadsAnswer
    <3>3. CASE rpc[t].req = NoRequest
      BY <3>1, <3>3, FailedCallTyped DEF ReadsAnswer, Answered, Outcome, Failed
    <3> QED BY <3>2, <3>3 DEF GrpcTypeOK, RpcRecord
  <2> HIDE DEF out
  <2>2. rpc' \in [Callers -> RpcRecord]
    BY <1>4, <2>1, EndsTyped DEF Receives, GrpcTypeOK, out
  <2> QED BY <1>4, <2>2 DEF Receives, GrpcTypeOK
<1>5. ASSUME NEW t \in Callers, Returns(t) PROVE GrpcTypeOK'
  BY <1>5, RestingTyped, MovedTyped DEF Returns, GrpcTypeOK
<1>6. CASE CloseClient
  BY <1>6 DEF CloseClient, GrpcTypeOK
<1>7. ASSUME NEW w \in Writes, ServesLate(w) PROVE GrpcTypeOK'
  <2>1. remote' \in RemoteValues \cup {Absent}
    BY <1>7, EffectTyped DEF ServesLate, GrpcTypeOK, RemoteCalls
  <2>2. abandoned' \in [Writes -> Nat]
    BY <1>7 DEF ServesLate, GrpcTypeOK
  <2> QED BY <1>7, <2>1, <2>2 DEF ServesLate, GrpcTypeOK
<1>8. CASE UNCHANGED grpcVars
  BY <1>8 DEF grpcVars, GrpcTypeOK
<1> QED
  BY <1>1, <1>2, <1>3, <1>4, <1>5, <1>6, <1>7, <1>8, ServesTyped, GivesUpTyped
     DEF GrpcNext, ClientStep, Expires, Disconnects, Cancels

-----------------------------------------------------------------------------
(* The client as the service sees it *)

LEMMA RemotePendingIs ==
    ASSUME NEW t
    PROVE  /\ RpcAt(t, "idle") => RpcPending(t) = NoCall
           /\ rpc[t].pc \in {"waiting", "sent"} => RpcPending(t) = Called(rpc[t].req)
           /\ RpcAt(t, "answered") =>
                RpcPending(t) = Done(rpc[t].req, ReadsAnswer(rpc[t].req, rpc[t].reply))
           /\ RpcAt(t, "done") => RpcPending(t) = Done(rpc[t].req, rpc[t].out)
BY DEF RpcPending, RpcAt

LEMMA RemotePendingWillBe ==
    ASSUME NEW t, NEW c, rpc'[t] = c
    PROVE  /\ c.pc = "idle" => RpcPending(t)' = NoCall
           /\ c.pc \in {"waiting", "sent"} => RpcPending(t)' = Called(c.req)
           /\ c.pc = "answered" =>
                RpcPending(t)' = Done(c.req, ReadsAnswer(c.req, c.reply))
           /\ c.pc = "done" => RpcPending(t)' = Done(c.req, c.out)
BY DEF RpcPending, RpcAt

(* A call of one goroutine moves, and those of the others stay. *)
LEMMA RemoteStep ==
    ASSUME GrpcTypeOK, NEW t \in Callers, NEW c, rpc' = [rpc EXCEPT ![t] = c]
    PROVE  /\ rpc'[t] = c
           /\ RpcService' = [RpcService EXCEPT ![t] = RpcPending(t)']
<1>1. rpc'[t] = c /\ \A u \in Callers \ {t} : rpc'[u] = rpc[u]
  BY DEF GrpcTypeOK
<1>2. \A u \in Callers \ {t} : RpcPending(u)' = RpcPending(u)
  BY <1>1 DEF RpcPending, RpcAt
<1> QED
  BY <1>1, <1>2 DEF RpcService

SeenVars == <<remote, ~shut, RpcService, abandoned>>

LEMMA SameWords ==
    /\ Remote!NoCall = NoCall /\ Remote!Failed = Failed
    /\ Remote!Writes = Writes /\ Remote!RemoteCalls = RemoteCalls
    /\ \A r : Remote!Called(r) = Called(r)
    /\ \A r, o : Remote!Done(r, o) = Done(r, o)
    /\ \A r, v : Remote!RemoteEffect(r, v) = RemoteEffect(r, v)
    /\ \A r, v : Remote!Answered(r, v) = Answered(r, v)
BY DEF Remote!NoCall, NoCall, Remote!NoRequest, NoRequest, Remote!Failed, Failed,
       Remote!Outcome, Outcome, Remote!Called, Called, Remote!Done, Done,
       Remote!Writes, Writes, Remote!Reads, Reads, Remote!StoringOps, StoringOps,
       Remote!RemoteCalls, RemoteCalls, Remote!RemoteEffect, RemoteEffect,
       Remote!Answered, Answered

(* How the steps of the service read on RpcService. *)
LEMMA AsRemote ==
    ASSUME NEW t \in Callers, NEW r, NEW o,
           RpcService' = [RpcService EXCEPT ![t] = RpcPending(t)'],
           shut' = shut
    PROVE  /\ /\ RpcPending(t)' = RpcPending(t) /\ UNCHANGED <<remote, abandoned>>
              => UNCHANGED SeenVars
           /\ /\ RpcPending(t) \in {Called(r), Done(r, o)}
              /\ RpcPending(t)' = Done(r, Failed) /\ UNCHANGED <<remote, abandoned>>
              => Remote!Fail(t)
           /\ /\ RpcPending(t) = Called(r) /\ ~shut /\ UNCHANGED abandoned
              /\ remote' = RemoteEffect(r, remote)
              /\ \/ RpcPending(t)' = Done(r, Answered(r, remote))
                 \/ r.op = "insert" /\ RpcPending(t)' = Done(r, Failed)
              => Remote!Take(t)
<1>1. RpcService[t] = RpcPending(t)
  BY DEF RpcService
<1>2. UNCHANGED <<remote, abandoned>> /\ RpcPending(t)' = RpcPending(t)
        => UNCHANGED SeenVars
  BY <1>1 DEF SeenVars, RpcService
<1>3. ASSUME RpcPending(t) \in {Called(r), Done(r, o)},
             RpcPending(t)' = Done(r, Failed), UNCHANGED <<remote, abandoned>>
      PROVE  Remote!Fail(t)
  <2>1. RpcPending(t).step # "idle" /\ RpcPending(t).req = r
    BY <1>3 DEF Called, Done
  <2> QED
    BY <1>1, <1>3, <2>1, SameWords DEF Remote!Fail, Remote!Becomes
<1>4. ASSUME RpcPending(t) = Called(r), ~shut, UNCHANGED abandoned,
             remote' = RemoteEffect(r, remote),
             \/ RpcPending(t)' = Done(r, Answered(r, remote))
             \/ r.op = "insert" /\ RpcPending(t)' = Done(r, Failed)
      PROVE  Remote!Take(t)
  <2>1. RpcPending(t).step = "called" /\ RpcPending(t).req = r
    BY <1>4 DEF Called
  <2> QED
    BY <1>1, <1>4, <2>1, SameWords DEF Remote!Take, Remote!Becomes
<1> QED BY <1>2, <1>3, <1>4

(* Whoever is in a call knows what he asked for. *)
CallsKnown == \A t \in Callers : ~RpcAt(t, "idle") => rpc[t].req \in RemoteCalls

GrpcInv == GrpcTypeOK /\ CallsKnown

LEMMA KnownStep == GrpcInv /\ [GrpcNext]_grpcVars => CallsKnown'
<1> SUFFICES ASSUME GrpcInv, [GrpcNext]_grpcVars PROVE CallsKnown'
  OBVIOUS
<1> USE DEF GrpcInv
<1>1. ASSUME NEW t \in Callers, NEW c, rpc' = [rpc EXCEPT ![t] = c],
             c.pc = "idle" \/ c.req \in RemoteCalls
      PROVE  CallsKnown'
  BY <1>1 DEF GrpcTypeOK, CallsKnown, RpcAt
<1>2. ASSUME NEW t \in Callers, NEW r \in RemoteCalls, Invoke(t, r)
      PROVE  CallsKnown'
  <2>1. [Resting EXCEPT !.pc = "waiting", !.req = r].req = r
    BY DEF Resting
  <2> QED BY <1>1, <1>2, <2>1 DEF Invoke
<1>3. ASSUME NEW t \in Callers, NEW out, ~RpcAt(t, "idle"), Ends(t, out)
      PROVE  CallsKnown'
  <2>1. rpc[t].req \in RemoteCalls
    BY <1>3 DEF CallsKnown
  <2> QED BY <1>1, <1>3, <2>1 DEF Ends
<1>4. ASSUME NEW t \in Callers,
             Rejects(t) \/ Receives(t) \/ GivesUp(t)
      PROVE  CallsKnown'
  BY <1>3, <1>4 DEF Rejects, Receives, GivesUp, RpcAt, Waits
<1>5. ASSUME NEW t \in Callers, Sends(t) PROVE CallsKnown'
  BY <1>5 DEF Sends, GrpcTypeOK, RpcRecord, CallsKnown, RpcAt
<1>6. ASSUME NEW t \in Callers, Serves(t) PROVE CallsKnown'
  <2>1. PICK m : rpc' = [rpc EXCEPT ![t].pc = "answered", ![t].reply = m]
    BY <1>6 DEF Serves
  <2> QED
    BY <1>6, <2>1 DEF Serves, GrpcTypeOK, RpcRecord, CallsKnown, RpcAt
<1>7. ASSUME NEW t \in Callers, Returns(t) PROVE CallsKnown'
  BY <1>1, <1>7 DEF Returns, Resting
<1>8. CASE UNCHANGED rpc
  BY <1>8 DEF CallsKnown, RpcAt
<1> QED
  BY <1>2, <1>4, <1>5, <1>6, <1>7, <1>8
     DEF GrpcNext, ClientStep, Expires, Disconnects, Cancels, CloseClient,
         ServesLate, grpcVars

(* The server takes a call or refuses it (grpc_client.go:586-592, 173-175). *)
LEMMA ServesStep ==
    ASSUME GrpcInv, NEW t \in Callers, Serves(t)
    PROVE  Remote!Take(t) \/ Remote!Fail(t)
<1> DEFINE r == rpc[t].req
<1>1. r \in RemoteCalls /\ RpcPending(t) = Called(r) /\ ~shut
  BY RemotePendingIs DEF GrpcInv, CallsKnown, Serves, RpcAt
<1>2. PICK kind, v :
         /\ kind \in ReplyKinds
         /\ rpc' = [rpc EXCEPT ![t].pc = "answered", ![t].reply = RpcReply(kind, v)]
         /\ \/ /\ remote' = RemoteEffect(r, remote)
               /\ \/ kind = "ok" /\ v = IF r \in Reads THEN remote ELSE Absent
                  \/ r.op = "insert" /\ kind = "refused"
            \/ UNCHANGED remote /\ kind # "ok"
  BY DEF Serves, ReplyKinds
<1> DEFINE c == [rpc[t] EXCEPT !.pc = "answered", !.reply = RpcReply(kind, v)]
<1>3. rpc' = [rpc EXCEPT ![t] = c]
  BY <1>2 DEF GrpcInv, GrpcTypeOK
<1>4. c.pc = "answered" /\ c.req = r /\ c.reply = RpcReply(kind, v)
  BY DEF GrpcInv, GrpcTypeOK, RpcRecord
<1> HIDE DEF c
<1>5. RpcService' = [RpcService EXCEPT ![t] = RpcPending(t)'] /\ rpc'[t] = c
  BY <1>3, RemoteStep DEF GrpcInv
<1>6. RpcPending(t)' = Done(r, ReadsAnswer(r, RpcReply(kind, v)))
  BY <1>4, <1>5, RemotePendingWillBe
<1>7. UNCHANGED <<shut, abandoned>>
  BY DEF Serves
<1>8. CASE /\ remote' = RemoteEffect(r, remote) /\ kind = "ok"
           /\ v = IF r \in Reads THEN remote ELSE Absent
  <2>1. Answered(r, v) = Answered(r, remote)
    BY <1>1, <1>8 DEF Answered, RemoteCalls
  <2>2. ReadsAnswer(r, RpcReply(kind, v)) = Answered(r, v)
    BY <1>8 DEF ReadsAnswer, RpcReply
  <2> HIDE DEF r
  <2> QED BY <1>1, <1>5, <1>6, <1>7, <1>8, <2>1, <2>2, AsRemote
<1>9. ASSUME kind # "ok" PROVE ReadsAnswer(r, RpcReply(kind, v)) = Failed
  BY <1>9 DEF ReadsAnswer, RpcReply
<1>10. CASE remote' = RemoteEffect(r, remote) /\ r.op = "insert" /\ kind = "refused"
  <2> HIDE DEF r
  <2> QED BY <1>1, <1>5, <1>6, <1>7, <1>9, <1>10, AsRemote
<1>11. CASE UNCHANGED remote /\ kind # "ok"
  <2> HIDE DEF r
  <2> QED BY <1>1, <1>5, <1>6, <1>7, <1>9, <1>11, AsRemote
<1> QED BY <1>2, <1>8, <1>10, <1>11

(* A call ends with the error of the stub, and its request is lost, still  *)
(* on its way, or already served.                                          *)
LEMMA GivesUpStep ==
    ASSUME GrpcInv, NEW t \in Callers, GivesUp(t)
    PROVE  Remote!Fail(t) \/ Remote!FailAdrift(t)
<1> DEFINE r == rpc[t].req
           c == [pc |-> "done", req |-> r, reply |-> NoReply, out |-> Failed]
<1>1. rpc' = [rpc EXCEPT ![t] = c]
  BY DEF GivesUp, Ends
<1>2. RpcService' = [RpcService EXCEPT ![t] = RpcPending(t)'] /\ rpc'[t] = c
  BY <1>1, RemoteStep DEF GrpcInv
<1>3. RpcPending(t)' = Done(r, Failed)
  BY <1>2, RemotePendingWillBe
<1>4. UNCHANGED <<shut, remote>>
  BY DEF GivesUp
<1>5. \E o : RpcPending(t) \in {Called(r), Done(r, o)}
  BY RemotePendingIs DEF GivesUp, Waits, RpcAt
<1>6. CASE UNCHANGED abandoned
  BY <1>2, <1>3, <1>4, <1>5, <1>6, AsRemote
<1>7. CASE /\ RpcAt(t, "sent") /\ r \in Writes
           /\ abandoned' = [abandoned EXCEPT ![r] = @ + 1]
  <2>1. RpcPending(t) = Called(r) /\ RpcService[t] = RpcPending(t)
    BY <1>7, RemotePendingIs DEF RpcAt, RpcService
  <2>2. RpcPending(t).step = "called" /\ RpcPending(t).req = r
    BY <2>1 DEF Called
  <2> HIDE DEF r, c
  <2> QED
    BY <1>2, <1>3, <1>4, <1>7, <2>1, <2>2, SameWords
       DEF Remote!FailAdrift, Remote!Becomes
<1> QED BY <1>6, <1>7 DEF GivesUp

(* Every step of the client is a step of the service, or none. *)
LEMMA StepService ==
    ASSUME GrpcInv, [GrpcNext]_grpcVars
    PROVE  Remote!Next \/ UNCHANGED SeenVars
<1> USE DEF GrpcInv
<1>1. ASSUME NEW t \in Callers, NEW r \in RemoteCalls, Invoke(t, r)
      PROVE  Remote!Next
  <2> DEFINE c == [Resting EXCEPT !.pc = "waiting", !.req = r]
  <2>1. RpcService' = [RpcService EXCEPT ![t] = RpcPending(t)'] /\ rpc'[t] = c
    BY <1>1, RemoteStep DEF Invoke
  <2>2. c.pc = "waiting" /\ c.req = r
    BY DEF Resting
  <2> HIDE DEF c
  <2>3. RpcPending(t)' = Called(r) /\ RpcPending(t) = NoCall
    BY <1>1, <2>1, <2>2, RemotePendingIs, RemotePendingWillBe DEF Invoke
  <2>4. Remote!Invoke(t, r)
    BY <1>1, <2>1, <2>3, SameWords
       DEF Invoke, Remote!Invoke, Remote!Becomes, RpcService
  <2> QED BY <2>4, SameWords DEF Remote!Next
<1>2. ASSUME NEW t \in Callers, Rejects(t)
      PROVE  Remote!Next
  <2> DEFINE r == rpc[t].req
             c == [pc |-> "done", req |-> r, reply |-> NoReply, out |-> Failed]
  <2>1. RpcService' = [RpcService EXCEPT ![t] = RpcPending(t)'] /\ rpc'[t] = c
    BY <1>2, RemoteStep DEF Rejects, Ends
  <2>2. RpcPending(t)' = Done(r, Failed) /\ RpcPending(t) = Called(r)
    BY <1>2, <2>1, RemotePendingIs, RemotePendingWillBe DEF Rejects, RpcAt
  <2>3. Remote!Fail(t)
    BY <1>2, <2>1, <2>2, AsRemote DEF Rejects
  <2> QED BY <2>3 DEF Remote!Next
<1>3. ASSUME NEW t \in Callers, Sends(t)
      PROVE  UNCHANGED SeenVars
  <2> DEFINE c == [rpc[t] EXCEPT !.pc = "sent"]
  <2>1. rpc' = [rpc EXCEPT ![t] = c]
    BY <1>3 DEF Sends
  <2>2. c.pc = "sent" /\ c.req = rpc[t].req
    BY DEF GrpcTypeOK, RpcRecord
  <2>3. RpcService' = [RpcService EXCEPT ![t] = RpcPending(t)'] /\ rpc'[t] = c
    BY <2>1, RemoteStep
  <2> HIDE DEF c
  <2>4. RpcPending(t)' = RpcPending(t)
    BY <1>3, <2>2, <2>3, RemotePendingIs, RemotePendingWillBe DEF Sends, RpcAt
  <2> QED BY <1>3, <2>3, <2>4, AsRemote DEF Sends
<1>4. ASSUME NEW t \in Callers, Receives(t)
      PROVE  UNCHANGED SeenVars
  <2> DEFINE out == ReadsAnswer(rpc[t].req, rpc[t].reply)
             c == [pc |-> "done", req |-> rpc[t].req, reply |-> NoReply, out |-> out]
  <2>1. RpcService' = [RpcService EXCEPT ![t] = RpcPending(t)'] /\ rpc'[t] = c
    BY <1>4, RemoteStep DEF Receives, Ends
  <2>2. RpcPending(t)' = RpcPending(t)
    BY <1>4, <2>1, RemotePendingIs, RemotePendingWillBe DEF Receives
  <2> QED BY <1>4, <2>1, <2>2, AsRemote DEF Receives
<1>5. ASSUME NEW t \in Callers, Returns(t)
      PROVE  Remote!Next
  <2>1. RpcService' = [RpcService EXCEPT ![t] = RpcPending(t)'] /\ rpc'[t] = Resting
    BY <1>5, RemoteStep DEF Returns
  <2>2. RpcPending(t)' = NoCall /\ RpcPending(t).step = "done"
    BY <1>5, <2>1, RemotePendingIs, RemotePendingWillBe DEF Returns, Resting, Done
  <2>3. Remote!Return(t)
    BY <1>5, <2>1, <2>2, SameWords
       DEF Returns, Remote!Return, Remote!Becomes, RpcService
  <2> QED BY <2>3 DEF Remote!Next
<1>6. CASE CloseClient
  <2>1. RpcService' = RpcService
    BY <1>6 DEF CloseClient, RpcService, RpcPending, RpcAt
  <2>2. Remote!Close
    BY <1>6, <2>1 DEF CloseClient, Remote!Close
  <2> QED BY <2>2 DEF Remote!Next
<1>7. ASSUME NEW w \in Writes, ServesLate(w)
      PROVE  Remote!Next
  <2>1. RpcService' = RpcService
    BY <1>7 DEF ServesLate, RpcService, RpcPending, RpcAt
  <2>2. Remote!Land(w)
    BY <1>7, <2>1, SameWords DEF ServesLate, Remote!Land
  <2> QED BY <2>2, SameWords DEF Remote!Next
<1>8. CASE UNCHANGED grpcVars
  BY <1>8 DEF grpcVars, SeenVars, RpcService, RpcPending, RpcAt
<1> QED
  BY <1>1, <1>2, <1>3, <1>4, <1>5, <1>6, <1>7, <1>8, ServesStep, GivesUpStep
     DEF GrpcNext, ClientStep, Expires, Disconnects, Cancels, Remote!Next

-----------------------------------------------------------------------------
LEMMA InitGrpc == GrpcInit => GrpcInv /\ Remote!Init
<1> SUFFICES ASSUME GrpcInit PROVE GrpcInv /\ Remote!Init
  OBVIOUS
<1>1. rpc \in [Callers -> RpcRecord]
  BY RestingTyped, Zenon DEF GrpcInit
<1>2. \A t \in Callers : RpcAt(t, "idle")
  BY DEF GrpcInit, RpcAt, Resting
<1>3. GrpcInv
  BY <1>1, <1>2 DEF GrpcInit, GrpcInv, GrpcTypeOK, CallsKnown
<1>4. \A t \in Callers : RpcPending(t) = NoCall
  BY <1>2, RemotePendingIs
<1>5. Remote!Init
  BY <1>4, SameWords DEF GrpcInit, Remote!Init, RpcService
<1> QED BY <1>3, <1>5

(* The types, and that whoever is in a call knows what he asked for.       *)
THEOREM GrpcInvariant == GrpcSpec => []GrpcInv
<1>1. GrpcInv /\ [GrpcNext]_grpcVars => GrpcInv'
  BY StepTyped, KnownStep DEF GrpcInv
<1> QED BY <1>1, InitGrpc, PTL DEF GrpcSpec

(* A call without an error took effect at one point of its duration, and   *)
(* one with an error at most once, if late: the client is RemoteService.   *)
THEOREM GrpcIsRemote == GrpcSpec => ImplementsRemote
<1>1. GrpcInv /\ [GrpcNext]_grpcVars
        => [Remote!Next]_<<remote, ~shut, RpcService, abandoned>>
  BY StepService DEF SeenVars
<1> QED
  BY <1>1, InitGrpc, GrpcInvariant, PTL DEF GrpcSpec, ImplementsRemote, Remote!Spec
=============================================================================
