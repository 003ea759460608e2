----------------------------- MODULE LinkProofs -----------------------------
(***************************************************************************)
(* Proofs about TransferLink, for every set of transfers, keys and frame   *)
(* counts, every timeout, and every way the bus may lose, repeat and       *)
(* reorder frames.                                                         *)
(***************************************************************************)
EXTENDS TransferLink, SequenceTheorems, TLAPS

SentOK ==
  /\ sent \in [Transfer -> Nat]
  /\ \A x \in Transfer : sent[x] <= Frames[x]

(* A session begins with the first frame that came last for its key.       *)
BegunOK ==
  /\ begun \in [Key -> Transfer \cup {None}]
  /\ \A k \in Key : sessions[k] # NoSession => begun[k] = sessions[k].payload[1][1]

(* The inductive invariant: types, what the sessions hold and began with,  *)
(* and what the last call returned.                                        *)
LinkInv ==
  /\ Receiver!TypeOK
  /\ SentOK
  /\ BegunOK
  /\ SessionsInStep
  /\ UncheckedInStep
  /\ CheckedIsWhole

(* What a session holds is still in step when it is stored, aged out of or *)
(* dropped from the table: Store(k, s) touches other keys only to remove.  *)
LEMMA StoreEffect ==
  ASSUME NEW k \in Key, NEW s, Receiver!Store(k, s)
  PROVE  /\ sessions' = [j \in Key |-> sessions'[j]]
         /\ sessions'[k] = s
         /\ \A j \in Key : j # k => sessions'[j] = NoSession \/ sessions'[j] = sessions[j]
BY DEF Receiver!Store, Receiver!Live

LEMMA FrameType ==
  ASSUME NEW x \in Transfer, NEW i \in 1 .. Frames[x]
  PROVE  /\ KeyOf[x] \in Key
         /\ <<x, i>> \in Chunk
         /\ i \in Nat \ {0}
         /\ Frames[x] \in Nat \ {0}
BY LinkAssumption DEF LinkAssumption, Chunk

LEMMA Parity ==
  ASSUME NEW a \in Nat, NEW b \in Nat
  PROVE  /\ (a % 2 = 0 <=> b % 2 = 1) => a % 2 = (b + 1) % 2
         /\ (b + 1) % 2 = 1 <=> ~(b % 2 = 1)
OBVIOUS

(* Appending the next frame in step keeps a sequence of chunks in step.    *)
LEMMA ExtendInStep ==
  ASSUME NEW k \in Key, NEW p \in Seq(Chunk), InStep(k, p),
         NEW x \in Transfer, KeyOf[x] = k,
         NEW i \in Nat, i \in 1 .. Frames[x], i # 1, i % 2 = (Len(p) + 1) % 2
  PROVE  InStep(k, Append(p, <<x, i>>))
<1> DEFINE q == Append(p, <<x, i>>)
<1>1. Len(p) \in Nat /\ p # <<>> /\ DOMAIN p = 1 .. Len(p)
  BY DEF InStep
<1>2. /\ Len(q) = Len(p) + 1
      /\ DOMAIN q = 1 .. Len(p) + 1
      /\ q[Len(p) + 1] = <<x, i>>
      /\ \A n \in 1 .. Len(p) : q[n] = p[n]
  OBVIOUS
<1>3. Len(p) >= 1
  BY <1>1
<1>4. ASSUME NEW n \in DOMAIN q
      PROVE  /\ KeyOf[q[n][1]] = k
             /\ q[n][2] \in 1 .. Frames[q[n][1]]
             /\ q[n][2] % 2 = n % 2
             /\ q[n][2] = 1 <=> n = 1
  <2>1. CASE n \in 1 .. Len(p)
    BY <2>1, <1>1, <1>2 DEF InStep
  <2>2. CASE n = Len(p) + 1
    BY <2>2, <1>2, <1>3
  <2>3. QED
    BY <2>1, <2>2, <1>1, <1>2, <1>4
<1>5. q # <<>>
  BY <1>1, <1>2
<1>6. QED
  BY <1>4, <1>5 DEF InStep

(* A first frame on its own is in step.                                    *)
LEMMA StartInStep ==
  ASSUME NEW x \in Transfer, NEW i \in Nat, i = 1, i \in 1 .. Frames[x]
  PROVE  InStep(KeyOf[x], <<<<x, i>>>>)
BY DEF InStep

(* What a session in step accepts next leaves its payload in step.         *)
LEMMA ExtendSession ==
  ASSUME NEW k \in Key, NEW s \in Receiver!Session, SessionInStep(k, s),
         NEW x \in Transfer, KeyOf[x] = k,
         NEW i \in Nat, i \in 1 .. Frames[x], i # 1,
         i % 2 = 0 <=> s.expectedToggle
  PROVE  /\ InStep(k, Append(s.payload, <<x, i>>))
         /\ Append(s.payload, <<x, i>>) \in Seq(Chunk)
         /\ Len(Append(s.payload, <<x, i>>)) % 2 = 1 <=> ~s.expectedToggle
<1> DEFINE p == s.payload
           q == Append(p, <<x, i>>)
<1>1. p \in Seq(Chunk) /\ InStep(k, p) /\ Len(p) \in Nat
  BY DEF Receiver!Session, SessionInStep
<1>2. s.expectedToggle <=> Len(p) % 2 = 1
  BY DEF SessionInStep
<1>3. i % 2 = (Len(p) + 1) % 2
  BY <1>1, <1>2, Parity
<1>4. <<x, i>> \in Chunk
  BY DEF Chunk
<1>5. Len(q) = Len(p) + 1 /\ q \in Seq(Chunk)
  BY <1>1, <1>4
<1>6. Len(q) % 2 = 1 <=> ~s.expectedToggle
  BY <1>1, <1>2, <1>5, Parity
<1>7. InStep(k, q)
  BY <1>1, <1>3, ExtendInStep
<1>8. QED
  BY <1>5, <1>6, <1>7

LEMMA ArriveTypeOK ==
  ASSUME Receiver!TypeOK, NEW x \in Transfer, NEW i \in 1 .. Frames[x],
         Receiver!ProcessFrame(FrameOf(x, i))
  PROVE  Receiver!TypeOK'
<1> DEFINE f == FrameOf(x, i)
           k == KeyOf[x]
<1>0. /\ k \in Key
      /\ <<x, i>> \in Chunk
      /\ f.key = k /\ f.chunk = <<x, i>>
  BY FrameType DEF FrameOf
<1>1. ASSUME NEW s, s \in Receiver!Session \cup {NoSession}, Receiver!Store(k, s)
      PROVE  sessions' \in [Key -> Receiver!Session \cup {NoSession}]
  BY <1>0, <1>1, StoreEffect DEF Receiver!TypeOK
<1>2. CASE Receiver!SingleFrame(f)
  BY <1>2, <1>0 DEF Receiver!SingleFrame, Receiver!TypeOK, Receiver!Return, Receiver!Output
<1>3. CASE Receiver!StartTransfer(f)
  <2> DEFINE s == IF f.toggle THEN Receiver!Live(f.key)
                  ELSE [payload |-> <<f.chunk>>, expectedToggle |-> TRUE, ts |-> now]
  <2>1. Receiver!Live(k) \in Receiver!Session \cup {NoSession}
    BY <1>0 DEF Receiver!Live, Receiver!TypeOK
  <2>2. <<f.chunk>> \in Seq(Chunk) /\ now \in Nat
    BY <1>0 DEF Receiver!TypeOK
  <2>3. s \in Receiver!Session \cup {NoSession}
    BY <2>1, <2>2, <1>0 DEF Receiver!Session
  <2>4. Receiver!Store(k, s) /\ out' = None /\ now' = now
    BY <1>3, <1>0 DEF Receiver!StartTransfer
  <2>5. QED
    BY <2>3, <2>4, <1>1 DEF Receiver!TypeOK
<1>4. CASE Receiver!Orphan(f)
  BY <1>4, <1>1, <1>0 DEF Receiver!Orphan, Receiver!TypeOK
<1>5. CASE Receiver!ToggleMismatch(f)
  BY <1>5, <1>1, <1>0 DEF Receiver!ToggleMismatch, Receiver!TypeOK
<1>6. ASSUME Receiver!InSequence(f)
      PROVE  /\ sessions[k] \in Receiver!Session
             /\ Receiver!Extended(f) \in Seq(Chunk)
  <2>1. sessions[k] \in Receiver!Session
    BY <1>6, <1>0 DEF Receiver!InSequence, Receiver!Meets, Receiver!Live, Receiver!TypeOK
  <2>2. QED
    BY <2>1, <1>0 DEF Receiver!Session, Receiver!Extended
<1>7. CASE Receiver!MiddleFrame(f)
  BY <1>7, <1>6, <1>1, <1>0 DEF Receiver!MiddleFrame, Receiver!TypeOK, Receiver!Session
<1>8. CASE Receiver!LastFrame(f)
  BY <1>8, <1>6, <1>1, <1>0
  DEF Receiver!LastFrame, Receiver!TypeOK, Receiver!Output, Receiver!Verdict, Receiver!Return
<1>9. QED
  BY <1>2, <1>3, <1>4, <1>5, <1>7, <1>8 DEF Receiver!ProcessFrame
(* An arriving frame leaves every session in step.                         *)
LEMMA ArriveSessions ==
  ASSUME LinkInv, NEW x \in Transfer, NEW i \in 1 .. Frames[x],
         Arrive(x, i)
  PROVE  SessionsInStep'
<1> DEFINE f == FrameOf(x, i)
           k == KeyOf[x]
<1>0. /\ k \in Key
      /\ i \in Nat \ {0} /\ Frames[x] \in Nat \ {0}
      /\ f.key = k /\ f.chunk = <<x, i>> 
      /\ f.sot <=> i = 1
      /\ f.eot <=> i = Frames[x]
      /\ f.toggle <=> i % 2 = 0
      /\ Receiver!ProcessFrame(f)
      /\ Receiver!TypeOK /\ SessionsInStep
  BY FrameType DEF FrameOf, Arrive, LinkInv
(* It is enough that what is stored under k is absent, old or in step.     *)
<1>1. ASSUME NEW s, Receiver!Store(k, s),
             s # NoSession => s = sessions[k] \/ SessionInStep(k, s)
      PROVE  SessionsInStep'
  <2>1. SUFFICES ASSUME NEW j \in Key, sessions'[j] # NoSession
                 PROVE  SessionInStep(j, sessions'[j])
    BY DEF SessionsInStep
  <2>2. QED
    BY <2>1, <1>0, <1>1, StoreEffect DEF SessionsInStep
<1>2. CASE Receiver!SingleFrame(f)
  BY <1>2, <1>0 DEF Receiver!SingleFrame, SessionsInStep
<1>3. CASE Receiver!StartTransfer(f)
  <2> DEFINE s == [payload |-> <<f.chunk>>, expectedToggle |-> TRUE, ts |-> now]
  <2>1. i = 1 /\ ~f.toggle /\ i < Frames[x]
    <3>1. f.sot /\ ~f.eot
      BY <1>3 DEF Receiver!StartTransfer
    <3>2. QED
      BY <3>1, <1>0
  <2>2. Receiver!Store(k, s)
    BY <1>3, <2>1, <1>0 DEF Receiver!StartTransfer
  <2>3. InStep(k, s.payload)
    BY <2>1, <1>0, StartInStep
  <2>4. SessionInStep(k, s)
    BY <2>1, <2>3, <1>0 DEF SessionInStep
  <2>5. QED
    BY <2>2, <2>4, <1>1
<1>4. CASE Receiver!Orphan(f)
  BY <1>4, <1>0, <1>1 DEF Receiver!Orphan
<1>5. CASE Receiver!ToggleMismatch(f)
  BY <1>5, <1>0, <1>1 DEF Receiver!ToggleMismatch
<1>6. CASE Receiver!MiddleFrame(f)
  <2> DEFINE p == sessions[k].payload
             s == [payload |-> Receiver!Extended(f),
                   expectedToggle |-> ~sessions[k].expectedToggle,
                   ts |-> now]
  <2>0. /\ ~f.sot /\ ~f.eot /\ f.toggle = sessions[k].expectedToggle
        /\ sessions[k] # NoSession
        /\ Receiver!Store(k, s)
    BY <1>6, <1>0
    DEF Receiver!MiddleFrame, Receiver!InSequence, Receiver!Meets, Receiver!Live
  <2>1. /\ sessions[k] \in Receiver!Session /\ SessionInStep(k, sessions[k])
        /\ i # 1 /\ i < Frames[x]
        /\ i % 2 = 0 <=> sessions[k].expectedToggle
        /\ Receiver!Store(k, s)
    BY <2>0, <1>0 DEF Receiver!TypeOK, SessionsInStep
  <2>2. s.payload = Append(p, <<x, i>>)
    BY <1>0 DEF Receiver!Extended
  <2>3. i \in Nat /\ i \in 1 .. Frames[x] /\ KeyOf[x] = k
    BY <1>0
  <2>4. /\ InStep(k, Append(p, <<x, i>>)) /\ p \in Seq(Chunk)
        /\ Len(Append(p, <<x, i>>)) % 2 = 1 <=> ~sessions[k].expectedToggle
    BY <2>1, <2>3, <1>0, ExtendSession DEF Receiver!Session
  <2>5. \A n \in DOMAIN Append(p, <<x, i>>) :
          Append(p, <<x, i>>)[n][2] < Frames[Append(p, <<x, i>>)[n][1]]
    <3> DEFINE q == Append(p, <<x, i>>)
    <3>1. /\ Len(p) \in Nat /\ DOMAIN p = 1 .. Len(p)
          /\ DOMAIN q = 1 .. Len(p) + 1 /\ q[Len(p) + 1] = <<x, i>>
          /\ \A n \in 1 .. Len(p) : q[n] = p[n]
      BY <2>4
    <3>2. \A n \in DOMAIN p : p[n][2] < Frames[p[n][1]]
      BY <2>1 DEF SessionInStep
    <3> HIDE DEF p, q
    <3>3. QED
      BY <3>1, <3>2, <2>1
  <2>6. s.expectedToggle <=> Len(s.payload) % 2 = 1
    BY <2>2, <2>4
  <2>7. SessionInStep(k, s)
    BY <2>2, <2>4, <2>5, <2>6 DEF SessionInStep
  <2>8. QED
    BY <2>1, <2>7, <1>1
<1>7. CASE Receiver!LastFrame(f)
  BY <1>7, <1>0, <1>1 DEF Receiver!LastFrame
<1>8. QED
  BY <1>0, <1>2, <1>3, <1>4, <1>5, <1>6, <1>7 DEF Receiver!ProcessFrame

LEMMA WholeProperties ==
  ASSUME NEW x \in Transfer
  PROVE  /\ Whole(x) \in Seq(Chunk)
         /\ Len(Whole(x)) = Frames[x]
         /\ Frames[x] \in Nat \ {0}
         /\ Whole(x)[1] = <<x, 1>>
         /\ Whole(x)[Frames[x]] = <<x, Frames[x]>>
<1>1. Frames[x] \in Nat \ {0}
  BY LinkAssumption DEF LinkAssumption
<1>2. \A i \in 1 .. Frames[x] : <<x, i>> \in Chunk
  BY <1>1 DEF Chunk
<1>3. /\ Whole(x) \in [1 .. Frames[x] -> Chunk]
      /\ \A i \in 1 .. Frames[x] : Whole(x)[i] = <<x, i>>
  BY <1>2 DEF Whole
<1>4. Whole(x) \in Seq(Chunk)
  BY <1>1, <1>3, SeqDef
<1>5. Len(Whole(x)) = Frames[x]
  BY <1>1, <1>3, <1>4, LenProperties
<1>6. QED
  BY <1>1, <1>3, <1>4, <1>5

(* What an arriving frame makes process_frame return.                      *)
LEMMA ArriveReturns ==
  ASSUME LinkInv, NEW x \in Transfer, NEW i \in 1 .. Frames[x],
         Arrive(x, i)
  PROVE  UncheckedInStep' /\ CheckedIsWhole'
<1> DEFINE f == FrameOf(x, i)
           k == KeyOf[x]
<1>0. /\ k \in Key
      /\ i \in Nat \ {0} /\ Frames[x] \in Nat \ {0}
      /\ f.key = k /\ f.chunk = <<x, i>>
      /\ f.sot <=> i = 1
      /\ f.eot <=> i = Frames[x]
      /\ f.toggle <=> i % 2 = 0
      /\ Receiver!ProcessFrame(f)
      /\ Receiver!TypeOK /\ SessionsInStep
      /\ sent' = sent /\ i <= sent[x] /\ SentOK
  BY FrameType DEF FrameOf, Arrive, LinkInv
<1>1. CASE out' = None
  BY <1>1 DEF UncheckedInStep, CheckedIsWhole
<1>2. CASE Receiver!SingleFrame(f)
  <2>1. i = 1 /\ Frames[x] = 1
    <3>1. f.sot /\ f.eot
      BY <1>2 DEF Receiver!SingleFrame
    <3>2. QED
      BY <3>1, <1>0
  <2>2. ~f.toggle
    BY <2>1, <1>0
  <2>3. out' = [key |-> k, payload |-> <<<<x, 1>>>>]
    BY <1>2, <2>1, <2>2, <1>0 DEF Receiver!SingleFrame, Receiver!Return
  <2>4. InStep(k, <<<<x, 1>>>>)
    BY <2>1, StartInStep
  <2>5. <<<<x, 1>>>> = Whole(x)
    BY <2>1 DEF Whole
  <2>6. sent[x] = Frames[x]
    BY <2>1, <1>0 DEF SentOK
  <2>7. UncheckedInStep'
    BY <2>1, <2>3, <2>4 DEF UncheckedInStep
  <2>8. CheckedIsWhole'
    BY <2>3, <2>5, <2>6, <1>0 DEF CheckedIsWhole
  <2>9. QED
    BY <2>7, <2>8
<1>3. CASE Receiver!LastFrame(f) /\ out' # None
  <2> DEFINE p == sessions[k].payload
             q == Append(p, <<x, i>>)
  <2>0. /\ ~f.sot /\ f.eot /\ f.toggle = sessions[k].expectedToggle
        /\ sessions[k] # NoSession
        /\ out' = Receiver!Verdict(k, q)
    BY <1>3, <1>0
    DEF Receiver!LastFrame, Receiver!InSequence, Receiver!Meets, Receiver!Live,
        Receiver!Extended
  <2>1. /\ sessions[k] \in Receiver!Session /\ SessionInStep(k, sessions[k])
        /\ i # 1 /\ i = Frames[x]
        /\ i % 2 = 0 <=> sessions[k].expectedToggle
    BY <2>0, <1>0 DEF Receiver!TypeOK, SessionsInStep
  <2>2. i \in Nat /\ i \in 1 .. Frames[x] /\ KeyOf[x] = k
    BY <1>0
  <2>3. InStep(k, q) /\ p \in Seq(Chunk)
    BY <2>1, <2>2, <1>0, ExtendSession DEF Receiver!Session
  <2>4. Len(q) \in Nat \ {0} /\ q[Len(q)] = <<x, i>>
    BY <2>3
  <2>5. /\ out' = [key |-> k, payload |-> q]
        /\ k \in Registered => IdealCrc(k, q)
    BY <2>0, <1>3 DEF Receiver!Verdict, Receiver!Return
  <2>6. UncheckedInStep'
    <3> HIDE DEF q
    <3>1. q[Len(q)][2] = Frames[q[Len(q)][1]]
      BY <2>1, <2>4
    <3>2. QED
      BY <2>3, <2>5, <3>1 DEF UncheckedInStep
  <2>7. sent[x] = Frames[x]
    BY <2>1, <1>0 DEF SentOK
  <2>8. ASSUME k \in Registered
        PROVE  KeyOf[x] = k /\ q = Whole(x)
    <3>1. PICK y \in Transfer : KeyOf[y] = k /\ q = Whole(y)
      BY <2>5, <2>8 DEF IdealCrc
    <3> HIDE DEF q
    <3>2. q[Len(q)] = <<y, Frames[y]>>
      BY <3>1, WholeProperties
    <3>3. y = x
      BY <3>2, <2>4
    <3>4. QED
      BY <3>1, <3>3
  <2>9. CheckedIsWhole'
    <3> HIDE DEF q, k
    <3>1. QED
      BY <2>5, <2>7, <2>8, <1>0 DEF CheckedIsWhole
  <2>10. QED
    BY <2>6, <2>9
<1>4. QED
  BY <1>0, <1>1, <1>2, <1>3
  DEF Receiver!ProcessFrame, Receiver!StartTransfer, Receiver!Orphan,
      Receiver!ToggleMismatch, Receiver!MiddleFrame

(* What an arriving frame does to begun, by the path it takes.             *)
LEMMA ArriveBegun ==
  ASSUME LinkInv, NEW x \in Transfer, NEW i \in 1 .. Frames[x],
         Arrive(x, i)
  PROVE  BegunOK'
<1> DEFINE f == FrameOf(x, i)
           k == KeyOf[x]
<1>0. /\ k \in Key
      /\ i \in Nat \ {0} /\ Frames[x] \in Nat \ {0}
      /\ f.key = k /\ f.chunk = <<x, i>>
      /\ f.sot <=> i = 1
      /\ f.eot <=> i = Frames[x]
      /\ f.toggle <=> i % 2 = 0
      /\ Receiver!ProcessFrame(f)
      /\ Receiver!TypeOK /\ BegunOK
      /\ begun' = IF Frames[x] = 1 THEN begun
                  ELSE [begun EXCEPT ![k] = IF i = 1 THEN x ELSE IF out' # None THEN None ELSE @]
  BY FrameType DEF FrameOf, Arrive, LinkInv
<1>1. begun' \in [Key -> Transfer \cup {None}] /\ \A j \in Key : j # k => begun'[j] = begun[j]
  BY <1>0 DEF BegunOK
(* It is enough to look at the key of the frame.                           *)
<1>2. ASSUME NEW s, Receiver!Store(k, s), s # NoSession => begun'[k] = s.payload[1][1]
      PROVE  BegunOK'
  <2>1. SUFFICES ASSUME NEW j \in Key, sessions'[j] # NoSession
                 PROVE  begun'[j] = sessions'[j].payload[1][1]
    BY <1>1 DEF BegunOK
  <2>2. QED
    BY <2>1, <1>0, <1>1, <1>2, StoreEffect DEF BegunOK
<1>3. CASE Receiver!SingleFrame(f)
  <2>1. Frames[x] = 1 /\ sessions' = sessions
    BY <1>3, <1>0 DEF Receiver!SingleFrame
  <2>2. QED
    BY <2>1, <1>0 DEF BegunOK
<1>4. CASE Receiver!StartTransfer(f)
  <2> DEFINE s == [payload |-> <<f.chunk>>, expectedToggle |-> TRUE, ts |-> now]
  <2>1. f.sot /\ ~f.eot
    BY <1>4 DEF Receiver!StartTransfer
  <2>2. i = 1 /\ ~f.toggle /\ Frames[x] # 1
    BY <2>1, <1>0
  <2>3. Receiver!Store(k, s)
    BY <1>4, <2>2, <1>0 DEF Receiver!StartTransfer
  <2>4. begun'[k] = x
    BY <2>2, <1>0 DEF BegunOK
  <2>5. s.payload[1][1] = x
    BY <1>0
  <2> HIDE DEF s
  <2>6. QED
    BY <2>3, <2>4, <2>5, <1>2
<1>5. CASE Receiver!Orphan(f)
  BY <1>5, <1>0, <1>2 DEF Receiver!Orphan
<1>6. CASE Receiver!ToggleMismatch(f)
  BY <1>6, <1>0, <1>2 DEF Receiver!ToggleMismatch
<1>7. CASE Receiver!MiddleFrame(f)
  <2> DEFINE s == [payload |-> Receiver!Extended(f),
                   expectedToggle |-> ~sessions[k].expectedToggle,
                   ts |-> now]
  <2>1. ~f.sot /\ sessions[k] # NoSession /\ Receiver!Store(k, s) /\ out' = None
    BY <1>7, <1>0
    DEF Receiver!MiddleFrame, Receiver!InSequence, Receiver!Meets, Receiver!Live
  <2>2. begun'[k] = begun[k]
    BY <2>1, <1>0 DEF BegunOK
  <2>3. /\ sessions[k].payload \in Seq(Chunk) /\ sessions[k].payload # <<>>
        /\ <<x, i>> \in Chunk
    BY <2>1, <1>0 DEF Receiver!TypeOK, Receiver!Session, LinkInv, SessionsInStep,
       SessionInStep, InStep, Chunk
  <2>4. Append(sessions[k].payload, <<x, i>>)[1] = sessions[k].payload[1]
    BY <2>3
  <2>5. s.payload[1][1] = begun[k]
    BY <2>1, <2>4, <1>0 DEF Receiver!Extended, BegunOK
  <2> HIDE DEF s
  <2>6. QED
    BY <2>1, <2>2, <2>5, <1>2
<1>8. CASE Receiver!LastFrame(f)
  BY <1>8, <1>0, <1>2 DEF Receiver!LastFrame
<1>9. QED
  BY <1>0, <1>3, <1>4, <1>5, <1>6, <1>7, <1>8 DEF Receiver!ProcessFrame

LEMMA LinkInvInit ==
  ASSUME LinkInit
  PROVE  LinkInv
BY LinkAssumption DEF LinkInit, Receiver!Init, LinkInv, Receiver!TypeOK, SentOK, BegunOK, SessionsInStep,
       UncheckedInStep, CheckedIsWhole, LinkAssumption

LEMMA LinkInvStep ==
  ASSUME LinkInv, [LinkNext]_lvars
  PROVE  LinkInv'
<1> USE DEF LinkInv
<1>1. ASSUME NEW x \in Transfer, Send(x)
      PROVE  LinkInv'
  <2>1. /\ sessions' = sessions /\ now' = now /\ out' = out
        /\ sent' = [sent EXCEPT ![x] = @ + 1] /\ sent[x] < Frames[x]
        /\ begun' = begun
    BY <1>1 DEF Send
  <2>2. SentOK'
    BY LinkAssumption, <2>1 DEF SentOK, LinkAssumption
  <2>3. \A y \in Transfer : sent[y] = Frames[y] => sent'[y] = Frames[y]
    BY <2>1 DEF SentOK
  <2>4. CheckedIsWhole'
    BY <2>1, <2>3 DEF CheckedIsWhole
  <2>5. QED
    BY <2>1, <2>2, <2>4
    DEF Receiver!TypeOK, BegunOK, SessionsInStep, UncheckedInStep
<1>2. ASSUME NEW x \in Transfer, NEW i \in 1 .. Frames[x], Arrive(x, i)
      PROVE  LinkInv'
  <2>1. Receiver!TypeOK'
    BY <1>2, ArriveTypeOK DEF Arrive
  <2>2. SentOK'
    BY <1>2 DEF Arrive, SentOK
  <2>3. QED
    BY <1>2, <2>1, <2>2, ArriveBegun, ArriveSessions, ArriveReturns
<1>3. CASE Receiver!EmptyFrame /\ UNCHANGED <<sent, begun>>
  BY <1>3 DEF Receiver!EmptyFrame, Receiver!TypeOK, SentOK, BegunOK,
              SessionsInStep, UncheckedInStep, CheckedIsWhole
<1>4. CASE Receiver!Advance /\ UNCHANGED <<sent, begun>>
  BY <1>4 DEF Receiver!Advance, Receiver!TypeOK, SentOK, BegunOK,
              SessionsInStep, UncheckedInStep, CheckedIsWhole
<1>5. CASE UNCHANGED lvars
  BY <1>5 DEF lvars, Receiver!TypeOK, SentOK, BegunOK, SessionsInStep,
              UncheckedInStep, CheckedIsWhole
<1>6. QED
  BY <1>1, <1>2, <1>3, <1>4, <1>5 DEF LinkNext

(* In every behaviour of the link the types hold, sessions hold frames in  *)
(* step, unchecked payloads are in step from first to last frame, and      *)
(* payloads of registered types are whole transfers (TransferReassembler   *)
(* fed by build_multi_frame over a bus that loses, repeats and reorders).  *)
THEOREM LinkInvariant ==
  LinkSpec => []LinkInv
<1>1. LinkInit => LinkInv
  BY LinkInvInit
<1>2. LinkInv /\ [LinkNext]_lvars => LinkInv'
  BY LinkInvStep
<1>3. QED
  BY <1>1, <1>2, PTL DEF LinkSpec

(* A session never holds a sequence of frames with an odd gap, a frame of  *)
(* another key or a second first frame (process_frame).                    *)
THEOREM LinkSessionsInStep ==
  LinkSpec => []SessionsInStep
<1>1. LinkInv => SessionsInStep
  BY DEF LinkInv
<1>2. QED
  BY <1>1, LinkInvariant, PTL

(* Losing any odd number of consecutive frames of an unchecked transfer    *)
(* never goes unnoticed (process_frame, the toggle test).                  *)
THEOREM LinkUncheckedInStep ==
  LinkSpec => []UncheckedInStep
<1>1. LinkInv => UncheckedInStep
  BY DEF LinkInv
<1>2. QED
  BY <1>1, LinkInvariant, PTL

(* A payload returned for a registered type is a whole transfer that was   *)
(* sent completely (process_frame, the CRC test).                          *)
THEOREM LinkCheckedIsWhole ==
  LinkSpec => []CheckedIsWhole
<1>1. LinkInv => CheckedIsWhole
  BY DEF LinkInv
<1>2. QED
  BY <1>1, LinkInvariant, PTL
-----------------------------------------------------------------------------
(* What is returned for a registered type is the transfer whose frame came *)
(* last and, if it has several, whose first frame came last for its key.   *)
LEMMA ArriveYields ==
  ASSUME LinkInv, NEW x \in Transfer, NEW i \in 1 .. Frames[x],
         Arrive(x, i), out' # None, out'.key \in Registered
  PROVE  /\ x \in Checked /\ sent[x] = Frames[x]
         /\ out' = [key |-> KeyOf[x], payload |-> Whole(x)]
         /\ Frames[x] # 1 => i # 1 /\ begun[KeyOf[x]] = x
<1> DEFINE f == FrameOf(x, i)
           k == KeyOf[x]
           p == sessions[k].payload
<1>0. /\ k \in Key
      /\ i \in Nat \ {0} /\ Frames[x] \in Nat \ {0} /\ <<x, i>> \in Chunk
      /\ f.key = k /\ f.chunk = <<x, i>>
      /\ f.sot <=> i = 1
      /\ f.eot <=> i = Frames[x]
      /\ Receiver!ProcessFrame(f)
      /\ Receiver!TypeOK /\ BegunOK /\ SessionsInStep
  BY FrameType DEF FrameOf, Arrive, LinkInv
<1>1. PICK y \in Transfer :
        KeyOf[y] = out'.key /\ sent'[y] = Frames[y] /\ out'.payload = Whole(y)
  BY ArriveReturns DEF CheckedIsWhole
<1>2. CASE Receiver!SingleFrame(f)
  <2>1. i = 1 /\ Frames[x] = 1 /\ out' = [key |-> k, payload |-> <<<<x, i>>>>]
    BY <1>2, <1>0 DEF Receiver!SingleFrame, Receiver!Return
  <2>2. Whole(y)[1] = <<y, 1>> /\ Whole(y) = <<<<x, i>>>>
    BY <1>1, <2>1, WholeProperties
  <2>3. y = x
    BY <2>2
  <2>4. QED
    BY <1>1, <2>1, <2>3 DEF Checked, Arrive
<1>3. CASE Receiver!LastFrame(f)
  <2>1. /\ ~f.sot /\ sessions[k] # NoSession
        /\ out' = [key |-> k, payload |-> Append(p, <<x, i>>)]
    BY <1>3, <1>0
    DEF Receiver!LastFrame, Receiver!InSequence, Receiver!Meets, Receiver!Live,
        Receiver!Extended, Receiver!Verdict, Receiver!Return
  <2>2. p \in Seq(Chunk) /\ p # <<>>
    BY <2>1, <1>0 DEF Receiver!TypeOK, Receiver!Session, SessionsInStep, SessionInStep, InStep
  <2>3. Append(p, <<x, i>>)[1] = p[1] /\ Len(Append(p, <<x, i>>)) = Len(p) + 1
        /\ Append(p, <<x, i>>)[Len(p) + 1] = <<x, i>>
    BY <2>2, <1>0
  <2>4. /\ Append(p, <<x, i>>) = Whole(y)
        /\ Whole(y)[1] = <<y, 1>> /\ Whole(y)[Len(Whole(y))] = <<y, Frames[y]>>
    BY <1>1, <2>1, WholeProperties
  <2>5. y = x /\ p[1] = <<x, 1>>
    BY <2>3, <2>4
  <2>6. begun[k] = x
    BY <2>1, <2>5, <1>0 DEF BegunOK
  <2>7. QED
    BY <1>0, <1>1, <2>1, <2>4, <2>5, <2>6 DEF Checked, Arrive
<1>4. QED
  BY <1>0, <1>2, <1>3
  DEF Receiver!ProcessFrame, Receiver!StartTransfer, Receiver!Orphan,
      Receiver!ToggleMismatch, Receiver!MiddleFrame

(* What Got says of a transfer returned whole.                             *)
WholeIsGot ==
  \A x \in Checked : out = [key |-> KeyOf[x], payload |-> Whole(x)] /\ out # None => Got = x

LEMMA GotOfWhole == WholeIsGot
<1> SUFFICES ASSUME NEW x \in Checked, out = [key |-> KeyOf[x], payload |-> Whole(x)], out # None
             PROVE  Got = x
  BY DEF WholeIsGot
<1>1. x \in Transfer /\ IdealCrc(out.key, out.payload) /\ out.key \in Registered
  BY DEF IdealCrc, Checked
<1>2. Got = CHOOSE y \in Transfer : KeyOf[y] = out.key /\ out.payload = Whole(y)
  BY <1>1 DEF Got
<1>3. Got \in Transfer /\ Whole(x) = Whole(Got)
  BY <1>1, <1>2
<1>4. Whole(x)[1] = <<x, 1>> /\ Whole(Got)[1] = <<Got, 1>>
  BY <1>1, <1>3, WholeProperties
<1>5. QED
  BY <1>3, <1>4

(* The service sees a frame as the start of a transfer, as the end of one, *)
(* or not at all.                                                          *)
LEMMA ServiceArrive ==
  ASSUME LinkInv, LinkInv', NEW x \in Transfer, NEW i \in 1 .. Frames[x], Arrive(x, i)
  PROVE  Service!Next
<1> DEFINE k == KeyOf[x]
<1>1. /\ Offered' = Offered /\ k \in Key /\ Frames[x] \in Nat \ {0} /\ i \in Nat \ {0}
      /\ Registered \subseteq Key
      /\ begun \in [Key -> Transfer \cup {None}]
      /\ begun' = IF Frames[x] = 1 THEN begun
                  ELSE [begun EXCEPT ![k] = IF i = 1 THEN x ELSE IF out' # None THEN None ELSE @]
  BY FrameType, LinkAssumption DEF Arrive, Offered, LinkInv, BegunOK
<1>2. ASSUME out' # None, out'.key \in Registered
      PROVE  Service!Next
  <2>1. /\ x \in Checked /\ sent[x] = Frames[x]
        /\ out' = [key |-> k, payload |-> Whole(x)]
        /\ Frames[x] # 1 => i # 1 /\ begun[k] = x
    BY <1>2, ArriveYields
  <2>2. Got' = x
    <3>1. (out = [key |-> KeyOf[x], payload |-> Whole(x)] /\ out # None)'
      BY <1>2, <2>1 DEF Whole
    <3>2. WholeIsGot'
      BY GotOfWhole, PTL
    <3>3. QED
      BY <3>1, <3>2, <2>1 DEF Checked, WholeIsGot
  <2>3. x \in Offered
    BY <2>1 DEF Offered
  <2>4. CASE Frames[x] = 1
    <3>1. Begun' = Begun /\ x \in InOneFrame
      BY <2>4, <1>1, <2>1 DEF Begun, InOneFrame
    <3>2. QED
      BY <3>1, <1>1, <2>1, <2>2, <2>3 DEF Service!Next, Service!Deliver
  <2>5. CASE Frames[x] # 1
    <3>1. k \in Registered /\ x \notin InOneFrame
      BY <2>5, <2>1 DEF Checked, InOneFrame
    <3>2. begun' = [begun EXCEPT ![k] = None]
      BY <2>5, <1>1, <1>2, <2>1
    <3>3. Begun[k] = x /\ Begun' = [Begun EXCEPT ![k] = None]
      BY <2>5, <3>1, <3>2, <1>1, <2>1 DEF Begun
    <3>4. QED
      BY <3>1, <3>3, <1>1, <2>1, <2>2, <2>3 DEF Service!Next, Service!Deliver
  <2>6. QED
    BY <2>4, <2>5
<1>3. ASSUME ~(out' # None /\ out'.key \in Registered)
      PROVE  Service!Next
  <2>1. Got' = None
    BY <1>3 DEF Got
  <2>2. CASE Frames[x] = 1 \/ k \notin Registered
    <3>1. Begun' = Begun
      BY <2>2, <1>1 DEF Begun
    <3>2. QED
      BY <3>1, <2>1, <1>1 DEF Service!Next, Service!Quiet
  <2>3. CASE Frames[x] # 1 /\ k \in Registered /\ i = 1
    <3>1. x \in Checked /\ x \notin InOneFrame
      BY <2>3 DEF Checked, InOneFrame
    <3>2. Begun' = [Begun EXCEPT ![k] = x]
      BY <2>3, <1>1 DEF Begun
    <3>3. QED
      BY <3>1, <3>2, <2>1, <1>1 DEF Service!Next, Service!Begin
  <2>4. CASE Frames[x] # 1 /\ k \in Registered /\ i # 1
    <3>1. out' = None
      <4>1. out' # None => out'.key = k
        BY FrameType
        DEF Arrive, FrameOf, Receiver!ProcessFrame, Receiver!SingleFrame,
            Receiver!StartTransfer, Receiver!Orphan, Receiver!ToggleMismatch,
            Receiver!MiddleFrame, Receiver!LastFrame, Receiver!Verdict, Receiver!Return
      <4>2. QED
        BY <4>1, <1>3, <2>4
    <3>2. Begun' = Begun
      BY <3>1, <2>4, <1>1 DEF Begun
    <3>3. QED
      BY <3>2, <2>1, <1>1 DEF Service!Next, Service!Quiet
  <2>5. QED
    BY <2>2, <2>3, <2>4
<1>4. QED
  BY <1>2, <1>3

(* Each step of the link is a step of the service, or none.                *)
LEMMA ServiceStep ==
  ASSUME LinkInv, LinkInv', [LinkNext]_lvars
  PROVE  [Service!Next]_<<Offered, Begun, Got>>
<1>1. ASSUME NEW x \in Transfer, Send(x)
      PROVE  [Service!Next]_<<Offered, Begun, Got>>
  <2>1. /\ out' = out /\ begun' = begun
        /\ sent \in [Transfer -> Nat] /\ Frames[x] \in Nat
        /\ sent' = [sent EXCEPT ![x] = @ + 1] /\ sent[x] < Frames[x]
    BY LinkAssumption, <1>1 DEF Send, LinkInv, SentOK, LinkAssumption
  <2>2. Got' = Got /\ Begun' = Begun
    BY <2>1 DEF Got, Begun, IdealCrc, Whole
  <2>3. x \notin Offered /\ \A y \in Transfer : y # x => (y \in Offered' <=> y \in Offered)
    BY <2>1 DEF Offered, Checked
  <2>4. Offered \subseteq Checked /\ Offered' \subseteq Checked /\ Checked \subseteq Transfer
    BY DEF Offered, Checked
  <2>5. Offered' = Offered \/ (x \in Checked /\ Offered' = Offered \cup {x})
    BY <2>3, <2>4
  <2>6. QED
    BY <2>2, <2>5 DEF Service!Next, Service!Offer
<1>2. ASSUME UNCHANGED <<sent, begun>>
      PROVE  Offered' = Offered /\ Begun' = Begun
  BY <1>2 DEF Offered, Begun
<1>3. CASE Receiver!EmptyFrame /\ UNCHANGED <<sent, begun>>
  <2>1. Got' = None
    BY <1>3 DEF Receiver!EmptyFrame, Got
  <2>2. QED
    BY <2>1, <1>2, <1>3 DEF Service!Next, Service!Quiet
<1>4. CASE UNCHANGED <<out, sent, begun>>
  BY <1>2, <1>4 DEF Got, IdealCrc, Whole
<1>5. QED
  BY <1>1, <1>3, <1>4, ServiceArrive DEF LinkNext, lvars, Receiver!Advance

(* The reassembler behind a faulty bus implements the service that yields  *)
(* only whole transfers their senders have finished sending, and each of   *)
(* several frames once for every time it begins (process_frame).           *)
THEOREM LinkImplementsService ==
  LinkSpec => ImplementsService
<1>1. LinkInit => Service!Init
  <2> SUFFICES ASSUME LinkInit PROVE Service!Init
    OBVIOUS
  <2>1. Offered = {}
    BY LinkAssumption DEF LinkInit, Offered, Checked, LinkAssumption
  <2>2. Begun = [k \in Registered |-> None]
    BY LinkAssumption DEF LinkInit, Begun, LinkAssumption
  <2>3. Got = None
    BY DEF LinkInit, Receiver!Init, Got
  <2>4. QED
    BY <2>1, <2>2, <2>3 DEF Service!Init
<1>2. LinkInv /\ LinkInv' /\ [LinkNext]_lvars => [Service!Next]_<<Offered, Begun, Got>>
  BY ServiceStep
<1>3. QED
  BY <1>1, <1>2, LinkInvariant, PTL
  DEF LinkSpec, ImplementsService, Service!Spec, Service!svars
=============================================================================
