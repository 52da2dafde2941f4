--------------------------- MODULE KeyboardProofs ---------------------------
(* Proofs about Keyboard: its types, the agreement of the keyboard with its   *)
(* endpoint, that it implements Typist, that keys are typed in their case,    *)
(* that nothing stays held down, that the banks are counted, and that a       *)
(* prompt host types the text exactly, for every set of keys and every text.  *)
EXTENDS Keyboard, FiniteSetTheorems, TLAPS

USE DEF BANKS, BANK_RANGE, REPORT_SLOTS, POLLS_PER_DELAY

-----------------------------------------------------------------------------
(* Types.  A change of one field that is no Boolean at a time.                *)

LEMMA FifoType ==
  ASSUME NEW d \in Devices, NEW f \in Seq(Reports)
  PROVE  [d EXCEPT !.fifo = f] \in Devices
  BY DEF Devices

LEMMA BankType ==
  ASSUME NEW d \in Devices, NEW b \in 0..3
  PROVE  [d EXCEPT !.bank = b] \in Devices
  BY DEF Devices

LEMMA KeysType ==
  ASSUME NEW d \in Devices, NEW k \in SUBSET KEYS
  PROVE  [d EXCEPT !.keys = k] \in Devices
  BY DEF Devices

LEMMA NoType ==
  ASSUME NEW d \in Devices, NEW n \in Nat
  PROVE  [d EXCEPT !.no = n] \in Devices
  BY DEF Devices

LEMMA ResetType ==
  ASSUME NEW d \in Devices
  PROVE  [d EXCEPT !.enabled = FALSE, !.ready = FALSE,
                   !.complete = FALSE, !.stall = FALSE, !.irq = FALSE] \in Devices
  <1> DEFINE e == [d EXCEPT !.enabled = FALSE, !.ready = FALSE]
             g == [e EXCEPT !.complete = FALSE, !.stall = FALSE]
             h == [g EXCEPT !.irq = FALSE]
  <1>1. e \in Devices
    BY DEF Devices
  <1>2. h = [d EXCEPT !.enabled = FALSE, !.ready = FALSE,
                      !.complete = FALSE, !.stall = FALSE, !.irq = FALSE]
    OBVIOUS
  <1> HIDE DEF e
  <1>3. g \in Devices
    BY <1>1 DEF Devices
  <1> HIDE DEF g
  <1>4. h \in Devices
    BY <1>3 DEF Devices
  <1> QED BY <1>2, <1>4

LEMMA EmptySequence == <<>> \in Seq(Reports)
  OBVIOUS

LEMMA LoadedType ==
  ASSUME NEW d \in Devices, NEW f \in Seq(Reports), NEW b \in 0..3,
         NEW r \in BOOLEAN
  PROVE  [d EXCEPT !.fifo = f, !.bank = b, !.left = FALSE, !.bufEnd = TRUE,
                   !.ready = r] \in Devices
  <1> DEFINE e == [d EXCEPT !.fifo = f]
             g == [e EXCEPT !.bank = b]
             h == [g EXCEPT !.left = FALSE, !.bufEnd = TRUE, !.ready = r]
  <1>1. e \in Devices
    BY FifoType
  <1>2. g \in Devices
    BY <1>1, BankType
  <1> HIDE DEF g
  <1>3. h \in Devices
    BY <1>2 DEF Devices
  <1>4. [d EXCEPT !.fifo = f, !.bank = b, !.left = FALSE, !.bufEnd = TRUE,
                  !.ready = r] = h
    BY DEF g
  <1> QED BY <1>3, <1>4

LEMMA EpInSentType ==
  ASSUME NEW d \in Devices, NEW t \in BOOLEAN
  PROVE  EpInSent(d, t) \in Devices
  <1>1. Append(d.fifo, d.trans) \in Seq(Reports)
    BY DEF Devices
  <1> DEFINE r == IF t THEN TRUE ELSE d.ready
  <1>2. r \in BOOLEAN
    BY DEF Devices
  <1>3. CASE d.bank >= BANKS \/ ~d.left
    BY <1>3 DEF EpInSent
  <1>4. CASE ~(d.bank >= BANKS \/ ~d.left)
    <2> DEFINE f == Append(d.fifo, d.trans)
               b == d.bank + 1
    <2>1. b \in 0..3
      BY <1>4 DEF Devices
    <2>2. EpInSent(d, t) = [d EXCEPT !.fifo = f, !.bank = b, !.left = FALSE,
                                     !.bufEnd = TRUE, !.ready = r]
      BY <1>4 DEF EpInSent
    <2> HIDE DEF f, b, r
    <2>3. f \in Seq(Reports)
      BY <1>1 DEF f
    <2>4. [d EXCEPT !.fifo = f, !.bank = b, !.left = FALSE, !.bufEnd = TRUE,
                    !.ready = r] \in Devices
      BY <1>2, <2>1, <2>3, LoadedType, Zenon
    <2> QED BY <2>2, <2>4, Zenon
  <1> QED BY <1>3, <1>4

LEMMA EpRunType ==
  ASSUME NEW d \in Devices
  PROVE  EpRun(d) \in Devices
  <1> DEFINE job == [d EXCEPT !.busy = TRUE, !.left = TRUE, !.bufEnd = FALSE,
                              !.irq = TRUE]
  <1>1. job \in Devices
    BY DEF Devices
  <1> HIDE DEF job
  <1>2. EpInSent(job, TRUE) \in Devices
    BY <1>1, EpInSentType
  <1> QED BY <1>1, <1>2 DEF EpRun, job

LEMMA SendReportType ==
  ASSUME NEW d \in Devices
  PROVE  SendReport(d) \in Devices
  <1> DEFINE taken == [d EXCEPT !.trans = Report(d), !.valid = FALSE]
  <1>1. Report(d) \in Reports
    BY DEF Report, Reports, Devices
  <1>2. taken \in Devices
    BY <1>1 DEF Devices
  <1> HIDE DEF taken
  <1>3. [taken EXCEPT !.lost = TRUE] \in Devices
    BY <1>2 DEF Devices
  <1>4. EpRun(taken) \in Devices
    BY <1>2, EpRunType
  <1>5. [EpRun(taken) EXCEPT !.ongoing = TRUE] \in Devices
    BY <1>4 DEF Devices
  <1> QED BY <1>2, <1>3, <1>5 DEF SendReport, taken

LEMMA FinishJobType ==
  ASSUME NEW d \in Devices
  PROVE  FinishJob(d) \in Devices
  <1> DEFINE e == [d EXCEPT !.busy = FALSE]
             idle == [e EXCEPT !.ongoing = FALSE]
  <1>1. e \in Devices
    BY DEF Devices
  <1> HIDE DEF e
  <1>2. idle \in Devices
    BY <1>1 DEF Devices
  <1> HIDE DEF idle
  <1>3. SendReport(idle) \in Devices
    BY <1>2, SendReportType
  <1>4. ReportSent(e) \in Devices
    BY <1>2, <1>3 DEF ReportSent, idle
  <1> QED BY <1>4 DEF FinishJob, e

LEMMA AbortJobType ==
  ASSUME NEW d \in Devices
  PROVE  AbortJob(d) \in Devices
  <1>1. (d.lost \/ d.busy) \in BOOLEAN
    OBVIOUS
  <1>2. [d EXCEPT !.lost = d.lost \/ d.busy] \in Devices
    BY <1>1 DEF Devices
  <1> QED BY <1>2, FinishJobType DEF AbortJob

LEMMA AfterSentType ==
  ASSUME NEW d \in Devices
  PROVE  OneBankLess(d) \in Devices /\ AfterSent(d) \in Devices
  <1> DEFINE n == (d.bank + BANK_RANGE - 1) % BANK_RANGE
  <1>1. n \in 0..3
    BY DEF Devices
  <1>2. OneBankLess(d) \in Devices
    <2>1. OneBankLess(d) = [d EXCEPT !.bank = n]
      BY DEF OneBankLess
    <2> HIDE DEF n
    <2> QED BY <1>1, <2>1, BankType
  <1> DEFINE b == OneBankLess(d)
             e == [b EXCEPT !.bufEnd = FALSE, !.left = FALSE]
  <1> HIDE DEF b
  <1>3. e \in Devices
    BY <1>2 DEF Devices, b
  <1> HIDE DEF e
  <1>4. FinishJob(e) \in Devices
    BY <1>3, FinishJobType
  <1> QED BY <1>2, <1>4 DEF AfterSent, b, e

LEMMA EpFreeType ==
  ASSUME NEW d \in Devices
  PROVE  EpFree(d) \in Devices
  <1>1. [d EXCEPT !.enabled = FALSE] \in Devices
    BY DEF Devices
  <1> QED BY <1>1, AbortJobType DEF EpFree

LEMMA EpAllocType ==
  ASSUME NEW d \in Devices, NEW keep \in BOOLEAN
  PROVE  EpAlloc(d, keep) \in Devices
  <1> DEFINE e == [d EXCEPT !.bank = 0]
             g == [e EXCEPT !.bufEnd = FALSE, !.stallRequested = FALSE]
             h == [g EXCEPT !.fifo = <<>>]
             r == IF keep THEN d.ready ELSE FALSE
             c == IF keep THEN d.complete ELSE FALSE
             i == [h EXCEPT !.enabled = TRUE, !.ready = r, !.complete = c]
             lo == d.lost \/ d.fifo # <<>>
             to == d.torn \/ d.ready \/ d.complete
             j == [i EXCEPT !.lost = lo]
             k == [j EXCEPT !.torn = to]
  <1>1. e \in Devices
    <2>1. 0 \in 0..3
      OBVIOUS
    <2> QED BY <2>1, BankType
  <1> HIDE DEF e
  <1>2. g \in Devices
    BY <1>1 DEF Devices
  <1> HIDE DEF g
  <1>3. h \in Devices
    BY <1>2, FifoType, EmptySequence
  <1> HIDE DEF h
  <1>4. r \in BOOLEAN /\ c \in BOOLEAN
    BY DEF Devices
  <1> HIDE DEF r, c
  <1>5. i \in Devices
    BY <1>3, <1>4 DEF Devices
  <1> HIDE DEF i
  <1>6. lo \in BOOLEAN /\ to \in BOOLEAN
    OBVIOUS
  <1> HIDE DEF lo, to
  <1>7. j \in Devices
    BY <1>5, <1>6 DEF Devices
  <1> HIDE DEF j
  <1>8. k \in Devices
    BY <1>6, <1>7 DEF Devices
  <1>9. EpAlloc(d, keep) = k
    BY DEF EpAlloc, e, g, h, i, r, c, lo, to, j
  <1> QED BY <1>8, <1>9

LEMMA HidEnableType ==
  ASSUME NEW d \in Devices
  PROVE  HidEnable(d) \in Devices
  <1> DEFINE e == [d EXCEPT !.ongoing = FALSE, !.shift = FALSE]
             g == [e EXCEPT !.keys = {}]
             lo == d.lost \/ d.shift \/ d.keys # {}
             h == [g EXCEPT !.valid = FALSE, !.lost = lo]
  <1>1. e \in Devices
    BY DEF Devices
  <1> HIDE DEF e
  <1>2. g \in Devices
    BY <1>1, KeysType
  <1> HIDE DEF g
  <1>3. lo \in BOOLEAN
    OBVIOUS
  <1> HIDE DEF lo
  <1>4. h \in Devices
    BY <1>2, <1>3 DEF Devices
  <1>5. HidEnable(d) = h
    BY DEF HidEnable, e, g, lo
  <1> QED BY <1>4, <1>5

LEMMA EpAbortType ==
  ASSUME NEW d \in Devices
  PROVE  EpAbort(d) \in Devices
  <1> DEFINE e == [d EXCEPT !.irq = FALSE, !.ready = FALSE, !.complete = FALSE]
             g == [e EXCEPT !.bank = 0]
             h == [g EXCEPT !.lost = d.lost \/ d.fifo # <<>>]
             i == [h EXCEPT !.fifo = <<>>]
  <1>1. e \in Devices
    BY DEF Devices
  <1> HIDE DEF e
  <1>2. g \in Devices
    <2>1. 0 \in 0..3
      OBVIOUS
    <2> QED BY <1>1, <2>1, BankType
  <1> HIDE DEF g
  <1>3. (d.lost \/ d.fifo # <<>>) \in BOOLEAN
    OBVIOUS
  <1>4. h \in Devices
    BY <1>2, <1>3 DEF Devices
  <1> HIDE DEF h
  <1>5. i \in Devices
    BY <1>4, FifoType, EmptySequence
  <1>6. EpAbort(d) = AbortJob(i)
    BY DEF EpAbort, e, g, h
  <1> QED BY <1>5, <1>6, AbortJobType

LEMMA StepType ==
  ASSUME TypeOK, [Next]_vars
  PROVE  TypeOK'
  <1> USE DEF TypeOK
  <1>1. CASE UNCHANGED vars
    BY <1>1 DEF vars
  <1>2. ASSUME NEW text \in Texts(MAX_CHARS), LongPress(text)
        PROVE  TypeOK'
    <2>1. text \in Seq(Chars)
      BY BoundsAssumption DEF Texts
    <2> QED BY <1>2, <2>1 DEF LongPress
  <1>3. CASE SkipUnmapped
    BY <1>3 DEF SkipUnmapped
  <1>4. ASSUME NEW c \in Chars, NEW call, NEW next \in
          {"modifier_down", "down", "up", "modifier_up"}, Call(call, next, c)
        PROVE  /\ bus' \in {"default", "address", "configured"}
               /\ step' \in {"modifier_down", "down", "up", "modifier_up"}
               /\ prompt' \in BOOLEAN /\ polls' \in 0..POLLS_PER_DELAY
               /\ host' \in Reports /\ events' \in 0..MAX_EVENTS
               /\ typed' \in Seq([key : KEYS, shift : BOOLEAN, no : Nat])
               /\ c \in [key : KEYS, shift : BOOLEAN]
               /\ Tail(todo) \in Seq(Chars)
    BY <1>4 DEF Call, Chars
  <1>5. CASE ModifierDown
    <2> PICK c \in Chars :
          /\ Call("modifier_down", "down", c)
          /\ dev' = SendReport([dev EXCEPT !.shift = @ \/ c.shift,
                                           !.valid = TRUE])
          /\ UNCHANGED <<todo, sent>>
      BY <1>5 DEF ModifierDown
    <2>1. (dev.shift \/ c.shift) \in BOOLEAN
      OBVIOUS
    <2>2. [dev EXCEPT !.shift = dev.shift \/ c.shift, !.valid = TRUE] \in Devices
      BY <2>1 DEF Devices
    <2>3. dev' \in Devices
      BY <2>2, SendReportType
    <2> QED BY <1>4, <2>3
  <1>6. CASE Down
    <2> PICK c \in Chars :
          /\ Call("down", "up", c)
          /\ \/ UNCHANGED <<dev, sent>>
             \/ /\ dev' = SendReport([dev EXCEPT !.keys = @ \cup {c.key},
                                        !.no = @ + 1, !.valid = TRUE])
                /\ sent' = Append(sent, c)
          /\ UNCHANGED todo
      BY <1>6 DEF Down
    <2> DEFINE d1 == [dev EXCEPT !.keys = dev.keys \cup {c.key}]
               d2 == [d1 EXCEPT !.no = dev.no + 1]
               d3 == [d2 EXCEPT !.valid = TRUE]
    <2>1. d1 \in Devices
      <3>1. dev.keys \cup {c.key} \in SUBSET KEYS
        BY <1>4 DEF Devices
      <3> QED BY <3>1, KeysType
    <2> HIDE DEF d1
    <2>2. d2 \in Devices
      <3>1. dev.no + 1 \in Nat
        BY DEF Devices
      <3> QED BY <2>1, <3>1, NoType
    <2> HIDE DEF d2
    <2>3. d3 \in Devices
      BY <2>2 DEF Devices
    <2>4. SendReport(d3) \in Devices
      BY <2>3, SendReportType
    <2>5. dev' \in Devices
      BY <2>4 DEF d1, d2
    <2>6. sent' \in Seq(Chars)
      <3>1. Append(sent, c) \in Seq(Chars)
        OBVIOUS
      <3>2. sent' = sent \/ sent' = Append(sent, c)
        OBVIOUS
      <3> QED BY <3>1, <3>2
    <2> QED BY <1>4, <2>5, <2>6
  <1>7. CASE Up
    <2> PICK c \in Chars :
          /\ Call("up", "modifier_up", c)
          /\ dev' = IF c.key \in dev.keys
                    THEN SendReport([dev EXCEPT !.keys = @ \ {c.key},
                                                !.valid = TRUE])
                    ELSE dev
          /\ UNCHANGED <<todo, sent>>
      BY <1>7 DEF Up
    <2> DEFINE d1 == [dev EXCEPT !.keys = dev.keys \ {c.key}]
               d2 == [d1 EXCEPT !.valid = TRUE]
    <2>1. d1 \in Devices
      <3>1. dev.keys \ {c.key} \in SUBSET KEYS
        BY DEF Devices
      <3> QED BY <3>1, KeysType
    <2> HIDE DEF d1
    <2>2. d2 \in Devices
      BY <2>1 DEF Devices
    <2>3. SendReport(d2) \in Devices
      BY <2>2, SendReportType
    <2>4. dev' \in Devices
      BY <2>3 DEF d1
    <2> QED BY <1>4, <2>4
  <1>8. CASE ModifierUp
    <2> PICK c \in Chars :
          /\ Call("modifier_up", "modifier_down", c)
          /\ dev' = SendReport([dev EXCEPT !.shift = @ /\ ~c.shift,
                                           !.valid = TRUE])
          /\ todo' = Tail(todo)
          /\ UNCHANGED sent
      BY <1>8 DEF ModifierUp
    <2> DEFINE sh == dev.shift /\ ~c.shift
               d == [dev EXCEPT !.shift = sh, !.valid = TRUE]
    <2>1. sh \in BOOLEAN
      OBVIOUS
    <2>2. dev' = SendReport(d)
      OBVIOUS
    <2> HIDE DEF sh
    <2>3. d \in Devices
      BY <2>1 DEF Devices
    <2> HIDE DEF d
    <2>4. dev' \in Devices
      BY <2>2, <2>3, SendReportType
    <2> QED BY <1>4, <2>4
  <1>9. CASE PollData
    <2> DEFINE f == IF dev.fifo = <<>> THEN dev.fifo ELSE Tail(dev.fifo)
               d1 == [dev EXCEPT !.ready = FALSE, !.complete = TRUE]
               d2 == [d1 EXCEPT !.fifo = f]
    <2>1. d1 \in Devices
      BY DEF Devices
    <2>2. dev' = d2
      BY <1>9 DEF PollData
    <2>3. f \in Seq(Reports) /\ (dev.fifo # <<>> => Head(dev.fifo) \in Reports)
      BY DEF Devices
    <2> HIDE DEF d1, f
    <2>4. dev' \in Devices
      BY <2>1, <2>2, <2>3, FifoType
    <2>5. polls' \in 0..POLLS_PER_DELAY
      BY <1>9 DEF PollData, Polled
    <2>6. host' \in Reports /\ typed' \in Seq([key : KEYS, shift : BOOLEAN, no : Nat])
      <3>1. CASE dev.fifo = <<>>
        BY <1>9, <3>1 DEF PollData
      <3>2. CASE dev.fifo # <<>>
        <4> DEFINE r == Head(dev.fifo)
        <4>1. Take(r)
          BY <1>9, <3>2 DEF PollData
        <4>2. r \in Reports
          BY <2>3, <3>2
        <4> HIDE DEF r
        <4>3. ASSUME NEW k \in r.keys
              PROVE  [key |-> k, shift |-> r.shift, no |-> r.no]
                       \in [key : KEYS, shift : BOOLEAN, no : Nat]
          BY <4>2 DEF Reports
        <4>4. host' = r
          BY <4>1 DEF Take
        <4>5. CASE UNCHANGED typed
          BY <4>2, <4>4, <4>5
        <4>6. CASE \E k \in r.keys : typed' = Append(typed,
                     [key |-> k, shift |-> r.shift, no |-> r.no])
          BY <4>2, <4>3, <4>4, <4>6
        <4> QED BY <4>1, <4>5, <4>6 DEF Take
      <3> QED BY <3>1, <3>2
    <2> QED BY <1>9, <2>4, <2>5, <2>6 DEF PollData
  <1>10. CASE PollNothing
    BY <1>10 DEF PollNothing, Polled
  <1>11. CASE HaltSent
    <2>1. OneBankLess(dev) \in Devices
      BY AfterSentType
    <2> DEFINE d == OneBankLess(dev)
    <2> HIDE DEF d
    <2>2. /\ [d EXCEPT !.ready = TRUE, !.complete = FALSE] \in Devices
          /\ [d EXCEPT !.complete = FALSE, !.stall = TRUE,
                       !.stallRequested = FALSE] \in Devices
      BY <2>1 DEF Devices, d
    <2> QED BY <1>11, <2>2 DEF HaltSent, Interrupt, d
  <1> DEFINE a == AfterSent(dev)
  <1>12. a \in Devices
    BY AfterSentType
  <1> HIDE DEF a
  <1>13. CASE AllSent
    <2>1. [a EXCEPT !.irq = FALSE, !.complete = FALSE] \in Devices
      BY <1>12 DEF Devices
    <2> QED BY <1>13, <2>1 DEF AllSent, Interrupt, a
  <1>14. CASE NextBank
    <2>1. [a EXCEPT !.ready = TRUE, !.complete = FALSE] \in Devices
      BY <1>12 DEF Devices
    <2>2. EpInSent([a EXCEPT !.ready = TRUE, !.complete = FALSE], FALSE) \in Devices
      BY <2>1, EpInSentType
    <2> QED BY <1>14, <2>2 DEF NextBank, Interrupt, a
  <1>15. CASE LoadAndSend
    <2> DEFINE l == EpInSent(a, TRUE)
               m == [l EXCEPT !.bufEnd = FALSE, !.left = FALSE]
               n == FinishJob(m)
               o == [n EXCEPT !.complete = FALSE]
    <2>1. l \in Devices
      BY <1>12, EpInSentType
    <2> HIDE DEF l
    <2>2. m \in Devices
      BY <2>1 DEF Devices
    <2> HIDE DEF m
    <2>3. n \in Devices
      BY <2>2, FinishJobType
    <2> HIDE DEF n
    <2>4. o \in Devices
      BY <2>3 DEF Devices
    <2> HIDE DEF o
    <2>5. EpInSent(o, FALSE) \in Devices
      BY <2>4, EpInSentType
    <2>6. dev' = EpInSent(o, FALSE)
      BY <1>15 DEF LoadAndSend, a, l, m, n, o
    <2> QED BY <1>15, <2>5, <2>6 DEF LoadAndSend, Interrupt
  <1>16. Released(host.no) \in Reports
    BY DEF Released, Reports
  <1>17. Event => events' \in 0..MAX_EVENTS
    BY BoundsAssumption DEF Event
  <1>18. CASE BusReset
    <2> DEFINE d1 == [dev EXCEPT !.enabled = FALSE, !.ready = FALSE,
                        !.complete = FALSE, !.stall = FALSE, !.irq = FALSE]
               d2 == [d1 EXCEPT !.lost = dev.lost \/ dev.fifo # <<>>]
               d3 == [d2 EXCEPT !.fifo = <<>>]
    <2>1. d1 \in Devices
      BY ResetType
    <2> HIDE DEF d1
    <2>2. (dev.lost \/ dev.fifo # <<>>) \in BOOLEAN
      OBVIOUS
    <2>3. d2 \in Devices
      BY <2>1, <2>2 DEF Devices
    <2> HIDE DEF d2
    <2>4. d3 \in Devices
      BY <2>3, FifoType, EmptySequence
    <2> HIDE DEF d3
    <2>5. dev' = AbortJob(d3)
      BY <1>18 DEF BusReset, d1, d2, d3
    <2>6. dev' \in Devices
      BY <2>4, <2>5, AbortJobType
    <2> QED BY <1>16, <1>17, <1>18, <2>6 DEF BusReset, Event
  <1>19. CASE SetAddress
    BY <1>19 DEF SetAddress
  <1>20. CASE SetConfiguration
    <2> PICK keep \in BOOLEAN : dev' = HidEnable(EpAlloc(dev, keep))
      BY <1>20 DEF SetConfiguration
    <2>1. dev' \in Devices
      BY EpAllocType, HidEnableType
    <2> QED BY <1>20, <2>1 DEF SetConfiguration
  <1>21. ASSUME NEW keep \in BOOLEAN
         PROVE  Configured(dev, keep) \in Devices
    BY EpFreeType, EpAllocType, HidEnableType DEF Configured
  <1>22. CASE SetConfigurationAgain
    BY <1>16, <1>17, <1>21, <1>22 DEF SetConfigurationAgain, Event
  <1>23. CASE Unconfigure
    BY <1>16, <1>17, <1>23, EpFreeType DEF Unconfigure, Event
  <1>24. CASE SetInterface
    BY <1>17, <1>21, <1>24 DEF SetInterface, Event
  <1>25. CASE SetHalt
    <2> DEFINE d == EpAbort(dev)
    <2>1. d \in Devices
      BY EpAbortType
    <2> HIDE DEF d
    <2>2. /\ [d EXCEPT !.stallRequested = TRUE, !.irq = TRUE] \in Devices
          /\ [d EXCEPT !.stall = TRUE, !.irq = TRUE] \in Devices
      BY <2>1 DEF Devices
    <2>3. dev' \in Devices
      BY <1>25, <2>2 DEF SetHalt, d
    <2> QED BY <1>17, <1>25, <2>3 DEF SetHalt, Event
  <1>26. CASE ClearHalt
    <2> DEFINE d == [dev EXCEPT !.stallRequested = FALSE]
               e == [d EXCEPT !.stall = FALSE]
               g == [e EXCEPT !.lost = d.lost \/ d.busy \/ d.fifo # <<>>]
               h == [g EXCEPT !.fifo = <<>>]
    <2>1. d \in Devices
      BY DEF Devices
    <2> HIDE DEF d
    <2>2. e \in Devices
      BY <2>1 DEF Devices
    <2>3. (d.lost \/ d.busy \/ d.fifo # <<>>) \in BOOLEAN
      OBVIOUS
    <2> HIDE DEF e
    <2>4. g \in Devices
      BY <2>2, <2>3 DEF Devices
    <2> HIDE DEF g
    <2>5. h \in Devices
      BY <2>4, FifoType, EmptySequence
    <2> HIDE DEF h
    <2>6. FinishJob(h) \in Devices
      BY <2>5, FinishJobType
    <2>7. dev' = IF dev.stall THEN FinishJob(h) ELSE d
      BY <1>26 DEF ClearHalt, d, e, g, h
    <2> QED BY <1>26, <2>1, <2>6, <2>7 DEF ClearHalt
  <1> QED
    BY <1>1, <1>2, <1>3, <1>5, <1>6, <1>7, <1>8, <1>9, <1>10, <1>11, <1>13,
       <1>14, <1>15, <1>18, <1>19, <1>20, <1>22, <1>23, <1>24, <1>25, <1>26
    DEF Next, SendKeys, UdpInterrupt, Host, Faults

(* Every variable keeps its type, for every set of keys.                      *)
THEOREM TypeCorrect == Spec => []TypeOK
  <1>1. Init => TypeOK
    BY BoundsAssumption DEF Init, TypeOK, Devices, Reports, Released
  <1>2. TypeOK /\ [Next]_vars => TypeOK'
    BY StepType
  <1> QED BY <1>1, <1>2, PTL DEF Spec

-----------------------------------------------------------------------------
(* The keyboard and its endpoint agree.  While a call runs they may not:      *)
(* FinishJob takes the job away before the callback clears the flag.          *)

Agree(d) == d.ongoing = d.busy /\ (d.valid => d.busy)

LEMMA EpInSentAgrees ==
  ASSUME NEW d \in Devices, NEW t \in BOOLEAN
  PROVE  LET e == EpInSent(d, t) IN
           e.ongoing = d.ongoing /\ e.busy = d.busy /\ e.valid = d.valid
  BY DEF EpInSent, Devices

LEMMA SendReportAgrees ==
  ASSUME NEW d \in Devices, d.ongoing = d.busy
  PROVE  Agree(SendReport(d))
  <1> DEFINE taken == [d EXCEPT !.trans = Report(d), !.valid = FALSE]
             job == [taken EXCEPT !.busy = TRUE, !.left = TRUE,
                                  !.bufEnd = FALSE, !.irq = TRUE]
  <1>1. Report(d) \in Reports
    BY DEF Report, Reports, Devices
  <1>2. taken \in Devices
    BY <1>1 DEF Devices
  <1>3. /\ taken.ongoing = d.ongoing /\ taken.busy = d.busy
        /\ taken.valid = FALSE
    BY DEF Devices
  <1> HIDE DEF taken
  <1>4. job \in Devices
    BY <1>2 DEF Devices
  <1>5. job.busy = TRUE /\ job.valid = FALSE
    BY <1>2, <1>3 DEF Devices
  <1> HIDE DEF job
  <1>6. EpRun(taken).busy = TRUE /\ EpRun(taken).valid = FALSE
    BY <1>4, <1>5, EpInSentAgrees DEF EpRun, job
  <1>7. EpRun(taken) \in Devices
    BY <1>2, EpRunType
  <1>8. Agree([EpRun(taken) EXCEPT !.ongoing = TRUE])
    BY <1>6, <1>7 DEF Agree, Devices
  <1>9. Agree([taken EXCEPT !.lost = TRUE])
    BY <1>2, <1>3 DEF Agree, Devices
  <1>10. d.ongoing => Agree(d)
    BY DEF Agree
  <1> QED BY <1>8, <1>9, <1>10 DEF SendReport, taken

LEMMA FinishJobAgrees ==
  ASSUME NEW d \in Devices, Agree(d)
  PROVE  Agree(FinishJob(d))
  <1> DEFINE e == [d EXCEPT !.busy = FALSE]
             idle == [e EXCEPT !.ongoing = FALSE]
  <1>1. idle \in Devices /\ idle.ongoing = FALSE /\ idle.busy = FALSE
    BY DEF Devices
  <1>2. idle.valid = d.valid /\ e.valid = d.valid
    BY DEF Devices
  <1> HIDE DEF idle, e
  <1>3. Agree(SendReport(idle))
    BY <1>1, SendReportAgrees
  <1>4. ~d.valid => Agree(idle)
    BY <1>1, <1>2 DEF Agree
  <1> QED BY <1>2, <1>3, <1>4 DEF FinishJob, ReportSent, e, idle

LEMMA AbortJobAgrees ==
  ASSUME NEW d \in Devices, Agree(d)
  PROVE  Agree(AbortJob(d)) /\ AbortJob(d) \in Devices
  <1> DEFINE e == [d EXCEPT !.lost = d.lost \/ d.busy]
  <1>1. (d.lost \/ d.busy) \in BOOLEAN
    OBVIOUS
  <1>2. e \in Devices
    BY <1>1 DEF Devices
  <1>3. Agree(e)
    BY DEF Agree, Devices
  <1> HIDE DEF e
  <1>4. AbortJob(d) = FinishJob(e)
    BY DEF AbortJob, e
  <1> QED BY <1>2, <1>3, <1>4, FinishJobAgrees, FinishJobType

LEMMA AfterSentAgrees ==
  ASSUME NEW d \in Devices, Agree(d)
  PROVE  Agree(OneBankLess(d)) /\ Agree(AfterSent(d))
  <1> DEFINE b == OneBankLess(d)
             e == [b EXCEPT !.bufEnd = FALSE, !.left = FALSE]
  <1>1. b \in Devices
    BY AfterSentType
  <1>2. Agree(b)
    BY DEF OneBankLess, Agree, Devices
  <1> HIDE DEF b
  <1>3. e \in Devices /\ Agree(e)
    BY <1>1, <1>2 DEF Agree, Devices
  <1> HIDE DEF e
  <1>4. Agree(FinishJob(e))
    BY <1>3, FinishJobAgrees
  <1> QED BY <1>2, <1>4 DEF AfterSent, b, e

(* A device that is not configured has its endpoint off and no job on it.     *)
Off(d) == d.enabled = FALSE /\ d.busy = FALSE

LEMMA SendReportOff ==
  ASSUME NEW d \in Devices, Off(d)
  PROVE  Off(SendReport(d))
  <1> DEFINE taken == [d EXCEPT !.trans = Report(d), !.valid = FALSE]
  <1>1. taken.enabled = FALSE
    BY DEF Off, Devices
  <1>2. Off([taken EXCEPT !.lost = TRUE])
    BY DEF Off, Devices
  <1>3. SendReport(d) = IF d.ongoing THEN d ELSE [taken EXCEPT !.lost = TRUE]
    BY <1>1 DEF SendReport, Refuses
  <1> HIDE DEF taken
  <1> QED BY <1>2, <1>3

LEMMA FinishJobOff ==
  ASSUME NEW d \in Devices, d.enabled = FALSE
  PROVE  Off(FinishJob(d))
  <1> DEFINE e == [d EXCEPT !.busy = FALSE]
             idle == [e EXCEPT !.ongoing = FALSE]
  <1>1. idle \in Devices /\ Off(idle)
    BY DEF Off, Devices
  <1>2. FinishJob(d) = IF d.busy THEN IF e.valid THEN SendReport(idle) ELSE idle
                       ELSE d
    BY DEF FinishJob, ReportSent
  <1>3. d.busy \in BOOLEAN
    BY DEF Devices
  <1> HIDE DEF e, idle
  <1>4. Off(SendReport(idle))
    BY <1>1, SendReportOff
  <1> QED BY <1>1, <1>2, <1>3, <1>4 DEF Off

LEMMA AbortJobOff ==
  ASSUME NEW d \in Devices, d.enabled = FALSE
  PROVE  Off(AbortJob(d))
  <1> DEFINE e == [d EXCEPT !.lost = d.lost \/ d.busy]
  <1>1. (d.lost \/ d.busy) \in BOOLEAN
    OBVIOUS
  <1>2. e \in Devices /\ e.enabled = FALSE
    BY <1>1 DEF Devices
  <1>3. AbortJob(d) = FinishJob(e)
    BY DEF AbortJob
  <1> HIDE DEF e
  <1> QED BY <1>2, <1>3, FinishJobOff

LEMMA EpFreeOff ==
  ASSUME NEW d \in Devices, Agree(d)
  PROVE  Agree(EpFree(d)) /\ Off(EpFree(d))
  <1> DEFINE e == [d EXCEPT !.enabled = FALSE]
  <1>1. e \in Devices /\ Agree(e) /\ e.enabled = FALSE
    BY DEF Agree, Devices
  <1>2. EpFree(d) = AbortJob(e)
    BY DEF EpFree
  <1> HIDE DEF e
  <1> QED BY <1>1, <1>2, AbortJobAgrees, AbortJobOff

LEMMA AllocAgrees ==
  ASSUME NEW d \in Devices, NEW keep \in BOOLEAN, d.busy = FALSE
  PROVE  Agree(HidEnable(EpAlloc(d, keep)))
  <1> DEFINE e == EpAlloc(d, keep)
             g == HidEnable(e)
  <1>1. e \in Devices
    BY EpAllocType
  <1>2. e.busy = FALSE
    BY DEF EpAlloc, Devices
  <1> HIDE DEF e
  <1>3. g.ongoing = FALSE /\ g.valid = FALSE /\ g.busy = FALSE
    BY <1>1, <1>2 DEF HidEnable, Devices
  <1> HIDE DEF g
  <1>4. Agree(g)
    BY <1>3 DEF Agree
  <1> QED BY <1>4 DEF e, g

Together == Agree(dev) /\ (bus # "configured" => Off(dev))

(* A call of send_keys changes the report and sends it.                       *)
LEMMA CallAgrees ==
  ASSUME NEW d \in Devices, NEW e \in Devices, Agree(d),
         e.ongoing = d.ongoing, e.busy = d.busy, e.enabled = d.enabled
  PROVE  Agree(SendReport(e)) /\ (Off(d) => Off(SendReport(e)))
  <1>1. e.ongoing = e.busy
    BY DEF Agree
  <1>2. Off(d) => Off(e)
    BY DEF Off
  <1> QED BY <1>1, <1>2, SendReportAgrees, SendReportOff

LEMMA StepAgrees ==
  ASSUME TypeOK, TypeOK', Together, [Next]_vars
  PROVE  Together'
  <1> dev \in Devices /\ dev' \in Devices
    BY DEF TypeOK
  <1> USE DEF Together
  <1>1. CASE UNCHANGED vars
    BY <1>1 DEF vars
  <1>2. ASSUME NEW text \in Texts(MAX_CHARS), LongPress(text)
        PROVE  Together'
    BY <1>2 DEF LongPress
  <1>3. CASE SkipUnmapped
    BY <1>3 DEF SkipUnmapped
  <1>4. ASSUME NEW call, NEW next, NEW c, Call(call, next, c)
        PROVE  bus' = bus
    BY <1>4 DEF Call
  <1>5. CASE ModifierDown
    <2> PICK c \in Chars :
          /\ Call("modifier_down", "down", c)
          /\ dev' = SendReport([dev EXCEPT !.shift = @ \/ c.shift,
                                           !.valid = TRUE])
      BY <1>5 DEF ModifierDown
    <2> DEFINE sh == dev.shift \/ c.shift
               e == [dev EXCEPT !.shift = sh, !.valid = TRUE]
    <2>1. sh \in BOOLEAN /\ dev' = SendReport(e)
      OBVIOUS
    <2> HIDE DEF sh
    <2>2. /\ e \in Devices /\ e.ongoing = dev.ongoing
          /\ e.busy = dev.busy /\ e.enabled = dev.enabled
      BY <2>1 DEF Devices
    <2> HIDE DEF e
    <2> QED BY <1>4, <2>1, <2>2, CallAgrees
  <1>6. CASE Down
    <2> PICK c \in Chars :
          /\ Call("down", "up", c)
          /\ \/ UNCHANGED <<dev, sent>>
             \/ dev' = SendReport([dev EXCEPT !.keys = @ \cup {c.key},
                                     !.no = @ + 1, !.valid = TRUE])
      BY <1>6 DEF Down
    <2> DEFINE d1 == [dev EXCEPT !.keys = dev.keys \cup {c.key}]
               d2 == [d1 EXCEPT !.no = dev.no + 1]
               e == [d2 EXCEPT !.valid = TRUE]
    <2>1. CASE UNCHANGED dev
      BY <1>4, <2>1
    <2>2. CASE dev' = SendReport(e)
      <3>1. c.key \in KEYS
        BY DEF Call, Chars, TypeOK
      <3>2. dev.keys \cup {c.key} \in SUBSET KEYS
        BY <3>1 DEF Devices
      <3>3. dev.no + 1 \in Nat
        BY DEF Devices
      <3>4. d2 \in Devices
        BY <3>2, <3>3, KeysType, NoType
      <3>5. /\ e.ongoing = dev.ongoing
            /\ e.busy = dev.busy /\ e.enabled = dev.enabled
        BY DEF Devices
      <3> HIDE DEF d2
      <3>6. e \in Devices
        BY <3>4 DEF Devices
      <3> HIDE DEF e
      <3> QED BY <1>4, <2>2, <3>5, <3>6, CallAgrees
    <2> QED BY <2>1, <2>2
  <1>7. CASE Up
    <2> PICK c \in Chars :
          /\ Call("up", "modifier_up", c)
          /\ dev' = IF c.key \in dev.keys
                    THEN SendReport([dev EXCEPT !.keys = @ \ {c.key},
                                                !.valid = TRUE])
                    ELSE dev
      BY <1>7 DEF Up
    <2> DEFINE d1 == [dev EXCEPT !.keys = dev.keys \ {c.key}]
               e == [d1 EXCEPT !.valid = TRUE]
    <2>1. d1 \in Devices
      <3>1. dev.keys \ {c.key} \in SUBSET KEYS
        BY DEF Devices
      <3> QED BY <3>1, KeysType
    <2>2. /\ e.ongoing = dev.ongoing
          /\ e.busy = dev.busy /\ e.enabled = dev.enabled
      BY DEF Devices
    <2>3. dev' = SendReport(e) \/ dev' = dev
      OBVIOUS
    <2> HIDE DEF d1
    <2>4. e \in Devices
      BY <2>1 DEF Devices
    <2> HIDE DEF e
    <2> QED BY <1>4, <2>2, <2>3, <2>4, CallAgrees
  <1>8. CASE ModifierUp
    <2> PICK c \in Chars :
          /\ Call("modifier_up", "modifier_down", c)
          /\ dev' = SendReport([dev EXCEPT !.shift = @ /\ ~c.shift,
                                           !.valid = TRUE])
      BY <1>8 DEF ModifierUp
    <2> DEFINE sh == dev.shift /\ ~c.shift
               e == [dev EXCEPT !.shift = sh, !.valid = TRUE]
    <2>1. sh \in BOOLEAN /\ dev' = SendReport(e)
      OBVIOUS
    <2> HIDE DEF sh
    <2>2. /\ e \in Devices /\ e.ongoing = dev.ongoing
          /\ e.busy = dev.busy /\ e.enabled = dev.enabled
      BY <2>1 DEF Devices
    <2> HIDE DEF e
    <2> QED BY <1>4, <2>1, <2>2, CallAgrees
  <1>9. CASE PollData
    BY <1>9 DEF PollData, CanPoll, Agree, Devices
  <1>10. CASE PollNothing
    BY <1>10 DEF PollNothing
  <1>11. CASE HaltSent
    <2> DEFINE d == OneBankLess(dev)
    <2>1. d \in Devices /\ Agree(d) /\ d.busy = dev.busy /\ d.enabled = dev.enabled
      BY AfterSentType, AfterSentAgrees DEF OneBankLess, Devices
    <2> HIDE DEF d
    <2>2. /\ Agree(dev')
          /\ dev'.enabled = d.enabled /\ dev'.busy = d.busy
      BY <1>11, <2>1 DEF HaltSent, Agree, Devices, d
    <2> QED BY <1>11, <2>1, <2>2 DEF HaltSent, Interrupt, Off
  <1> DEFINE a == AfterSent(dev)
  <1>12. a \in Devices /\ Agree(a) /\ (Off(dev) => Off(a))
    <2> DEFINE b == OneBankLess(dev)
               e == [b EXCEPT !.bufEnd = FALSE, !.left = FALSE]
    <2>1. b \in Devices /\ b.enabled = dev.enabled /\ b.busy = dev.busy
      BY AfterSentType DEF OneBankLess, Devices
    <2> HIDE DEF b
    <2>2. e \in Devices /\ e.enabled = b.enabled
      BY <2>1 DEF Devices
    <2>3. Off(dev) => Off(a)
      BY <2>1, <2>2, FinishJobOff DEF AfterSent, Off, b
    <2> QED BY <2>3, AfterSentType, AfterSentAgrees
  <1> HIDE DEF a
  <1>13. CASE AllSent
    BY <1>12, <1>13 DEF AllSent, Interrupt, a, Agree, Off, Devices
  <1>14. CASE NextBank
    <2> DEFINE e == [a EXCEPT !.ready = TRUE, !.complete = FALSE]
    <2>1. /\ e \in Devices /\ Agree(e) /\ e.busy = a.busy
          /\ e.enabled = a.enabled
      BY <1>12 DEF Agree, Devices
    <2>2. dev' = EpInSent(e, FALSE)
      BY <1>14 DEF NextBank, a
    <2> HIDE DEF e
    <2>3. /\ EpInSent(e, FALSE).enabled = e.enabled
          /\ EpInSent(e, FALSE).busy = e.busy
          /\ EpInSent(e, FALSE).ongoing = e.ongoing
          /\ EpInSent(e, FALSE).valid = e.valid
      BY <2>1 DEF EpInSent, Devices
    <2> QED BY <1>12, <1>14, <2>1, <2>2, <2>3 DEF NextBank, Interrupt, Agree, Off
  <1>15. CASE LoadAndSend
    <2> DEFINE l == EpInSent(a, TRUE)
               m == [l EXCEPT !.bufEnd = FALSE, !.left = FALSE]
               n == FinishJob(m)
               o == [n EXCEPT !.complete = FALSE]
    <2>1. /\ l \in Devices /\ l.enabled = a.enabled /\ l.busy = a.busy
          /\ l.ongoing = a.ongoing /\ l.valid = a.valid
      <3>1. l \in Devices
        BY <1>12, EpInSentType
      <3>2. l.enabled = a.enabled /\ l.busy = a.busy
        BY <1>12 DEF EpInSent, Devices
      <3>3. l.ongoing = a.ongoing /\ l.valid = a.valid
        BY <1>12 DEF EpInSent, Devices
      <3> QED BY <3>1, <3>2, <3>3
    <2> HIDE DEF l
    <2>2. m \in Devices /\ Agree(m) /\ m.enabled = a.enabled
      <3>1. m \in Devices
        BY <2>1 DEF Devices
      <3>2. Agree(m) /\ m.enabled = a.enabled
        BY <1>12, <2>1 DEF Agree, Devices
      <3> QED BY <3>1, <3>2
    <2> HIDE DEF m
    <2>3. n \in Devices /\ Agree(n) /\ (Off(a) => Off(n))
      BY <2>2, FinishJobType, FinishJobAgrees, FinishJobOff DEF Off
    <2> HIDE DEF n
    <2>4. o \in Devices /\ Agree(o) /\ (Off(n) => Off(o))
      BY <2>3 DEF Agree, Off, Devices
    <2> HIDE DEF o
    <2>5. dev' = EpInSent(o, FALSE)
      BY <1>15 DEF LoadAndSend, a, l, m, n, o
    <2>6. /\ EpInSent(o, FALSE).enabled = o.enabled
          /\ EpInSent(o, FALSE).busy = o.busy
          /\ EpInSent(o, FALSE).ongoing = o.ongoing
          /\ EpInSent(o, FALSE).valid = o.valid
      BY <2>4 DEF EpInSent, Devices
    <2> QED BY <1>12, <1>15, <2>3, <2>4, <2>5, <2>6
            DEF LoadAndSend, Interrupt, Agree, Off
  <1>16. CASE BusReset
    <2> DEFINE d1 == [dev EXCEPT !.enabled = FALSE, !.ready = FALSE,
                        !.complete = FALSE, !.stall = FALSE, !.irq = FALSE]
               lo == dev.lost \/ dev.fifo # <<>>
               d2 == [d1 EXCEPT !.lost = lo]
               d3 == [d2 EXCEPT !.fifo = <<>>]
    <2>1. d1 \in Devices /\ Agree(d1) /\ d1.enabled = FALSE
      <3>1. d1 \in Devices
        BY ResetType
      <3>2. Agree(d1) /\ d1.enabled = FALSE
        BY DEF Agree, Devices
      <3> QED BY <3>1, <3>2
    <2>2. dev' = AbortJob(d3)
      BY <1>16 DEF BusReset
    <2>3. lo \in BOOLEAN
      OBVIOUS
    <2> HIDE DEF d1, lo
    <2>4. d2 \in Devices /\ Agree(d2) /\ d2.enabled = FALSE
      BY <2>1, <2>3 DEF Agree, Devices
    <2> HIDE DEF d2
    <2>5. d3 \in Devices
      BY <2>4, FifoType, EmptySequence
    <2>6. Agree(d3) /\ d3.enabled = FALSE
      BY <2>4 DEF Agree, Devices
    <2> HIDE DEF d3
    <2> QED BY <2>2, <2>5, <2>6, AbortJobAgrees, AbortJobOff
  <1>17. CASE SetAddress
    BY <1>17 DEF SetAddress
  <1>18. CASE SetConfiguration
    <2> PICK keep \in BOOLEAN : dev' = HidEnable(EpAlloc(dev, keep))
      BY <1>18 DEF SetConfiguration
    <2>1. dev.busy = FALSE
      BY <1>18 DEF SetConfiguration, Off
    <2> QED BY <1>18, <2>1, AllocAgrees DEF SetConfiguration
  <1>19. ASSUME NEW keep \in BOOLEAN
         PROVE  Agree(Configured(dev, keep))
    <2> DEFINE e == EpFree(dev)
    <2>1. e \in Devices /\ e.busy = FALSE
      BY EpFreeType, EpFreeOff DEF Off
    <2> HIDE DEF e
    <2>2. Agree(HidEnable(EpAlloc(e, keep)))
      BY <2>1, AllocAgrees
    <2> QED BY <2>2 DEF Configured, e
  <1>20. CASE SetConfigurationAgain
    BY <1>19, <1>20 DEF SetConfigurationAgain
  <1>21. CASE Unconfigure
    BY <1>21, EpFreeOff DEF Unconfigure
  <1>22. CASE SetInterface
    BY <1>19, <1>22 DEF SetInterface
  <1>23. CASE SetHalt
    <2> DEFINE d1 == [dev EXCEPT !.irq = FALSE, !.ready = FALSE,
                                 !.complete = FALSE]
               d2 == [d1 EXCEPT !.bank = 0]
               lo == dev.lost \/ dev.fifo # <<>>
               d3 == [d2 EXCEPT !.lost = lo]
               d4 == [d3 EXCEPT !.fifo = <<>>]
               d == EpAbort(dev)
    <2>1. Agree(d4)
      BY DEF Agree, Devices
    <2>2. d = AbortJob(d4)
      BY DEF EpAbort
    <2>3. d1 \in Devices
      BY DEF Devices
    <2>4. lo \in BOOLEAN /\ 0 \in 0..3
      OBVIOUS
    <2> HIDE DEF d1, lo
    <2>5. d2 \in Devices
      BY <2>3, <2>4, BankType
    <2> HIDE DEF d2
    <2>6. d3 \in Devices
      BY <2>4, <2>5 DEF Devices
    <2> HIDE DEF d3
    <2>7. d4 \in Devices
      BY <2>6, FifoType, EmptySequence
    <2> HIDE DEF d4
    <2>8. d \in Devices /\ Agree(d)
      BY <2>1, <2>2, <2>7, AbortJobAgrees
    <2> HIDE DEF d
    <2>9. Agree(dev')
      BY <1>23, <2>8 DEF SetHalt, Agree, Devices, d
    <2> QED BY <1>23, <2>9 DEF SetHalt
  <1>24. CASE ClearHalt
    <2> DEFINE d == [dev EXCEPT !.stallRequested = FALSE]
               e == [d EXCEPT !.stall = FALSE]
               lo == d.lost \/ d.busy \/ d.fifo # <<>>
               g == [e EXCEPT !.lost = lo]
               h == [g EXCEPT !.fifo = <<>>]
    <2>1. d \in Devices /\ Agree(d)
      BY DEF Agree, Devices
    <2>2. dev' = IF dev.stall THEN FinishJob(h) ELSE d
      BY <1>24 DEF ClearHalt
    <2>3. lo \in BOOLEAN
      OBVIOUS
    <2> HIDE DEF d, lo
    <2>10. e \in Devices /\ Agree(e)
      BY <2>1 DEF Agree, Devices
    <2> HIDE DEF e
    <2>11. g \in Devices
      BY <2>3, <2>10 DEF Devices
    <2>4. g \in Devices /\ Agree(g)
      BY <2>10, <2>11 DEF Agree, Devices
    <2> HIDE DEF g
    <2>5. h \in Devices
      BY <2>4, FifoType, EmptySequence
    <2>6. Agree(h)
      BY <2>4 DEF Agree, Devices
    <2> HIDE DEF h
    <2>7. Agree(FinishJob(h))
      BY <2>5, <2>6, FinishJobAgrees
    <2> QED BY <1>24, <2>1, <2>2, <2>7 DEF ClearHalt
  <1> QED
    BY <1>1, <1>2, <1>3, <1>5, <1>6, <1>7, <1>8, <1>9, <1>10, <1>11, <1>13,
       <1>14, <1>15, <1>16, <1>17, <1>18, <1>20, <1>21, <1>22, <1>23, <1>24
    DEF Next, SendKeys, UdpInterrupt, Host, Faults

(* The keyboard never waits for a job the endpoint does not have, through     *)
(* every reset, configuration and halt.                                       *)
THEOREM JobsAlwaysAgree == Spec => []JobsAgree
  <1>1. Init => Together
    BY DEF Init, Together, Agree, Off
  <1>2. TypeOK /\ TypeOK' /\ Together /\ [Next]_vars => Together'
    BY StepAgrees
  <1>3. Together => JobsAgree
    BY DEF Together, Agree, JobsAgree
  <1> QED BY <1>1, <1>2, <1>3, TypeCorrect, PTL DEF Spec

-----------------------------------------------------------------------------
(* The order of the keys.  On its way to the host a key is in one report of   *)
(* the line: the FIFO, the job's data while it is not written, and the report *)
(* while it is held back.  Along the line the numbers of the keys grow, all   *)
(* above t, the last number typed; s are the characters struck.               *)

Good(r, s) ==
  r.keys # {} => /\ r.no \in 1..Len(s)
                 /\ r.keys = {s[r.no].key}

Fresh(r, f, t) ==
  r.keys # {} =>
    /\ r.no > t
    /\ \A i \in 1..Len(f) : f[i].keys # {} => f[i].no < r.no

Line(cur, valid, left, trans, f, s, t) ==
  /\ cur.no = Len(s) /\ Good(cur, s)
  /\ \A i \in 1..Len(f) : Good(f[i], s) /\ (f[i].keys # {} => f[i].no > t)
  /\ \A i, j \in 1..Len(f) :
       i < j /\ f[i].keys # {} /\ f[j].keys # {} => f[i].no < f[j].no
  /\ left => Good(trans, s) /\ Fresh(trans, f, t)
  /\ valid => /\ Fresh(cur, f, t)
              /\ left /\ trans.keys # {} /\ cur.keys # {} => trans.no < cur.no

LineOf(d, s, t) == Line(Report(d), d.valid, d.left, d.trans, d.fifo, s, t)

LEMMA LineWritten ==
  ASSUME NEW cur \in Reports, NEW valid \in BOOLEAN, NEW trans \in Reports,
         NEW f \in Seq(Reports), NEW s \in Seq(Chars), NEW t \in Nat,
         Line(cur, valid, TRUE, trans, f, s, t)
  PROVE  Line(cur, valid, FALSE, trans, Append(f, trans), s, t)
  <1> DEFINE g == Append(f, trans)
  <1>1. /\ Len(g) = Len(f) + 1 /\ g[Len(f) + 1] = trans
        /\ \A i \in 1..Len(f) : g[i] = f[i]
    OBVIOUS
  <1>2. Len(f) \in Nat /\ \A i \in 1..Len(f) : f[i] \in Reports
    OBVIOUS
  <1> HIDE DEF g
  <1>3. \A i \in 1..Len(g) : Good(g[i], s) /\ (g[i].keys # {} => g[i].no > t)
    BY <1>1, <1>2 DEF Line, Fresh
  <1>4. \A i, j \in 1..Len(g) :
          i < j /\ g[i].keys # {} /\ g[j].keys # {} => g[i].no < g[j].no
    BY <1>1, <1>2, SMTT(20) DEF Line, Fresh
  <1>5. valid => Fresh(cur, g, t)
    BY <1>1, <1>2 DEF Line, Fresh
  <1> QED BY <1>3, <1>4, <1>5 DEF Line, g

LEMMA LineTaken ==
  ASSUME NEW cur, NEW left, NEW trans, NEW f, NEW s, NEW t, NEW pending,
         Line(cur, TRUE, left, trans, f, s, t)
  PROVE  Line(cur, FALSE, pending, cur, f, s, t)
  BY DEF Line

LEMMA LineEmptied ==
  ASSUME NEW cur, NEW valid, NEW left, NEW trans, NEW f, NEW s, NEW t,
         Line(cur, valid, left, trans, f, s, t)
  PROVE  /\ Line(cur, valid, left, trans, <<>>, s, t)
         /\ Line(cur, valid, FALSE, trans, f, s, t)
         /\ Line(cur, FALSE, left, trans, f, s, t)
  BY DEF Line, Fresh

LEMMA EpInSentLine ==
  ASSUME NEW d \in Devices, NEW x \in BOOLEAN, NEW s \in Seq(Chars), NEW t \in Nat,
         LineOf(d, s, t)
  PROVE  LineOf(EpInSent(d, x), s, t) /\ Report(EpInSent(d, x)) = Report(d)
  <1> DEFINE e == EpInSent(d, x)
  <1>1. CASE d.bank >= BANKS \/ ~d.left
    BY <1>1 DEF EpInSent
  <1>2. CASE ~(d.bank >= BANKS \/ ~d.left)
    <2>1. /\ Report(e) = Report(d) /\ e.valid = d.valid /\ e.left = FALSE
          /\ e.trans = d.trans /\ e.fifo = Append(d.fifo, d.trans)
      BY <1>2 DEF EpInSent, Devices, Report
    <2>2. /\ Report(d) \in Reports /\ d.valid \in BOOLEAN
          /\ d.trans \in Reports /\ d.fifo \in Seq(Reports) /\ d.left = TRUE
      BY <1>2 DEF Devices, Reports, Report
    <2> HIDE DEF e
    <2>3. Line(Report(d), d.valid, FALSE, d.trans, Append(d.fifo, d.trans), s, t)
      BY <2>2, LineWritten DEF LineOf
    <2> QED BY <2>1, <2>3 DEF LineOf, e
  <1> QED BY <1>1, <1>2

LEMMA SendReportLine ==
  ASSUME NEW d \in Devices, NEW s \in Seq(Chars), NEW t \in Nat,
         LineOf(d, s, t), d.valid
  PROVE  LineOf(SendReport(d), s, t) /\ Report(SendReport(d)) = Report(d)
  <1> DEFINE taken == [d EXCEPT !.trans = Report(d), !.valid = FALSE]
             dropped == [taken EXCEPT !.lost = TRUE]
             job == [taken EXCEPT !.busy = TRUE, !.left = TRUE,
                                  !.bufEnd = FALSE, !.irq = TRUE]
             run == EpRun(taken)
             sending == [run EXCEPT !.ongoing = TRUE]
  <1>1. Report(d) \in Reports
    BY DEF Report, Reports, Devices
  <1>2. taken \in Devices
    BY <1>1 DEF Devices
  <1>3. d.valid = TRUE
    BY DEF Devices
  <1>4. /\ Report(taken) = Report(d) /\ taken.valid = FALSE
        /\ taken.left = d.left /\ taken.trans = Report(d) /\ taken.fifo = d.fifo
    BY DEF Devices, Report
  <1>5. /\ Line(Report(d), FALSE, d.left, Report(d), d.fifo, s, t)
        /\ Line(Report(d), FALSE, TRUE, Report(d), d.fifo, s, t)
    BY <1>3, LineTaken DEF LineOf
  <1> HIDE DEF taken
  <1>6. /\ Report(dropped) = Report(taken) /\ dropped.valid = taken.valid
        /\ dropped.left = taken.left /\ dropped.trans = taken.trans
        /\ dropped.fifo = taken.fifo
    BY <1>2 DEF Devices, Report
  <1>7. LineOf(dropped, s, t) /\ Report(dropped) = Report(d)
    BY <1>4, <1>5, <1>6 DEF LineOf
  <1>8. /\ job \in Devices
        /\ Report(job) = Report(taken) /\ job.valid = taken.valid
        /\ job.left = TRUE /\ job.trans = taken.trans
        /\ job.fifo = taken.fifo
    BY <1>2 DEF Devices, Report
  <1>9. LineOf(job, s, t) /\ Report(job) = Report(d)
    BY <1>4, <1>5, <1>8 DEF LineOf
  <1>10. run = IF taken.ready \/ taken.complete THEN job ELSE EpInSent(job, TRUE)
    BY DEF EpRun
  <1> HIDE DEF job, run, dropped
  <1>11. LineOf(run, s, t) /\ Report(run) = Report(d) /\ run \in Devices
    <2>1. EpInSent(job, TRUE) \in Devices
      BY <1>8, EpInSentType
    <2>2. /\ LineOf(EpInSent(job, TRUE), s, t)
          /\ Report(EpInSent(job, TRUE)) = Report(job)
      BY <1>8, <1>9, EpInSentLine
    <2> QED BY <1>8, <1>9, <1>10, <2>1, <2>2
  <1>12. LineOf(sending, s, t) /\ Report(sending) = Report(d)
    BY <1>11 DEF LineOf, Report, Devices
  <1>13. SendReport(d) = IF d.ongoing THEN d ELSE
                         IF Refuses(taken) THEN dropped ELSE sending
    BY DEF SendReport, taken, dropped, run
  <1> HIDE DEF sending
  <1> QED BY <1>7, <1>12, <1>13

(* What leaves the report, and what is on its way, alone.                     *)
Same(e, d) ==
  /\ Report(e) = Report(d) /\ e.valid = d.valid
  /\ e.left = d.left /\ e.trans = d.trans /\ e.fifo = d.fifo

LEMMA SameLine ==
  ASSUME NEW d, NEW e, NEW s, NEW t, Same(e, d), LineOf(d, s, t)
  PROVE  LineOf(e, s, t)
  BY DEF Same, LineOf

LEMMA FinishJobLine ==
  ASSUME NEW d \in Devices, NEW s \in Seq(Chars), NEW t \in Nat, LineOf(d, s, t)
  PROVE  LineOf(FinishJob(d), s, t) /\ Report(FinishJob(d)) = Report(d)
  <1> DEFINE e == [d EXCEPT !.busy = FALSE]
             idle == [e EXCEPT !.ongoing = FALSE]
  <1>1. idle \in Devices /\ Same(idle, d) /\ e.valid = idle.valid
    BY DEF Devices, Same, Report
  <1>2. FinishJob(d) = IF d.busy THEN IF e.valid THEN SendReport(idle) ELSE idle
                       ELSE d
    BY DEF FinishJob, ReportSent
  <1> HIDE DEF e, idle
  <1>3. LineOf(idle, s, t) /\ Report(idle) = Report(d)
    BY <1>1, SameLine DEF Same
  <1>4. idle.valid => /\ LineOf(SendReport(idle), s, t)
                      /\ Report(SendReport(idle)) = Report(idle)
    BY <1>1, <1>3, SendReportLine
  <1> QED BY <1>1, <1>2, <1>3, <1>4

LEMMA AbortJobLine ==
  ASSUME NEW d \in Devices, NEW s \in Seq(Chars), NEW t \in Nat, LineOf(d, s, t)
  PROVE  LineOf(AbortJob(d), s, t) /\ Report(AbortJob(d)) = Report(d)
  <1> DEFINE e == [d EXCEPT !.lost = d.lost \/ d.busy]
  <1>1. (d.lost \/ d.busy) \in BOOLEAN
    OBVIOUS
  <1>2. e \in Devices /\ Same(e, d)
    BY <1>1 DEF Devices, Same, Report
  <1>3. AbortJob(d) = FinishJob(e)
    BY DEF AbortJob
  <1> HIDE DEF e
  <1>4. LineOf(e, s, t)
    BY <1>2, SameLine
  <1> QED BY <1>2, <1>3, <1>4, FinishJobLine DEF Same

LEMMA OneBankLessLine ==
  ASSUME NEW d \in Devices, NEW s, NEW t, LineOf(d, s, t)
  PROVE  LineOf(OneBankLess(d), s, t) /\ Report(OneBankLess(d)) = Report(d)
  <1>1. Same(OneBankLess(d), d)
    BY DEF OneBankLess, Same, Report, Devices
  <1> QED BY <1>1, SameLine DEF Same

LEMMA AfterSentLine ==
  ASSUME NEW d \in Devices, NEW s \in Seq(Chars), NEW t \in Nat, LineOf(d, s, t)
  PROVE  LineOf(AfterSent(d), s, t) /\ Report(AfterSent(d)) = Report(d)
  <1> DEFINE b == OneBankLess(d)
             e == [b EXCEPT !.bufEnd = FALSE, !.left = FALSE]
  <1>1. b \in Devices
    BY AfterSentType
  <1>2. LineOf(b, s, t) /\ Report(b) = Report(d)
    BY OneBankLessLine
  <1> HIDE DEF b
  <1>3. /\ e \in Devices /\ Report(e) = Report(b) /\ e.valid = b.valid
        /\ e.left = FALSE /\ e.trans = b.trans /\ e.fifo = b.fifo
    BY <1>1 DEF Devices, Report
  <1>4. LineOf(e, s, t)
    <2>1. Line(Report(b), b.valid, FALSE, b.trans, b.fifo, s, t)
      BY <1>2, LineEmptied DEF LineOf
    <2> HIDE DEF e
    <2> QED BY <1>3, <2>1 DEF LineOf
  <1>5. AfterSent(d) = IF b.bufEnd THEN FinishJob(e) ELSE b
    BY DEF AfterSent, b
  <1> HIDE DEF e
  <1>6. LineOf(FinishJob(e), s, t) /\ Report(FinishJob(e)) = Report(e)
    BY <1>3, <1>4, FinishJobLine
  <1> QED BY <1>2, <1>3, <1>5, <1>6

LEMMA EpFreeLine ==
  ASSUME NEW d \in Devices, NEW s \in Seq(Chars), NEW t \in Nat, LineOf(d, s, t)
  PROVE  LineOf(EpFree(d), s, t) /\ Report(EpFree(d)) = Report(d)
  <1> DEFINE e == [d EXCEPT !.enabled = FALSE]
  <1>1. e \in Devices /\ Same(e, d)
    BY DEF Devices, Same, Report
  <1>2. EpFree(d) = AbortJob(e)
    BY DEF EpFree
  <1> HIDE DEF e
  <1>3. LineOf(e, s, t)
    BY <1>1, SameLine
  <1> QED BY <1>1, <1>2, <1>3, AbortJobLine DEF Same

(* A new configuration empties the FIFO and the report.                       *)
LEMMA AllocLine ==
  ASSUME NEW d \in Devices, NEW keep \in BOOLEAN, NEW s \in Seq(Chars),
         NEW t \in Nat, LineOf(d, s, t)
  PROVE  /\ LineOf(HidEnable(EpAlloc(d, keep)), s, t)
         /\ HidEnable(EpAlloc(d, keep)).keys = {}
  <1> DEFINE e == EpAlloc(d, keep)
             g == HidEnable(e)
  <1>1. e \in Devices
    BY EpAllocType
  <1>2. /\ e.no = d.no /\ e.left = d.left /\ e.trans = d.trans
        /\ e.fifo = <<>>
    BY DEF EpAlloc, Devices
  <1> HIDE DEF e
  <1>3. /\ g.keys = {} /\ g.no = e.no /\ g.valid = FALSE
        /\ g.left = e.left /\ g.trans = e.trans /\ g.fifo = e.fifo
    BY <1>1 DEF HidEnable, Devices
  <1> HIDE DEF g
  <1>4. Line(Report(d), d.valid, d.left, d.trans, <<>>, s, t)
    BY LineEmptied DEF LineOf
  <1>5. Report(g).keys = {} /\ Report(g).no = Report(d).no
    BY <1>2, <1>3 DEF Report
  <1>6. Line(Report(g), FALSE, d.left, d.trans, <<>>, s, t)
    BY <1>4, <1>5 DEF Line, Good
  <1> QED BY <1>2, <1>3, <1>6 DEF LineOf, e, g

(* Taking the first packet: the next ones are above it.                       *)
LEMMA LinePolled ==
  ASSUME NEW cur \in Reports, NEW valid \in BOOLEAN, NEW left \in BOOLEAN,
         NEW trans \in Reports, NEW f \in Seq(Reports), f # <<>>,
         NEW s \in Seq(Chars), NEW t \in Nat,
         Line(cur, valid, left, trans, f, s, t)
  PROVE  /\ Line(cur, valid, left, trans, Tail(f), s, t)
         /\ Head(f).keys # {} =>
              Line(cur, valid, left, trans, Tail(f), s, Head(f).no)
  <1> DEFINE g == Tail(f)
  <1>1. /\ Len(f) \in Nat /\ Len(f) >= 1 /\ Len(g) = Len(f) - 1
        /\ \A i \in 1..Len(g) : g[i] = f[i + 1]
        /\ Head(f) = f[1]
    OBVIOUS
  <1> HIDE DEF g
  <1>2. \A i \in 1..Len(g) : i + 1 \in 1..Len(f) /\ 1 < i + 1 /\ g[i] = f[i + 1]
    BY <1>1
  <1>3. 1 \in 1..Len(f)
    BY <1>1
  <1>4. /\ \A i \in 1..Len(f) : Good(f[i], s) /\ (f[i].keys # {} => f[i].no > t)
        /\ \A i, j \in 1..Len(f) :
             i < j /\ f[i].keys # {} /\ f[j].keys # {} => f[i].no < f[j].no
    BY DEF Line
  <1>5. \A i \in 1..Len(g) : Good(g[i], s) /\ (g[i].keys # {} => g[i].no > t)
    BY <1>2, <1>4
  <1>6. \A i, j \in 1..Len(g) :
          i < j /\ g[i].keys # {} /\ g[j].keys # {} => g[i].no < g[j].no
    <2> SUFFICES ASSUME NEW i \in 1..Len(g), NEW j \in 1..Len(g), i < j,
                        g[i].keys # {}, g[j].keys # {}
                 PROVE  g[i].no < g[j].no
      OBVIOUS
    <2>1. i + 1 < j + 1
      BY <1>1
    <2> QED BY <1>2, <1>4, <2>1
  <1>7. \A r, u : Fresh(r, f, u) => Fresh(r, g, u)
    BY <1>2 DEF Fresh
  <1>8. \A r : Fresh(r, f, t) /\ f[1].keys # {} => Fresh(r, g, f[1].no)
    <2> SUFFICES ASSUME NEW r, Fresh(r, f, t), f[1].keys # {}, r.keys # {}
                 PROVE  /\ r.no > f[1].no
                        /\ \A i \in 1..Len(g) : g[i].keys # {} => g[i].no < r.no
      BY DEF Fresh
    <2>1. \A i \in 1..Len(f) : f[i].keys # {} => f[i].no < r.no
      BY DEF Fresh
    <2>2. f[1].no < r.no
      BY <1>3, <2>1
    <2>3. \A i \in 1..Len(g) : g[i].keys # {} => g[i].no < r.no
      BY <1>2, <2>1
    <2> QED BY <2>2, <2>3
  <1>9. f[1].keys # {} =>
          \A i \in 1..Len(g) : g[i].keys # {} => g[i].no > f[1].no
    <2> SUFFICES ASSUME f[1].keys # {}, NEW i \in 1..Len(g), g[i].keys # {}
                 PROVE  f[1].no < g[i].no
      OBVIOUS
    <2> QED BY <1>2, <1>3, <1>4
  <1>10. Line(cur, valid, left, trans, g, s, t)
    BY <1>5, <1>6, <1>7 DEF Line
  <1>11. f[1].keys # {} => Line(cur, valid, left, trans, g, s, f[1].no)
    <2> SUFFICES ASSUME f[1].keys # {}
                 PROVE  Line(cur, valid, left, trans, g, s, f[1].no)
      OBVIOUS
    <2>1. /\ left => Good(trans, s) /\ Fresh(trans, f, t)
          /\ valid => Fresh(cur, f, t)
      BY DEF Line
    <2>2. /\ left => Good(trans, s) /\ Fresh(trans, g, f[1].no)
          /\ valid => Fresh(cur, g, f[1].no)
      BY <1>8, <2>1
    <2>3. \A i \in 1..Len(g) :
            Good(g[i], s) /\ (g[i].keys # {} => g[i].no > f[1].no)
      BY <1>5, <1>9
    <2> QED BY <1>6, <2>2, <2>3 DEF Line
  <1> QED BY <1>1, <1>10, <1>11 DEF g

(* Striking a key: its report is above all others.                            *)
LEMMA LineStruck ==
  ASSUME NEW cur \in Reports, NEW valid \in BOOLEAN, NEW left \in BOOLEAN,
         NEW trans \in Reports, NEW f \in Seq(Reports),
         NEW s \in Seq(Chars), NEW t \in Nat, NEW c \in Chars,
         t <= Len(s), Line(cur, valid, left, trans, f, s, t),
         NEW new \in Reports, new.no = cur.no + 1, new.keys = {c.key}
  PROVE  Line(new, TRUE, left, trans, f, Append(s, c), t)
  <1> DEFINE z == Append(s, c)
  <1>1. /\ Len(z) = Len(s) + 1 /\ z[Len(s) + 1] = c /\ Len(s) \in Nat
        /\ \A i \in 1..Len(s) : z[i] = s[i]
    OBVIOUS
  <1>2. \A i \in 1..Len(f) : f[i] \in Reports
    OBVIOUS
  <1> HIDE DEF z
  <1>3. \A r \in Reports : Good(r, s) => Good(r, z)
    BY <1>1 DEF Good
  <1>4. \A r \in Reports : Good(r, s) /\ r.keys # {} => r.no < new.no
    BY <1>1 DEF Good, Line
  <1>5. new.no = Len(z) /\ Good(new, z)
    BY <1>1 DEF Good, Line
  <1>6. \A i \in 1..Len(f) : Good(f[i], s)
    BY DEF Line
  <1>7. Fresh(new, f, t)
    BY <1>1, <1>2, <1>4, <1>6 DEF Fresh, Line
  <1>8. left => Good(trans, s) /\ Fresh(trans, f, t)
    BY DEF Line
  <1>9. left /\ trans.keys # {} => trans.no < new.no
    BY <1>4, <1>8
  <1>10. \A i \in 1..Len(f) : Good(f[i], z) /\ (f[i].keys # {} => f[i].no > t)
    BY <1>2, <1>3, <1>6 DEF Line
  <1>11. \A i, j \in 1..Len(f) :
           i < j /\ f[i].keys # {} /\ f[j].keys # {} => f[i].no < f[j].no
    BY DEF Line
  <1>12. left => Good(trans, z) /\ Fresh(trans, f, t)
    BY <1>3, <1>8
  <1> QED BY <1>5, <1>7, <1>9, <1>10, <1>11, <1>12 DEF Line, z

-----------------------------------------------------------------------------
(* send_keys releases a key before it goes on to the next character.          *)
Rhythm ==
  IF step = "up"
  THEN todo # <<>> /\ Head(todo) # UNMAPPED /\ dev.keys \subseteq {Head(todo).key}
  ELSE dev.keys = {}

Ordered == LineOf(dev, sent, LastTyped) /\ Rhythm /\ LastTyped \in 0..Len(sent)

Stays == UNCHANGED <<sent, typed>>

LEMMA StaysMaps ==
  ASSUME Stays
  PROVE  UNCHANGED AsTypist!vars /\ LastTyped' = LastTyped
  BY DEF Stays, AsTypist!vars, LastTyped, KeysOf

LEMMA LastTypedType ==
  ASSUME TypeOK, Ordered
  PROVE  LastTyped \in Nat /\ sent \in Seq(Chars) /\ dev \in Devices
  BY DEF TypeOK, Ordered

(* A report without keys may be sent at any time.                             *)
LEMMA ReleasedLine ==
  ASSUME NEW d, NEW e, NEW s, NEW t, LineOf(d, s, t),
         e.no = d.no, e.keys = {}, e.valid = TRUE, e.left = d.left,
         e.trans = d.trans, e.fifo = d.fifo
  PROVE  LineOf(e, s, t)
  <1>1. Report(e).no = Report(d).no /\ Report(e).keys = {}
    BY DEF Report
  <1>2. Line(Report(d), d.valid, d.left, d.trans, d.fifo, s, t)
    BY DEF LineOf
  <1>3. Line(Report(e), TRUE, d.left, d.trans, d.fifo, s, t)
    BY <1>1, <1>2 DEF Line, Good, Fresh
  <1> QED BY <1>3 DEF LineOf

(* A step that sends nothing new and clears no more than the report.          *)
LEMMA QuietStep ==
  ASSUME TypeOK, Ordered, Stays, UNCHANGED <<step, todo>>,
         LineOf(dev', sent, LastTyped),
         Report(dev') = Report(dev) \/ dev'.keys = {}
  PROVE  Ordered' /\ UNCHANGED AsTypist!vars
  <1>1. UNCHANGED AsTypist!vars /\ LastTyped' = LastTyped
    BY StaysMaps
  <1>2. dev'.keys = dev.keys \/ dev'.keys = {}
    BY DEF Report
  <1>3. Rhythm'
    BY <1>2 DEF Rhythm, Ordered
  <1>4. LineOf(dev, sent, LastTyped)'
    BY <1>1 DEF LineOf, Stays
  <1> QED BY <1>1, <1>3, <1>4 DEF Ordered, Stays

(* A call that sends a report e, of the key that is down, or of none.         *)
LEMMA SendingStep ==
  ASSUME TypeOK, Ordered, Stays, step # "up", step' \in {"down", "modifier_down"},
         NEW e \in Devices, dev' = SendReport(e),
         e.no = dev.no, e.keys = dev.keys, e.valid = TRUE, e.left = dev.left,
         e.trans = dev.trans, e.fifo = dev.fifo
  PROVE  Ordered' /\ UNCHANGED AsTypist!vars
  <1>1. UNCHANGED AsTypist!vars /\ LastTyped' = LastTyped
    BY StaysMaps
  <1>2. dev.keys = {}
    BY DEF Ordered, Rhythm
  <1>3. LineOf(e, sent, LastTyped)
    <2>1. e.keys = {} /\ LineOf(dev, sent, LastTyped)
      BY <1>2 DEF Ordered
    <2> QED BY <2>1, ReleasedLine
  <1>4. LineOf(dev', sent, LastTyped) /\ Report(dev') = Report(e)
    BY <1>3, LastTypedType, SendReportLine
  <1>5. dev'.keys = {}
    BY <1>2, <1>4 DEF Report
  <1>6. Rhythm'
    BY <1>5 DEF Rhythm
  <1>7. LineOf(dev, sent, LastTyped)'
    BY <1>1, <1>4 DEF LineOf, Stays
  <1> QED BY <1>1, <1>6, <1>7 DEF Ordered, Stays

LEMMA CallsOrdered ==
  ASSUME TypeOK, TypeOK', Ordered, ModifierDown \/ Up \/ ModifierUp
  PROVE  Ordered' /\ UNCHANGED AsTypist!vars
  <1> dev \in Devices /\ dev' \in Devices
    BY DEF TypeOK
  <1>1. CASE ModifierDown
    <2> PICK c \in Chars :
          /\ Call("modifier_down", "down", c)
          /\ dev' = SendReport([dev EXCEPT !.shift = @ \/ c.shift,
                                           !.valid = TRUE])
      BY <1>1 DEF ModifierDown
    <2> DEFINE sh == dev.shift \/ c.shift
               e == [dev EXCEPT !.shift = sh, !.valid = TRUE]
    <2>1. sh \in BOOLEAN /\ dev' = SendReport(e)
      OBVIOUS
    <2>2. Stays /\ step = "modifier_down" /\ step' = "down"
      BY <1>1 DEF ModifierDown, Call, Stays
    <2> HIDE DEF sh
    <2>3. /\ e \in Devices /\ e.no = dev.no /\ e.keys = dev.keys
          /\ e.valid = TRUE /\ e.left = dev.left
          /\ e.trans = dev.trans /\ e.fifo = dev.fifo
      BY <2>1 DEF Devices
    <2> HIDE DEF e
    <2> QED BY <2>1, <2>2, <2>3, SendingStep
  <1>2. CASE ModifierUp
    <2> PICK c \in Chars :
          /\ Call("modifier_up", "modifier_down", c)
          /\ dev' = SendReport([dev EXCEPT !.shift = @ /\ ~c.shift,
                                           !.valid = TRUE])
      BY <1>2 DEF ModifierUp
    <2> DEFINE sh == dev.shift /\ ~c.shift
               e == [dev EXCEPT !.shift = sh, !.valid = TRUE]
    <2>1. sh \in BOOLEAN /\ dev' = SendReport(e)
      OBVIOUS
    <2>2. Stays /\ step = "modifier_up" /\ step' = "modifier_down"
      BY <1>2 DEF ModifierUp, Call, Stays
    <2> HIDE DEF sh
    <2>3. /\ e \in Devices /\ e.no = dev.no /\ e.keys = dev.keys
          /\ e.valid = TRUE /\ e.left = dev.left
          /\ e.trans = dev.trans /\ e.fifo = dev.fifo
      BY <2>1 DEF Devices
    <2> HIDE DEF e
    <2> QED BY <2>1, <2>2, <2>3, SendingStep
  <1>3. CASE Up
    <2> PICK c \in Chars :
          /\ Call("up", "modifier_up", c)
          /\ dev' = IF c.key \in dev.keys
                    THEN SendReport([dev EXCEPT !.keys = @ \ {c.key},
                                                !.valid = TRUE])
                    ELSE dev
      BY <1>3 DEF Up
    <2> DEFINE ks == dev.keys \ {c.key}
               d1 == [dev EXCEPT !.keys = ks]
               e == [d1 EXCEPT !.valid = TRUE]
    <2>1. /\ step = "up" /\ step' = "modifier_up" /\ c = Head(todo)
          /\ dev' = IF c.key \in dev.keys THEN SendReport(e) ELSE dev
      BY DEF Call
    <2>2. Stays
      BY <1>3 DEF Up, Call, Stays
    <2>3. ks = {} /\ (c.key \notin dev.keys => dev.keys = {})
      BY <2>1 DEF Ordered, Rhythm
    <2>4. d1 \in Devices
      <3>1. ks \in SUBSET KEYS
        BY <2>3
      <3> QED BY <3>1, KeysType
    <2>5. /\ e.no = dev.no /\ e.keys = {} /\ e.valid = TRUE
          /\ e.left = dev.left /\ e.trans = dev.trans /\ e.fifo = dev.fifo
      BY <2>3 DEF Devices
    <2> HIDE DEF ks, d1
    <2>6. e \in Devices
      BY <2>4 DEF Devices
    <2> HIDE DEF e
    <2>7. LineOf(e, sent, LastTyped)
      BY <2>5, ReleasedLine DEF Ordered
    <2>8. LineOf(SendReport(e), sent, LastTyped) /\ Report(SendReport(e)) = Report(e)
      BY <2>5, <2>6, <2>7, LastTypedType, SendReportLine
    <2>9. LineOf(dev', sent, LastTyped) /\ dev'.keys = {}
      BY <2>1, <2>3, <2>5, <2>8 DEF Ordered, Report
    <2>10. UNCHANGED AsTypist!vars /\ LastTyped' = LastTyped
      BY <2>2, StaysMaps
    <2>11. LineOf(dev, sent, LastTyped)'
      BY <2>2, <2>9, <2>10 DEF LineOf, Stays
    <2> QED BY <2>1, <2>2, <2>9, <2>10, <2>11 DEF Ordered, Rhythm, Stays
  <1> QED BY <1>1, <1>2, <1>3

(* A key is struck: the promise is Strike.                                    *)
LEMMA DownOrdered ==
  ASSUME TypeOK, TypeOK', Ordered, Down
  PROVE  Ordered' /\ [AsTypist!Next]_AsTypist!vars
  <1> dev \in Devices /\ dev' \in Devices
    BY DEF TypeOK
  <1> PICK c \in Chars :
        /\ Call("down", "up", c)
        /\ \/ UNCHANGED <<dev, sent>>
           \/ /\ dev' = SendReport([dev EXCEPT !.keys = @ \cup {c.key},
                                     !.no = @ + 1, !.valid = TRUE])
              /\ sent' = Append(sent, c)
        /\ UNCHANGED todo
    BY DEF Down
  <1> DEFINE ks == dev.keys \cup {c.key}
             n == dev.no + 1
             d1 == [dev EXCEPT !.keys = ks]
             d2 == [d1 EXCEPT !.no = n]
             e == [d2 EXCEPT !.valid = TRUE]
  <1>1. /\ step = "down" /\ step' = "up" /\ todo # <<>> /\ Head(todo) # UNMAPPED
        /\ c = Head(todo) /\ typed' = typed
    BY DEF Call
  <1>2. todo' = todo
    OBVIOUS
  <1>3. dev.keys = {}
    BY <1>1 DEF Ordered, Rhythm
  <1>4. c.key \in KEYS
    BY <1>1 DEF Chars
  <1>5. CASE UNCHANGED <<dev, sent>>
    <2>1. Stays
      BY <1>1, <1>5 DEF Stays
    <2>2. UNCHANGED AsTypist!vars /\ LastTyped' = LastTyped
      BY <2>1, StaysMaps
    <2>3. Rhythm'
      BY <1>1, <1>2, <1>3, <1>5 DEF Rhythm
    <2>4. LineOf(dev, sent, LastTyped)'
      BY <1>5, <2>2 DEF Ordered
    <2> QED BY <1>5, <2>2, <2>3, <2>4 DEF Ordered
  <1>6. CASE dev' = SendReport(e) /\ sent' = Append(sent, c)
    <2>1. ks = {c.key} /\ ks \in SUBSET KEYS /\ n \in Nat
      BY <1>3, <1>4 DEF Devices
    <2>2. /\ e.no = n /\ e.keys = ks /\ e.valid = TRUE
          /\ e.left = dev.left /\ e.trans = dev.trans /\ e.fifo = dev.fifo
      BY DEF Devices
    <2> HIDE DEF ks, n
    <2>3. d2 \in Devices
      BY <2>1, KeysType, NoType
    <2> HIDE DEF d2
    <2>4. e \in Devices
      BY <2>3 DEF Devices
    <2> HIDE DEF e
    <2>5. /\ Report(dev) \in Reports /\ Report(e) \in Reports
          /\ Report(e).no = Report(dev).no + 1 /\ Report(e).keys = {c.key}
      BY <2>1, <2>2, <2>4 DEF Report, Reports, Devices, n
    <2>6. /\ dev.valid \in BOOLEAN /\ dev.left \in BOOLEAN
          /\ dev.trans \in Reports /\ dev.fifo \in Seq(Reports)
      BY DEF Devices
    <2>7. /\ LastTyped \in Nat /\ sent \in Seq(Chars) /\ Len(sent) \in Nat
          /\ LastTyped <= Len(sent)
      BY LastTypedType DEF Ordered
    <2>8. Line(Report(dev), dev.valid, dev.left, dev.trans, dev.fifo, sent, LastTyped)
      BY DEF Ordered, LineOf
    <2> DEFINE z == Append(sent, c)
    <2>9. Line(Report(e), TRUE, dev.left, dev.trans, dev.fifo, z, LastTyped)
      BY <2>5, <2>6, <2>7, <2>8, LineStruck
    <2>10. z \in Seq(Chars) /\ Len(z) = Len(sent) + 1 /\ sent' = z
      BY <1>6, <2>7
    <2> HIDE DEF z
    <2>11. LineOf(e, z, LastTyped)
      BY <2>2, <2>9 DEF LineOf
    <2>12. LineOf(SendReport(e), z, LastTyped) /\ Report(SendReport(e)) = Report(e)
      BY <2>2, <2>4, <2>7, <2>10, <2>11, SendReportLine
    <2>13. dev'.keys = {c.key}
      BY <1>6, <2>1, <2>2, <2>12 DEF Report
    <2>14. Rhythm'
      BY <1>1, <1>2, <2>13 DEF Rhythm
    <2>15. LastTyped' = LastTyped
      BY <1>1 DEF LastTyped
    <2>16. LineOf(dev, sent, LastTyped)'
      BY <1>6, <2>10, <2>12, <2>15
    <2>17. AsTypist!Strike
      <3>1. KeysOf(sent)' = Append(KeysOf(sent), c.key)
        BY <1>6, <2>7 DEF KeysOf
      <3>2. UNCHANGED <<KeysOf(typed), LastTyped>>
        BY <1>1, <2>15 DEF KeysOf
      <3> QED BY <1>4, <3>1, <3>2 DEF AsTypist!Strike
    <2> QED BY <2>7, <2>10, <2>14, <2>15, <2>16, <2>17 DEF Ordered, AsTypist!Next
  <1> QED BY <1>5, <1>6

(* A packet is taken: the promise is Type, when the key in it is new.         *)
LEMMA PollDataOrdered ==
  ASSUME TypeOK, TypeOK', Ordered, PollData
  PROVE  Ordered' /\ [AsTypist!Next]_AsTypist!vars
  <1> dev \in Devices /\ dev' \in Devices
    BY DEF TypeOK
  <1>1. /\ UNCHANGED <<sent, step, todo>>
        /\ Report(dev') = Report(dev) /\ dev'.valid = dev.valid
        /\ dev'.left = dev.left /\ dev'.trans = dev.trans
        /\ dev'.fifo = IF dev.fifo = <<>> THEN dev.fifo ELSE Tail(dev.fifo)
    BY DEF PollData, Devices, Report
  <1>2. dev'.keys = dev.keys
    BY <1>1 DEF Report
  <1>3. Rhythm'
    BY <1>1, <1>2 DEF Rhythm, Ordered
  <1>4. Line(Report(dev), dev.valid, dev.left, dev.trans, dev.fifo, sent, LastTyped)
    BY DEF Ordered, LineOf
  <1>5. CASE dev.fifo = <<>>
    <2>1. Stays
      BY <1>1, <1>5 DEF PollData, Stays
    <2>2. UNCHANGED AsTypist!vars /\ LastTyped' = LastTyped
      BY <2>1, StaysMaps
    <2>3. LineOf(dev, sent, LastTyped)'
      BY <1>1, <1>4, <1>5, <2>2 DEF LineOf
    <2> QED BY <1>1, <1>3, <2>2, <2>3 DEF Ordered
  <1>6. CASE dev.fifo # <<>>
    <2> DEFINE r == Head(dev.fifo)
               rest == Tail(dev.fifo)
    <2>1. /\ Report(dev) \in Reports
          /\ dev.valid \in BOOLEAN /\ dev.left \in BOOLEAN
          /\ dev.trans \in Reports /\ dev.fifo \in Seq(Reports)
      BY DEF Devices, Report, Reports
    <2>2. /\ Line(Report(dev), dev.valid, dev.left, dev.trans, rest, sent, LastTyped)
          /\ r.keys # {} =>
               Line(Report(dev), dev.valid, dev.left, dev.trans, rest, sent, r.no)
      BY <1>4, <1>6, <2>1, LastTypedType, LinePolled
    <2>3. Good(r, sent) /\ (r.keys # {} => r.no > LastTyped)
      <3>1. 1 \in 1..Len(dev.fifo) /\ r = dev.fifo[1]
        BY <1>6, <2>1
      <3> QED BY <1>4, <3>1 DEF Line
    <2>4. Take(r)
      BY <1>6 DEF PollData
    <2> HIDE DEF r
    <2>5. CASE typed' = typed
      <3>1. Stays
        BY <1>1, <2>5 DEF Stays
      <3>2. UNCHANGED AsTypist!vars /\ LastTyped' = LastTyped
        BY <3>1, StaysMaps
      <3>3. LineOf(dev, sent, LastTyped)'
        BY <1>1, <1>6, <2>2, <3>2 DEF LineOf
      <3> QED BY <1>1, <1>3, <3>2, <3>3 DEF Ordered
    <2>6. ASSUME NEW k \in r.keys,
                 typed' = Append(typed, [key |-> k, shift |-> r.shift, no |-> r.no])
          PROVE  Ordered' /\ AsTypist!Next
      <3> DEFINE new == [key |-> k, shift |-> r.shift, no |-> r.no]
      <3>1. r.no \in 1..Len(sent) /\ k = sent[r.no].key /\ r.no > LastTyped
        BY <2>3, <2>6 DEF Good
      <3>2. typed \in Seq([key : KEYS, shift : BOOLEAN, no : Nat])
        BY DEF TypeOK
      <3>3. new.key = k /\ new.no = r.no
        OBVIOUS
      <3> HIDE DEF new
      <3>4. /\ typed' = Append(typed, new) /\ typed' # <<>>
            /\ typed'[Len(typed')] = new
        BY <2>6, <3>2 DEF new
      <3>5. LastTyped' = r.no
        BY <3>3, <3>4 DEF LastTyped
      <3>6. LineOf(dev, sent, LastTyped)'
        BY <1>1, <1>6, <2>2, <2>6, <3>5 DEF LineOf
      <3>7. KeysOf(typed)' = Append(KeysOf(typed), k)
        BY <3>2, <3>3, <3>4 DEF KeysOf
      <3>8. /\ KeysOf(sent)' = KeysOf(sent)
            /\ KeysOf(sent)[r.no] = k
            /\ r.no \in 1..Len(KeysOf(sent))
        BY <1>1, <3>1, LastTypedType DEF KeysOf
      <3>9. AsTypist!Type
        BY <3>1, <3>5, <3>7, <3>8 DEF AsTypist!Type
      <3> QED BY <1>1, <1>3, <3>1, <3>5, <3>6, <3>9 DEF Ordered, AsTypist!Next
    <2> QED BY <2>4, <2>5, <2>6 DEF Take
  <1> QED BY <1>5, <1>6

(* An interrupt: the packet taken makes room for what is waiting.             *)
LEMMA InterruptOrdered ==
  ASSUME TypeOK, Ordered, HaltSent \/ AllSent \/ NextBank \/ LoadAndSend
  PROVE  LineOf(dev', sent, LastTyped) /\ Report(dev') = Report(dev)
  <1>1. /\ LastTyped \in Nat /\ sent \in Seq(Chars) /\ dev \in Devices
        /\ LineOf(dev, sent, LastTyped)
    BY LastTypedType DEF Ordered
  <1>2. CASE HaltSent
    <2> DEFINE d == OneBankLess(dev)
    <2>1. /\ d \in Devices /\ LineOf(d, sent, LastTyped)
          /\ Report(d) = Report(dev)
      BY <1>1, AfterSentType, OneBankLessLine
    <2>2. dev' = IF d.bank # 0
                 THEN [d EXCEPT !.ready = TRUE, !.complete = FALSE]
                 ELSE [d EXCEPT !.complete = FALSE, !.stall = TRUE,
                                !.stallRequested = FALSE]
      BY <1>2 DEF HaltSent
    <2> HIDE DEF d
    <2>3. Same(dev', d)
      BY <2>1, <2>2 DEF Same, Devices, Report
    <2> QED BY <2>1, <2>3, SameLine DEF Same
  <1> DEFINE a == AfterSent(dev)
  <1>3. a \in Devices /\ LineOf(a, sent, LastTyped) /\ Report(a) = Report(dev)
    BY <1>1, AfterSentType, AfterSentLine
  <1>4. CASE AllSent
    <2>1. dev' = [a EXCEPT !.irq = FALSE, !.complete = FALSE]
      BY <1>4 DEF AllSent
    <2> HIDE DEF a
    <2>2. Same(dev', a)
      BY <1>3, <2>1 DEF Same, Devices, Report
    <2> QED BY <1>3, <2>2, SameLine DEF Same
  <1>5. CASE NextBank
    <2> DEFINE e == [a EXCEPT !.ready = TRUE, !.complete = FALSE]
    <2>1. dev' = EpInSent(e, FALSE)
      BY <1>5 DEF NextBank
    <2> HIDE DEF a
    <2>2. e \in Devices /\ Same(e, a)
      BY <1>3 DEF Same, Devices, Report
    <2> HIDE DEF e
    <2>3. LineOf(e, sent, LastTyped) /\ Report(e) = Report(dev)
      BY <1>3, <2>2, SameLine DEF Same
    <2> QED BY <1>1, <2>1, <2>2, <2>3, EpInSentLine
  <1>6. CASE LoadAndSend
    <2> DEFINE l == EpInSent(a, TRUE)
               m == [l EXCEPT !.bufEnd = FALSE, !.left = FALSE]
               n == FinishJob(m)
               o == [n EXCEPT !.complete = FALSE]
    <2>1. dev' = EpInSent(o, FALSE)
      BY <1>6 DEF LoadAndSend
    <2> HIDE DEF a
    <2>2. /\ l \in Devices /\ LineOf(l, sent, LastTyped)
          /\ Report(l) = Report(dev)
      BY <1>1, <1>3, EpInSentType, EpInSentLine
    <2> HIDE DEF l
    <2>3. /\ m \in Devices /\ Report(m) = Report(l) /\ m.valid = l.valid
          /\ m.left = FALSE /\ m.trans = l.trans /\ m.fifo = l.fifo
      BY <2>2 DEF Devices, Report
    <2>4. LineOf(m, sent, LastTyped)
      BY <2>2, <2>3, LineEmptied DEF LineOf
    <2> HIDE DEF m
    <2>5. /\ n \in Devices /\ LineOf(n, sent, LastTyped)
          /\ Report(n) = Report(dev)
      BY <1>1, <2>2, <2>3, <2>4, FinishJobType, FinishJobLine
    <2> HIDE DEF n
    <2>6. o \in Devices /\ Same(o, n)
      BY <2>5 DEF Same, Devices, Report
    <2> HIDE DEF o
    <2>7. LineOf(o, sent, LastTyped) /\ Report(o) = Report(dev)
      BY <2>5, <2>6, SameLine DEF Same
    <2> QED BY <1>1, <2>1, <2>6, <2>7, EpInSentLine
  <1> QED BY <1>2, <1>4, <1>5, <1>6

(* A FIFO that is emptied; the other fields of d are no part of the line.     *)
LEMMA EmptiedLine ==
  ASSUME NEW d, NEW e, NEW s, NEW t, LineOf(d, s, t), Report(e) = Report(d),
         e.valid = d.valid, e.left = d.left, e.trans = d.trans, e.fifo = <<>>
  PROVE  LineOf(e, s, t)
  BY LineEmptied DEF LineOf

(* A reset, a request of the host: what is on its way is dropped or kept.     *)
LEMMA RequestOrdered ==
  ASSUME TypeOK, Ordered,
         \/ BusReset \/ SetConfiguration \/ SetConfigurationAgain
         \/ Unconfigure \/ SetInterface \/ SetHalt \/ ClearHalt
  PROVE  /\ LineOf(dev', sent, LastTyped)
         /\ Report(dev') = Report(dev) \/ dev'.keys = {}
  <1>1. /\ LastTyped \in Nat /\ sent \in Seq(Chars) /\ dev \in Devices
        /\ LineOf(dev, sent, LastTyped)
    BY LastTypedType DEF Ordered
  <1>2. CASE BusReset
    <2> DEFINE d1 == [dev EXCEPT !.enabled = FALSE, !.ready = FALSE,
                        !.complete = FALSE, !.stall = FALSE, !.irq = FALSE]
               lo == dev.lost \/ dev.fifo # <<>>
               d2 == [d1 EXCEPT !.lost = lo]
               d3 == [d2 EXCEPT !.fifo = <<>>]
    <2>1. dev' = AbortJob(d3)
      BY <1>2 DEF BusReset
    <2>2. lo \in BOOLEAN
      OBVIOUS
    <2> HIDE DEF lo
    <2>3. d1 \in Devices /\ Same(d1, dev)
      <3>1. d1 \in Devices
        BY <1>1, ResetType
      <3>2. Same(d1, dev)
        BY <1>1 DEF Devices, Same, Report
      <3> QED BY <3>1, <3>2
    <2> HIDE DEF d1
    <2>4. d2 \in Devices /\ Same(d2, d1)
      BY <2>2, <2>3 DEF Devices, Same, Report
    <2> HIDE DEF d2
    <2>5. d3 \in Devices
      BY <2>4, FifoType, EmptySequence
    <2>6. /\ Report(d3) = Report(d2) /\ d3.valid = d2.valid
          /\ d3.left = d2.left /\ d3.trans = d2.trans /\ d3.fifo = <<>>
      BY <2>4 DEF Devices, Report
    <2> HIDE DEF d3
    <2>7. LineOf(d2, sent, LastTyped) /\ Report(d2) = Report(dev)
      BY <1>1, <2>3, <2>4, SameLine DEF Same
    <2>8. LineOf(d3, sent, LastTyped) /\ Report(d3) = Report(dev)
      BY <2>6, <2>7, EmptiedLine
    <2> QED BY <1>1, <2>1, <2>5, <2>8, AbortJobLine
  <1>3. CASE SetConfiguration
    BY <1>1, <1>3, AllocLine DEF SetConfiguration
  <1>4. EpFree(dev) \in Devices /\ LineOf(EpFree(dev), sent, LastTyped)
        /\ Report(EpFree(dev)) = Report(dev)
    BY <1>1, EpFreeType, EpFreeLine
  <1>5. ASSUME NEW keep \in BOOLEAN
        PROVE  /\ LineOf(Configured(dev, keep), sent, LastTyped)
               /\ Configured(dev, keep).keys = {}
    BY <1>1, <1>4, AllocLine DEF Configured
  <1>6. CASE SetConfigurationAgain
    BY <1>5, <1>6 DEF SetConfigurationAgain
  <1>7. CASE Unconfigure
    BY <1>4, <1>7 DEF Unconfigure
  <1>8. CASE SetInterface
    BY <1>5, <1>8 DEF SetInterface
  <1>9. CASE SetHalt
    <2> DEFINE d1 == [dev EXCEPT !.irq = FALSE, !.ready = FALSE,
                                 !.complete = FALSE]
               d2 == [d1 EXCEPT !.bank = 0]
               lo == dev.lost \/ dev.fifo # <<>>
               d3 == [d2 EXCEPT !.lost = lo]
               d4 == [d3 EXCEPT !.fifo = <<>>]
               d == EpAbort(dev)
    <2>1. d = AbortJob(d4)
      BY DEF EpAbort
    <2>2. lo \in BOOLEAN /\ 0 \in 0..3
      OBVIOUS
    <2> HIDE DEF lo
    <2>3. d1 \in Devices /\ Same(d1, dev)
      BY <1>1 DEF Devices, Same, Report
    <2> HIDE DEF d1
    <2>4. d2 \in Devices
      BY <2>2, <2>3, BankType
    <2>5. Same(d2, d1)
      BY <2>3 DEF Devices, Same, Report
    <2> HIDE DEF d2
    <2>6. d3 \in Devices /\ Same(d3, d2)
      BY <2>2, <2>4 DEF Devices, Same, Report
    <2> HIDE DEF d3
    <2>7. d4 \in Devices
      BY <2>6, FifoType, EmptySequence
    <2>8. /\ Report(d4) = Report(d3) /\ d4.valid = d3.valid
          /\ d4.left = d3.left /\ d4.trans = d3.trans /\ d4.fifo = <<>>
      BY <2>6 DEF Devices, Report
    <2> HIDE DEF d4
    <2>9. LineOf(d2, sent, LastTyped) /\ Report(d2) = Report(dev)
      BY <1>1, <2>3, <2>5, SameLine DEF Same
    <2>10. LineOf(d3, sent, LastTyped) /\ Report(d3) = Report(dev)
      BY <2>6, <2>9, SameLine DEF Same
    <2>11. LineOf(d4, sent, LastTyped) /\ Report(d4) = Report(dev)
      BY <2>8, <2>10, EmptiedLine
    <2>12. /\ d \in Devices /\ LineOf(d, sent, LastTyped)
           /\ Report(d) = Report(dev)
      BY <1>1, <2>1, <2>7, <2>11, AbortJobLine, AbortJobType
    <2>13. \/ dev' = [d EXCEPT !.stallRequested = TRUE, !.irq = TRUE]
           \/ dev' = [d EXCEPT !.stall = TRUE, !.irq = TRUE]
      BY <1>9 DEF SetHalt
    <2> HIDE DEF d
    <2>14. Same(dev', d)
      BY <2>12, <2>13 DEF Same, Devices, Report
    <2> QED BY <2>12, <2>14, SameLine DEF Same
  <1>10. CASE ClearHalt
    <2> DEFINE d == [dev EXCEPT !.stallRequested = FALSE]
               e == [d EXCEPT !.stall = FALSE]
               lo == d.lost \/ d.busy \/ d.fifo # <<>>
               g == [e EXCEPT !.lost = lo]
               h == [g EXCEPT !.fifo = <<>>]
    <2>1. d \in Devices /\ Same(d, dev)
      BY <1>1 DEF Devices, Same, Report
    <2>2. dev' = IF dev.stall THEN FinishJob(h) ELSE d
      BY <1>10 DEF ClearHalt
    <2>3. lo \in BOOLEAN
      OBVIOUS
    <2> HIDE DEF d, lo
    <2>4. e \in Devices /\ Same(e, d)
      BY <2>1 DEF Devices, Same, Report
    <2> HIDE DEF e
    <2>5. g \in Devices /\ Same(g, e)
      BY <2>3, <2>4 DEF Devices, Same, Report
    <2> HIDE DEF g
    <2>6. h \in Devices
      BY <2>5, FifoType, EmptySequence
    <2>7. /\ Report(h) = Report(g) /\ h.valid = g.valid
          /\ h.left = g.left /\ h.trans = g.trans /\ h.fifo = <<>>
      BY <2>5 DEF Devices, Report
    <2> HIDE DEF h
    <2>8. LineOf(d, sent, LastTyped) /\ Report(d) = Report(dev)
      BY <1>1, <2>1, SameLine DEF Same
    <2>9. LineOf(e, sent, LastTyped) /\ Report(e) = Report(dev)
      BY <2>4, <2>8, SameLine DEF Same
    <2>10. LineOf(g, sent, LastTyped) /\ Report(g) = Report(dev)
      BY <2>5, <2>9, SameLine DEF Same
    <2>11. LineOf(h, sent, LastTyped) /\ Report(h) = Report(dev)
      BY <2>7, <2>10, EmptiedLine
    <2>12. /\ LineOf(FinishJob(h), sent, LastTyped)
           /\ Report(FinishJob(h)) = Report(dev)
      BY <1>1, <2>6, <2>11, FinishJobLine
    <2> QED BY <2>2, <2>8, <2>12
  <1> QED BY <1>2, <1>3, <1>6, <1>7, <1>8, <1>9, <1>10

LEMMA StepOrdered ==
  ASSUME TypeOK, TypeOK', Ordered, [Next]_vars
  PROVE  Ordered' /\ [AsTypist!Next]_AsTypist!vars
  <1>1. ASSUME Stays, step # "up", UNCHANGED <<dev, step>>
        PROVE  Ordered' /\ UNCHANGED AsTypist!vars
    <2>1. UNCHANGED AsTypist!vars /\ LastTyped' = LastTyped
      BY <1>1, StaysMaps
    <2>2. LineOf(dev, sent, LastTyped)'
      BY <1>1, <2>1 DEF Ordered, Stays
    <2> QED BY <1>1, <2>1, <2>2 DEF Ordered, Rhythm, Stays
  <1>2. CASE UNCHANGED vars
    <2>1. Stays /\ UNCHANGED <<step, todo>> /\ dev' = dev
      BY <1>2 DEF vars, Stays
    <2> QED BY <2>1, QuietStep DEF Ordered
  <1>3. ASSUME NEW text \in Texts(MAX_CHARS), LongPress(text)
        PROVE  Ordered' /\ UNCHANGED AsTypist!vars
    <2>1. Stays /\ step # "up" /\ UNCHANGED <<dev, step>>
      BY <1>3 DEF LongPress, Stays, Ordered, Rhythm
    <2> QED BY <1>1, <2>1
  <1>4. CASE SkipUnmapped
    <2>1. Stays /\ step # "up" /\ UNCHANGED <<dev, step>>
      BY <1>4 DEF SkipUnmapped, Stays, Ordered, Rhythm
    <2> QED BY <1>1, <2>1
  <1>5. CASE ModifierDown \/ Up \/ ModifierUp
    BY <1>5, CallsOrdered
  <1>6. CASE Down
    BY <1>6, DownOrdered
  <1>7. CASE PollData
    BY <1>7, PollDataOrdered
  <1>8. CASE PollNothing \/ SetAddress
    <2>1. Stays /\ UNCHANGED <<step, todo>> /\ dev' = dev
      BY <1>8 DEF PollNothing, SetAddress, Stays
    <2> QED BY <2>1, QuietStep DEF Ordered
  <1>9. CASE HaltSent \/ AllSent \/ NextBank \/ LoadAndSend
    <2>1. Stays /\ UNCHANGED <<step, todo>>
      BY <1>9 DEF HaltSent, AllSent, NextBank, LoadAndSend, Interrupt, Stays
    <2> QED BY <1>9, <2>1, InterruptOrdered, QuietStep
  <1>10. CASE \/ BusReset \/ SetConfiguration \/ SetConfigurationAgain
              \/ Unconfigure \/ SetInterface \/ SetHalt \/ ClearHalt
    <2>1. Stays /\ UNCHANGED <<step, todo>>
      BY <1>10 DEF BusReset, SetConfiguration, SetConfigurationAgain,
                   Unconfigure, SetInterface, SetHalt, ClearHalt, Event, Stays
    <2> QED BY <1>10, <2>1, RequestOrdered, QuietStep
  <1> QED
    BY <1>2, <1>3, <1>4, <1>5, <1>6, <1>7, <1>8, <1>9, <1>10
    DEF Next, SendKeys, UdpInterrupt, Host, Faults

LEMMA InitOrdered == Init => Ordered /\ AsTypist!Init
  <1> SUFFICES ASSUME Init PROVE Ordered /\ AsTypist!Init
    OBVIOUS
  <1>1. /\ dev.no = 0 /\ dev.keys = {} /\ dev.valid = FALSE
        /\ dev.left = FALSE /\ dev.fifo = <<>>
    BY DEF Init
  <1>2. LastTyped = 0 /\ sent = <<>> /\ typed = <<>> /\ step = "modifier_down"
    BY DEF Init, LastTyped
  <1>3. LineOf(dev, sent, LastTyped)
    BY <1>1, <1>2 DEF LineOf, Line, Good, Report
  <1>4. KeysOf(sent) = <<>> /\ KeysOf(typed) = <<>>
    BY <1>2 DEF KeysOf
  <1> QED BY <1>1, <1>2, <1>3, <1>4 DEF Ordered, Rhythm, AsTypist!Init

(* Whatever the host does to the endpoint, and however late it polls, the     *)
(* keys it types are some of those struck, once each and in their order.      *)
THEOREM ImplementsTypist == Spec => TypedInOrder
  <1>1. Init => Ordered /\ AsTypist!Init
    BY InitOrdered
  <1>2. TypeOK /\ TypeOK' /\ Ordered /\ [Next]_vars
          => Ordered' /\ [AsTypist!Next]_AsTypist!vars
    BY StepOrdered
  <1> QED BY <1>1, <1>2, TypeCorrect, PTL DEF Spec, TypedInOrder, AsTypist!Spec

-----------------------------------------------------------------------------
(* The case of the keys.  Whatever the endpoint does, the reports on their    *)
(* way are some of those that were (From), and once a report is lost, lost    *)
(* stays set.  So it is enough that the report itself has the shift of the    *)
(* character whose key it holds; only a new configuration can take the shift  *)
(* away under a key, and then lost is set.                                    *)

Underway(d) == {Report(d), d.trans} \cup {d.fifo[i] : i \in 1..Len(d.fifo)}

From(e, d) ==
  /\ Report(e) = Report(d)
  /\ Underway(e) \subseteq Underway(d)
  /\ d.lost => e.lost

LEMMA FromRefl == ASSUME NEW d PROVE From(d, d)
  BY DEF From

LEMMA FromTrans ==
  ASSUME NEW d, NEW e, NEW g, From(e, d), From(g, e)
  PROVE  From(g, d)
  BY DEF From

(* Fields that are no report may change, and the FIFO may be emptied.         *)
LEMMA FromSame ==
  ASSUME NEW d, NEW e, e.shift = d.shift, e.keys = d.keys, e.no = d.no,
         e.trans = d.trans, e.fifo \in {d.fifo, <<>>}, d.lost => e.lost
  PROVE  From(e, d)
  <1>1. Report(e) = Report(d)
    BY DEF Report
  <1>2. {e.fifo[i] : i \in 1..Len(e.fifo)} \subseteq {d.fifo[i] : i \in 1..Len(d.fifo)}
    OBVIOUS
  <1> QED BY <1>1, <1>2 DEF From, Underway

LEMMA EpInSentFrom ==
  ASSUME NEW d \in Devices, NEW x \in BOOLEAN
  PROVE  From(EpInSent(d, x), d)
  <1> DEFINE e == EpInSent(d, x)
  <1>1. CASE d.bank >= BANKS \/ ~d.left
    BY <1>1, FromRefl DEF EpInSent
  <1>2. CASE ~(d.bank >= BANKS \/ ~d.left)
    <2>1. /\ Report(e) = Report(d) /\ e.lost = d.lost
          /\ e.trans = d.trans /\ e.fifo = Append(d.fifo, d.trans)
      BY <1>2 DEF EpInSent, Devices, Report
    <2>2. PICK f \in Seq(Reports) : f = d.fifo
      BY DEF Devices
    <2>3. PICK t \in Reports : t = d.trans
      BY DEF Devices
    <2>4. /\ Len(Append(f, t)) = Len(f) + 1 /\ Append(f, t)[Len(f) + 1] = t
          /\ \A i \in 1..Len(f) : Append(f, t)[i] = f[i]
      OBVIOUS
    <2>5. \A i \in 1..Len(Append(f, t)) : i \in 1..Len(f) \/ i = Len(f) + 1
      BY <2>4
    <2>6. \A i \in 1..Len(e.fifo) : e.fifo[i] \in Underway(d)
      BY <2>1, <2>2, <2>3, <2>4, <2>5 DEF Underway
    <2> HIDE DEF e
    <2>7. Underway(e) \subseteq Underway(d)
      BY <2>1, <2>6 DEF Underway
    <2> QED BY <2>1, <2>7 DEF From, e
  <1> QED BY <1>1, <1>2

LEMMA SendReportFrom ==
  ASSUME NEW d \in Devices
  PROVE  From(SendReport(d), d)
  <1> DEFINE taken == [d EXCEPT !.trans = Report(d), !.valid = FALSE]
             dropped == [taken EXCEPT !.lost = TRUE]
             job == [taken EXCEPT !.busy = TRUE, !.left = TRUE,
                                  !.bufEnd = FALSE, !.irq = TRUE]
             run == EpRun(taken)
             sending == [run EXCEPT !.ongoing = TRUE]
  <1>1. Report(d) \in Reports
    BY DEF Report, Reports, Devices
  <1>2. taken \in Devices
    BY <1>1 DEF Devices
  <1>3. /\ Report(taken) = Report(d) /\ taken.trans = Report(d)
        /\ taken.fifo = d.fifo /\ taken.lost = d.lost
    BY DEF Devices, Report
  <1> HIDE DEF taken
  <1>4. From(taken, d)
    BY <1>3 DEF From, Underway
  <1>5. From(dropped, taken)
    <2>1. /\ dropped.shift = taken.shift /\ dropped.keys = taken.keys
          /\ dropped.no = taken.no /\ dropped.trans = taken.trans
          /\ dropped.fifo = taken.fifo /\ dropped.lost = TRUE
      BY <1>2 DEF Devices
    <2> QED BY <2>1, FromSame
  <1>6. job \in Devices /\ From(job, taken)
    <2>1. /\ job.shift = taken.shift /\ job.keys = taken.keys
          /\ job.no = taken.no /\ job.trans = taken.trans
          /\ job.fifo = taken.fifo /\ job.lost = taken.lost
      BY <1>2 DEF Devices
    <2>2. job \in Devices
      BY <1>2 DEF Devices
    <2> HIDE DEF job
    <2> QED BY <2>1, <2>2, FromSame
  <1>7. run = IF taken.ready \/ taken.complete THEN job ELSE EpInSent(job, TRUE)
    BY DEF EpRun
  <1> HIDE DEF job, run, dropped
  <1>8. run \in Devices /\ From(run, taken)
    <2>1. EpInSent(job, TRUE) \in Devices /\ From(EpInSent(job, TRUE), job)
      BY <1>6, EpInSentType, EpInSentFrom
    <2> QED BY <1>6, <1>7, <2>1, FromTrans
  <1>9. From(sending, run)
    <2>1. /\ sending.shift = run.shift /\ sending.keys = run.keys
          /\ sending.no = run.no /\ sending.trans = run.trans
          /\ sending.fifo = run.fifo /\ sending.lost = run.lost
      BY <1>8 DEF Devices
    <2> HIDE DEF sending
    <2> QED BY <2>1, FromSame
  <1>10. SendReport(d) = IF d.ongoing THEN d ELSE
                         IF Refuses(taken) THEN dropped ELSE sending
    BY DEF SendReport, taken, dropped, run
  <1> HIDE DEF sending
  <1>11. From(dropped, d) /\ From(sending, d)
    BY <1>4, <1>5, <1>8, <1>9, FromTrans
  <1> QED BY <1>10, <1>11, FromRefl

LEMMA FinishJobFrom ==
  ASSUME NEW d \in Devices
  PROVE  From(FinishJob(d), d)
  <1> DEFINE e == [d EXCEPT !.busy = FALSE]
             idle == [e EXCEPT !.ongoing = FALSE]
  <1>1. /\ idle \in Devices /\ idle.shift = d.shift /\ idle.keys = d.keys
        /\ idle.no = d.no /\ idle.trans = d.trans /\ idle.fifo = d.fifo
        /\ idle.lost = d.lost
    BY DEF Devices
  <1>2. FinishJob(d) = IF d.busy THEN IF e.valid THEN SendReport(idle) ELSE idle
                       ELSE d
    BY DEF FinishJob, ReportSent
  <1> HIDE DEF e, idle
  <1>3. From(idle, d)
    BY <1>1, FromSame
  <1>4. From(SendReport(idle), d)
    BY <1>1, <1>3, SendReportFrom, FromTrans
  <1> QED BY <1>2, <1>3, <1>4, FromRefl

LEMMA AbortJobFrom ==
  ASSUME NEW d \in Devices
  PROVE  From(AbortJob(d), d)
  <1> DEFINE e == [d EXCEPT !.lost = d.lost \/ d.busy]
  <1>1. (d.lost \/ d.busy) \in BOOLEAN
    OBVIOUS
  <1>2. /\ e \in Devices /\ e.shift = d.shift /\ e.keys = d.keys
        /\ e.no = d.no /\ e.trans = d.trans /\ e.fifo = d.fifo
        /\ (d.lost => e.lost)
    BY <1>1 DEF Devices
  <1>3. AbortJob(d) = FinishJob(e)
    BY DEF AbortJob
  <1> HIDE DEF e
  <1>4. From(e, d)
    BY <1>2, FromSame
  <1> QED BY <1>2, <1>3, <1>4, FinishJobFrom, FromTrans

LEMMA AfterSentFrom ==
  ASSUME NEW d \in Devices
  PROVE  From(OneBankLess(d), d) /\ From(AfterSent(d), d)
  <1> DEFINE b == OneBankLess(d)
             e == [b EXCEPT !.bufEnd = FALSE, !.left = FALSE]
  <1>1. b \in Devices
    BY AfterSentType
  <1>2. /\ b.shift = d.shift /\ b.keys = d.keys /\ b.no = d.no
        /\ b.trans = d.trans /\ b.fifo = d.fifo /\ b.lost = d.lost
    BY DEF OneBankLess, Devices
  <1>3. AfterSent(d) = IF b.bufEnd THEN FinishJob(e) ELSE b
    BY DEF AfterSent
  <1> HIDE DEF b
  <1>4. From(b, d)
    BY <1>2, FromSame
  <1>5. /\ e \in Devices /\ e.shift = b.shift /\ e.keys = b.keys /\ e.no = b.no
        /\ e.trans = b.trans /\ e.fifo = b.fifo /\ e.lost = b.lost
    BY <1>1 DEF Devices
  <1> HIDE DEF e
  <1>6. From(e, b)
    BY <1>5, FromSame
  <1>7. From(FinishJob(e), d)
    BY <1>4, <1>5, <1>6, FinishJobFrom, FromTrans
  <1> QED BY <1>3, <1>4, <1>7 DEF b

LEMMA EpFreeFrom ==
  ASSUME NEW d \in Devices
  PROVE  From(EpFree(d), d)
  <1> DEFINE e == [d EXCEPT !.enabled = FALSE]
  <1>1. /\ e \in Devices /\ e.shift = d.shift /\ e.keys = d.keys
        /\ e.no = d.no /\ e.trans = d.trans /\ e.fifo = d.fifo
        /\ e.lost = d.lost
    BY DEF Devices
  <1>2. EpFree(d) = AbortJob(e)
    BY DEF EpFree
  <1> HIDE DEF e
  <1>3. From(e, d)
    BY <1>1, FromSame
  <1> QED BY <1>1, <1>2, <1>3, AbortJobFrom, FromTrans

(* A new configuration clears the report, and says so if it held anything.    *)
Cleared(e, d) ==
  /\ e.keys = {} /\ e.shift = FALSE
  /\ Underway(e) \subseteq Underway(d) \cup {Report(e)}
  /\ d.lost \/ d.shift => e.lost

LEMMA AllocCleared ==
  ASSUME NEW d \in Devices, NEW keep \in BOOLEAN
  PROVE  Cleared(HidEnable(EpAlloc(d, keep)), d)
  <1> DEFINE e == EpAlloc(d, keep)
             g == HidEnable(e)
             lo == e.lost \/ e.shift \/ e.keys # {}
  <1>1. e \in Devices
    BY EpAllocType
  <1>2. /\ e.shift = d.shift /\ e.trans = d.trans /\ e.fifo = <<>>
        /\ (d.lost => e.lost)
    BY DEF EpAlloc, Devices
  <1> HIDE DEF e
  <1>3. lo \in BOOLEAN
    OBVIOUS
  <1>4. /\ g.keys = {} /\ g.shift = FALSE /\ g.trans = e.trans
        /\ g.fifo = e.fifo /\ g.lost = lo
    BY <1>1 DEF HidEnable, Devices
  <1> HIDE DEF g
  <1>5. Underway(g) \subseteq Underway(d) \cup {Report(g)}
    BY <1>2, <1>4 DEF Underway
  <1>6. d.lost \/ d.shift => g.lost
    BY <1>2, <1>4
  <1> QED BY <1>4, <1>5, <1>6 DEF Cleared, e, g

LEMMA InterruptFrom ==
  ASSUME TypeOK, HaltSent \/ AllSent \/ NextBank \/ LoadAndSend
  PROVE  From(dev', dev)
  <1>1. dev \in Devices
    BY DEF TypeOK
  <1>2. CASE HaltSent
    <2> DEFINE d == OneBankLess(dev)
    <2>1. d \in Devices /\ From(d, dev)
      BY <1>1, AfterSentType, AfterSentFrom
    <2>2. dev' = IF d.bank # 0
                 THEN [d EXCEPT !.ready = TRUE, !.complete = FALSE]
                 ELSE [d EXCEPT !.complete = FALSE, !.stall = TRUE,
                                !.stallRequested = FALSE]
      BY <1>2 DEF HaltSent
    <2> HIDE DEF d
    <2>3. /\ dev'.shift = d.shift /\ dev'.keys = d.keys /\ dev'.no = d.no
          /\ dev'.trans = d.trans /\ dev'.fifo = d.fifo /\ dev'.lost = d.lost
      BY <2>1, <2>2 DEF Devices
    <2>4. From(dev', d)
      BY <2>3, FromSame
    <2> QED BY <2>1, <2>4, FromTrans
  <1> DEFINE a == AfterSent(dev)
  <1>3. a \in Devices /\ From(a, dev)
    BY <1>1, AfterSentType, AfterSentFrom
  <1>4. CASE AllSent
    <2>1. dev' = [a EXCEPT !.irq = FALSE, !.complete = FALSE]
      BY <1>4 DEF AllSent
    <2> HIDE DEF a
    <2>2. /\ dev'.shift = a.shift /\ dev'.keys = a.keys /\ dev'.no = a.no
          /\ dev'.trans = a.trans /\ dev'.fifo = a.fifo /\ dev'.lost = a.lost
      BY <1>3, <2>1 DEF Devices
    <2>3. From(dev', a)
      BY <2>2, FromSame
    <2> QED BY <1>3, <2>3, FromTrans
  <1>5. CASE NextBank
    <2> DEFINE e == [a EXCEPT !.ready = TRUE, !.complete = FALSE]
    <2>1. dev' = EpInSent(e, FALSE)
      BY <1>5 DEF NextBank
    <2> HIDE DEF a
    <2>2. /\ e \in Devices /\ e.shift = a.shift /\ e.keys = a.keys /\ e.no = a.no
          /\ e.trans = a.trans /\ e.fifo = a.fifo /\ e.lost = a.lost
      BY <1>3 DEF Devices
    <2> HIDE DEF e
    <2>3. From(e, a) /\ From(dev', e)
      BY <2>1, <2>2, FromSame, EpInSentFrom
    <2> QED BY <1>3, <2>3, FromTrans
  <1>6. CASE LoadAndSend
    <2> DEFINE l == EpInSent(a, TRUE)
               m == [l EXCEPT !.bufEnd = FALSE, !.left = FALSE]
               n == FinishJob(m)
               o == [n EXCEPT !.complete = FALSE]
    <2>1. dev' = EpInSent(o, FALSE)
      BY <1>6 DEF LoadAndSend
    <2> HIDE DEF a
    <2>2. l \in Devices /\ From(l, a)
      BY <1>3, EpInSentType, EpInSentFrom
    <2> HIDE DEF l
    <2>3. /\ m \in Devices /\ m.shift = l.shift /\ m.keys = l.keys /\ m.no = l.no
          /\ m.trans = l.trans /\ m.fifo = l.fifo /\ m.lost = l.lost
      BY <2>2 DEF Devices
    <2> HIDE DEF m
    <2>4. From(m, l)
      BY <2>3, FromSame
    <2>5. n \in Devices /\ From(n, m)
      BY <2>3, FinishJobType, FinishJobFrom
    <2> HIDE DEF n
    <2>6. /\ o \in Devices /\ o.shift = n.shift /\ o.keys = n.keys /\ o.no = n.no
          /\ o.trans = n.trans /\ o.fifo = n.fifo /\ o.lost = n.lost
      BY <2>5 DEF Devices
    <2> HIDE DEF o
    <2>7. From(o, n) /\ From(dev', o)
      BY <2>1, <2>6, FromSame, EpInSentFrom
    <2>8. From(m, dev)
      BY <1>3, <2>2, <2>4, FromTrans
    <2>9. From(o, dev)
      BY <2>5, <2>7, <2>8, FromTrans
    <2> QED BY <2>7, <2>9, FromTrans
  <1> QED BY <1>2, <1>4, <1>5, <1>6

LEMMA RequestFrom ==
  ASSUME TypeOK,
         \/ BusReset \/ SetConfiguration \/ SetConfigurationAgain
         \/ Unconfigure \/ SetInterface \/ SetHalt \/ ClearHalt
  PROVE  From(dev', dev) \/ Cleared(dev', dev)
  <1>1. dev \in Devices
    BY DEF TypeOK
  <1>2. CASE BusReset
    <2> DEFINE d1 == [dev EXCEPT !.enabled = FALSE, !.ready = FALSE,
                        !.complete = FALSE, !.stall = FALSE, !.irq = FALSE]
               lo == dev.lost \/ dev.fifo # <<>>
               d2 == [d1 EXCEPT !.lost = lo]
               d3 == [d2 EXCEPT !.fifo = <<>>]
    <2>1. dev' = AbortJob(d3)
      BY <1>2 DEF BusReset
    <2>2. lo \in BOOLEAN
      OBVIOUS
    <2>3. dev.lost => lo
      OBVIOUS
    <2> HIDE DEF lo
    <2>4. /\ d2 \in Devices /\ d2.shift = dev.shift /\ d2.keys = dev.keys
          /\ d2.no = dev.no /\ d2.trans = dev.trans /\ d2.fifo = dev.fifo
          /\ d2.lost = lo
      <3>1. d1 \in Devices
        BY <1>1, ResetType
      <3>2. /\ d1.shift = dev.shift /\ d1.keys = dev.keys /\ d1.no = dev.no
            /\ d1.trans = dev.trans /\ d1.fifo = dev.fifo
        BY <1>1 DEF Devices
      <3> HIDE DEF d1
      <3> QED BY <2>2, <3>1, <3>2 DEF Devices
    <2> HIDE DEF d2
    <2>5. d3 \in Devices
      BY <2>4, FifoType, EmptySequence
    <2>6. /\ d3.shift = d2.shift /\ d3.keys = d2.keys /\ d3.no = d2.no
          /\ d3.trans = d2.trans /\ d3.fifo = <<>> /\ d3.lost = d2.lost
      BY <2>4 DEF Devices
    <2> HIDE DEF d3
    <2>7. From(d2, dev) /\ From(d3, d2)
      BY <2>3, <2>4, <2>6, FromSame
    <2>8. From(d3, dev) /\ From(dev', d3)
      BY <2>1, <2>5, <2>7, FromTrans, AbortJobFrom
    <2> QED BY <2>8, FromTrans
  <1>3. CASE SetConfiguration
    BY <1>1, <1>3, AllocCleared DEF SetConfiguration
  <1>4. EpFree(dev) \in Devices /\ From(EpFree(dev), dev)
    BY <1>1, EpFreeType, EpFreeFrom
  <1>5. ASSUME NEW keep \in BOOLEAN
        PROVE  Cleared(Configured(dev, keep), dev)
    <2>1. PICK d : d = EpFree(dev)
      OBVIOUS
    <2>2. PICK e : e = Configured(dev, keep)
      OBVIOUS
    <2>3. Cleared(e, d)
      BY <1>4, <2>1, <2>2, AllocCleared DEF Configured
    <2>4. d.shift = dev.shift /\ (dev.lost => d.lost) /\ Underway(d) \subseteq Underway(dev)
      BY <1>4, <2>1 DEF From, Report
    <2>5. Cleared(e, dev)
      BY <2>3, <2>4 DEF Cleared
    <2> QED BY <2>2, <2>5
  <1>6. CASE SetConfigurationAgain
    BY <1>5, <1>6 DEF SetConfigurationAgain
  <1>7. CASE Unconfigure
    BY <1>4, <1>7 DEF Unconfigure
  <1>8. CASE SetInterface
    BY <1>5, <1>8 DEF SetInterface
  <1>9. CASE SetHalt
    <2> DEFINE d1 == [dev EXCEPT !.irq = FALSE, !.ready = FALSE,
                                 !.complete = FALSE]
               d2 == [d1 EXCEPT !.bank = 0]
               lo == dev.lost \/ dev.fifo # <<>>
               d3 == [d2 EXCEPT !.lost = lo]
               d4 == [d3 EXCEPT !.fifo = <<>>]
               d == EpAbort(dev)
    <2>1. d = AbortJob(d4)
      BY DEF EpAbort
    <2>2. lo \in BOOLEAN /\ 0 \in 0..3 /\ (dev.lost => lo)
      OBVIOUS
    <2> HIDE DEF lo
    <2>3. d1 \in Devices
      BY <1>1 DEF Devices
    <2>4. /\ d1.shift = dev.shift /\ d1.keys = dev.keys /\ d1.no = dev.no
          /\ d1.trans = dev.trans /\ d1.fifo = dev.fifo
      BY <1>1 DEF Devices
    <2> HIDE DEF d1
    <2>5. d2 \in Devices
      BY <2>2, <2>3, BankType
    <2>6. /\ d2.shift = d1.shift /\ d2.keys = d1.keys /\ d2.no = d1.no
          /\ d2.trans = d1.trans /\ d2.fifo = d1.fifo
      BY <2>3 DEF Devices
    <2> HIDE DEF d2
    <2>7. d3 \in Devices
      BY <2>2, <2>5 DEF Devices
    <2>8. /\ d3.shift = d2.shift /\ d3.keys = d2.keys /\ d3.no = d2.no
          /\ d3.trans = d2.trans /\ d3.fifo = d2.fifo /\ d3.lost = lo
      BY <2>5 DEF Devices
    <2> HIDE DEF d3
    <2>9. d4 \in Devices
      BY <2>7, FifoType, EmptySequence
    <2>10. /\ d4.shift = d3.shift /\ d4.keys = d3.keys /\ d4.no = d3.no
           /\ d4.trans = d3.trans /\ d4.fifo = <<>> /\ d4.lost = d3.lost
      BY <2>7 DEF Devices
    <2> HIDE DEF d4
    <2>11. From(d3, dev) /\ From(d4, d3)
      BY <2>2, <2>4, <2>6, <2>8, <2>10, FromSame
    <2>12. d \in Devices /\ From(d, d4) /\ From(d4, dev)
      BY <2>1, <2>9, <2>11, FromTrans, AbortJobType, AbortJobFrom
    <2>13. \/ dev' = [d EXCEPT !.stallRequested = TRUE, !.irq = TRUE]
           \/ dev' = [d EXCEPT !.stall = TRUE, !.irq = TRUE]
      BY <1>9 DEF SetHalt
    <2> HIDE DEF d
    <2>14. /\ dev'.shift = d.shift /\ dev'.keys = d.keys /\ dev'.no = d.no
           /\ dev'.trans = d.trans /\ dev'.fifo = d.fifo /\ dev'.lost = d.lost
      BY <2>12, <2>13 DEF Devices
    <2>15. From(dev', d) /\ From(d, dev)
      BY <2>12, <2>14, FromSame, FromTrans
    <2> QED BY <2>15, FromTrans
  <1>10. CASE ClearHalt
    <2> DEFINE d == [dev EXCEPT !.stallRequested = FALSE]
               e == [d EXCEPT !.stall = FALSE]
               lo == d.lost \/ d.busy \/ d.fifo # <<>>
               g == [e EXCEPT !.lost = lo]
               h == [g EXCEPT !.fifo = <<>>]
    <2>1. /\ d \in Devices /\ d.shift = dev.shift /\ d.keys = dev.keys
          /\ d.no = dev.no /\ d.trans = dev.trans /\ d.fifo = dev.fifo
          /\ d.lost = dev.lost
      BY <1>1 DEF Devices
    <2>2. dev' = IF dev.stall THEN FinishJob(h) ELSE d
      BY <1>10 DEF ClearHalt
    <2>3. lo \in BOOLEAN /\ (d.lost => lo)
      OBVIOUS
    <2> HIDE DEF d, lo
    <2>4. /\ e \in Devices /\ e.shift = d.shift /\ e.keys = d.keys
          /\ e.no = d.no /\ e.trans = d.trans /\ e.fifo = d.fifo
      BY <2>1 DEF Devices
    <2> HIDE DEF e
    <2>5. /\ g \in Devices /\ g.shift = e.shift /\ g.keys = e.keys
          /\ g.no = e.no /\ g.trans = e.trans /\ g.fifo = e.fifo /\ g.lost = lo
      BY <2>3, <2>4 DEF Devices
    <2> HIDE DEF g
    <2>6. h \in Devices
      BY <2>5, FifoType, EmptySequence
    <2>7. /\ h.shift = g.shift /\ h.keys = g.keys /\ h.no = g.no
          /\ h.trans = g.trans /\ h.fifo = <<>> /\ h.lost = g.lost
      BY <2>5 DEF Devices
    <2> HIDE DEF h
    <2>8. From(d, dev) /\ From(g, d) /\ From(h, g)
      BY <2>1, <2>3, <2>4, <2>5, <2>7, FromSame
    <2>9. From(g, dev)
      BY <2>8, FromTrans
    <2>10. From(h, dev) /\ From(FinishJob(h), h)
      BY <2>6, <2>8, <2>9, FromTrans, FinishJobFrom
    <2>11. From(FinishJob(h), dev)
      BY <2>10, FromTrans
    <2> QED BY <2>2, <2>8, <2>11
  <1> QED BY <1>2, <1>3, <1>6, <1>7, <1>8, <1>9, <1>10

(* The shift is that of the character under way, or off between two.          *)
Shifted ==
  IF step = "modifier_down" THEN dev.shift = FALSE
  ELSE todo # <<>> /\ Head(todo) # UNMAPPED /\ dev.shift = Head(todo).shift

InCase(r, s) == r.keys # {} => r.no \in 1..Len(s) /\ r.shift = s[r.no].shift

CasedTo(d, s) == \A r \in Underway(d) : InCase(r, s)

WasInCase ==
  \A i \in 1..Len(typed) :
    typed[i].no \in 1..Len(sent) /\ typed[i].shift = sent[typed[i].no].shift

Cased == ~dev.lost => Shifted /\ CasedTo(dev, sent) /\ WasInCase

LEMMA FromCased ==
  ASSUME NEW d, NEW e, NEW s, CasedTo(d, s), From(e, d) \/ Cleared(e, d)
  PROVE  CasedTo(e, s)
  BY DEF CasedTo, InCase, From, Cleared, Report

(* A step that strikes no key and types none.                                 *)
LEMMA QuietCased ==
  ASSUME TypeOK, Cased, UNCHANGED <<sent, typed, step, todo>>,
         From(dev', dev) \/ Cleared(dev', dev)
  PROVE  Cased'
  <1> SUFFICES ASSUME ~dev'.lost PROVE (Shifted /\ CasedTo(dev, sent) /\ WasInCase)'
    BY DEF Cased
  <1>1. ~dev.lost
    BY DEF From, Cleared
  <1>2. Shifted /\ CasedTo(dev, sent) /\ WasInCase
    BY <1>1 DEF Cased
  <1>3. dev'.shift = dev.shift
    <2>1. dev.shift \in BOOLEAN
      BY DEF TypeOK, Devices
    <2>2. CASE From(dev', dev)
      BY <2>2 DEF From, Report
    <2>3. CASE Cleared(dev', dev)
      BY <2>1, <2>3 DEF Cleared
    <2> QED BY <2>2, <2>3
  <1>4. Shifted'
    BY <1>2, <1>3 DEF Shifted
  <1>5. CasedTo(dev', sent)
    BY <1>2, FromCased
  <1>6. CasedTo(dev, sent)'
    BY <1>5 DEF CasedTo
  <1>7. WasInCase'
    BY <1>2 DEF WasInCase
  <1> QED BY <1>4, <1>6, <1>7

(* A call whose report e holds no key that d did not hold.                    *)
LEMMA CallCased ==
  ASSUME NEW d \in Devices, NEW e \in Devices, NEW s, CasedTo(d, s),
         e.trans = d.trans, e.fifo = d.fifo, InCase(Report(e), s)
  PROVE  CasedTo(SendReport(e), s)
  <1>1. CasedTo(e, s)
    BY DEF CasedTo, Underway
  <1> QED BY <1>1, SendReportFrom, FromCased

LEMMA CallKeeps ==
  ASSUME NEW e \in Devices
  PROVE  /\ SendReport(e).shift = e.shift
         /\ e.lost => SendReport(e).lost
  BY SendReportFrom DEF From, Report

LEMMA CallsCased ==
  ASSUME TypeOK, Ordered, Cased, ModifierDown \/ Up \/ ModifierUp
  PROVE  Cased'
  <1> SUFFICES ASSUME ~dev'.lost PROVE (Shifted /\ CasedTo(dev, sent) /\ WasInCase)'
    BY DEF Cased
  <1>1. dev \in Devices /\ dev.shift \in BOOLEAN
    BY DEF TypeOK, Devices
  <1>2. UNCHANGED <<sent, typed>>
    BY DEF ModifierDown, Up, ModifierUp, Call
  <1>4. CASE ModifierDown
    <2> PICK c \in Chars :
          /\ Call("modifier_down", "down", c)
          /\ dev' = SendReport([dev EXCEPT !.shift = @ \/ c.shift, !.valid = TRUE])
      BY <1>4 DEF ModifierDown
    <2> DEFINE sh == dev.shift \/ c.shift
               e == [dev EXCEPT !.shift = sh, !.valid = TRUE]
    <2>1. sh \in BOOLEAN /\ dev' = SendReport(e)
      OBVIOUS
    <2>2. /\ step = "modifier_down" /\ step' = "down" /\ todo # <<>>
          /\ Head(todo) # UNMAPPED /\ c = Head(todo) /\ todo' = todo
      BY <1>4 DEF Call, ModifierDown
    <2>3. sh <=> dev.shift \/ c.shift
      OBVIOUS
    <2> HIDE DEF sh
    <2>4. /\ e \in Devices /\ e.shift = sh /\ e.keys = dev.keys
          /\ e.trans = dev.trans /\ e.fifo = dev.fifo /\ e.lost = dev.lost
      BY <1>1, <2>1 DEF Devices
    <2> HIDE DEF e
    <2>5. ~dev.lost /\ dev'.shift = sh
      BY <2>1, <2>4, CallKeeps
    <2>6. Shifted /\ CasedTo(dev, sent) /\ WasInCase
      BY <2>5 DEF Cased
    <2>7. InCase(Report(e), sent)
      BY <2>2, <2>4 DEF InCase, Report, Ordered, Rhythm
    <2>8. CasedTo(dev', sent)
      BY <1>1, <2>1, <2>4, <2>6, <2>7, CallCased
    <2>9. sh = c.shift
      <3>1. c.shift \in BOOLEAN
        BY <2>2 DEF Chars
      <3>2. dev.shift = FALSE
        BY <2>2, <2>6 DEF Shifted
      <3> QED BY <2>1, <2>3, <3>1, <3>2
    <2>10. Shifted'
      BY <2>2, <2>5, <2>9 DEF Shifted
    <2> QED BY <1>2, <2>6, <2>8, <2>10 DEF CasedTo, WasInCase
  <1>5. CASE ModifierUp
    <2> PICK c \in Chars :
          /\ Call("modifier_up", "modifier_down", c)
          /\ dev' = SendReport([dev EXCEPT !.shift = @ /\ ~c.shift, !.valid = TRUE])
      BY <1>5 DEF ModifierUp
    <2> DEFINE sh == dev.shift /\ ~c.shift
               e == [dev EXCEPT !.shift = sh, !.valid = TRUE]
    <2>1. sh \in BOOLEAN /\ dev' = SendReport(e)
      OBVIOUS
    <2>2. /\ step = "modifier_up" /\ step' = "modifier_down" /\ c = Head(todo)
      BY DEF Call
    <2>3. sh <=> dev.shift /\ ~c.shift
      OBVIOUS
    <2> HIDE DEF sh
    <2>4. /\ e \in Devices /\ e.shift = sh /\ e.keys = dev.keys
          /\ e.trans = dev.trans /\ e.fifo = dev.fifo /\ e.lost = dev.lost
      BY <1>1, <2>1 DEF Devices
    <2> HIDE DEF e
    <2>5. ~dev.lost /\ dev'.shift = sh
      BY <2>1, <2>4, CallKeeps
    <2>6. Shifted /\ CasedTo(dev, sent) /\ WasInCase
      BY <2>5 DEF Cased
    <2>7. InCase(Report(e), sent)
      BY <2>2, <2>4 DEF InCase, Report, Ordered, Rhythm
    <2>8. CasedTo(dev', sent)
      BY <1>1, <2>1, <2>4, <2>6, <2>7, CallCased
    <2>9. sh = FALSE
      <3>1. dev.shift = c.shift
        BY <2>2, <2>6 DEF Shifted
      <3> QED BY <2>1, <2>3, <3>1
    <2>10. Shifted'
      BY <2>2, <2>5, <2>9 DEF Shifted
    <2> QED BY <1>2, <2>6, <2>8, <2>10 DEF CasedTo, WasInCase
  <1>6. CASE Up
    <2> PICK c \in Chars :
          /\ Call("up", "modifier_up", c)
          /\ dev' = IF c.key \in dev.keys
                    THEN SendReport([dev EXCEPT !.keys = @ \ {c.key}, !.valid = TRUE])
                    ELSE dev
      BY <1>6 DEF Up
    <2> DEFINE ks == dev.keys \ {c.key}
               d1 == [dev EXCEPT !.keys = ks]
               e == [d1 EXCEPT !.valid = TRUE]
    <2>1. /\ step = "up" /\ step' = "modifier_up" /\ todo # <<>>
          /\ Head(todo) # UNMAPPED /\ c = Head(todo) /\ todo' = todo
          /\ dev' = SendReport(e) \/ dev' = dev
      BY <1>6 DEF Call, Up
    <2>2. ks = {} /\ ks \in SUBSET KEYS
      BY <2>1 DEF Ordered, Rhythm
    <2> HIDE DEF ks
    <2>3. d1 \in Devices
      BY <1>1, <2>2, KeysType
    <2>4. /\ e.shift = dev.shift /\ e.keys = ks
          /\ e.trans = dev.trans /\ e.fifo = dev.fifo /\ e.lost = dev.lost
      BY <1>1 DEF Devices
    <2> HIDE DEF d1
    <2>5. e \in Devices
      BY <2>3 DEF Devices
    <2> HIDE DEF e
    <2>6. ~dev.lost /\ dev'.shift = dev.shift
      BY <2>1, <2>4, <2>5, CallKeeps
    <2>7. Shifted /\ CasedTo(dev, sent) /\ WasInCase
      BY <2>6 DEF Cased
    <2>8. InCase(Report(e), sent)
      BY <2>2, <2>4 DEF InCase, Report
    <2>9. CasedTo(dev', sent)
      BY <1>1, <2>1, <2>4, <2>5, <2>7, <2>8, CallCased
    <2>10. Shifted'
      BY <2>1, <2>6, <2>7 DEF Shifted
    <2> QED BY <1>2, <2>7, <2>9, <2>10 DEF CasedTo, WasInCase
  <1> QED BY <1>4, <1>5, <1>6

LEMMA DownCased ==
  ASSUME TypeOK, Ordered, Cased, Down
  PROVE  Cased'
  <1> SUFFICES ASSUME ~dev'.lost PROVE (Shifted /\ CasedTo(dev, sent) /\ WasInCase)'
    BY DEF Cased
  <1> PICK c \in Chars :
        /\ Call("down", "up", c)
        /\ \/ UNCHANGED <<dev, sent>>
           \/ /\ dev' = SendReport([dev EXCEPT !.keys = @ \cup {c.key},
                                     !.no = @ + 1, !.valid = TRUE])
              /\ sent' = Append(sent, c)
        /\ UNCHANGED todo
    BY DEF Down
  <1> DEFINE ks == dev.keys \cup {c.key}
             n == dev.no + 1
             d1 == [dev EXCEPT !.keys = ks]
             d2 == [d1 EXCEPT !.no = n]
             e == [d2 EXCEPT !.valid = TRUE]
  <1>1. /\ step = "down" /\ step' = "up" /\ todo # <<>> /\ Head(todo) # UNMAPPED
        /\ c = Head(todo) /\ typed' = typed /\ todo' = todo
    BY DEF Call
  <1>2. dev \in Devices /\ sent \in Seq(Chars)
    BY DEF TypeOK
  <1>3. CASE UNCHANGED <<dev, sent>>
    <2>1. Shifted /\ CasedTo(dev, sent) /\ WasInCase
      BY <1>3 DEF Cased
    <2> QED BY <1>1, <1>3, <2>1 DEF Shifted, CasedTo, WasInCase
  <1>4. CASE dev' = SendReport(e) /\ sent' = Append(sent, c)
    <2>1. ks \in SUBSET KEYS /\ n \in Nat
      BY <1>1, <1>2 DEF Devices, Chars
    <2>2. /\ e.shift = dev.shift /\ e.no = n
          /\ e.trans = dev.trans /\ e.fifo = dev.fifo /\ e.lost = dev.lost
      BY <1>2 DEF Devices
    <2>3. n = Len(sent) + 1
      BY DEF Ordered, LineOf, Line, Report
    <2> HIDE DEF ks, n
    <2>4. d2 \in Devices
      BY <1>2, <2>1, KeysType, NoType
    <2> HIDE DEF d2
    <2>5. e \in Devices
      BY <2>4 DEF Devices
    <2> HIDE DEF e
    <2>6. ~dev.lost /\ dev'.shift = dev.shift
      BY <1>4, <2>2, <2>5, CallKeeps
    <2>7. Shifted /\ CasedTo(dev, sent) /\ WasInCase
      BY <2>6 DEF Cased
    <2>8. PICK s : s = sent'
      OBVIOUS
    <2>9. /\ Len(s) = Len(sent) + 1 /\ s[Len(sent) + 1] = c /\ Len(sent) \in Nat
          /\ \A i \in 1..Len(sent) : i \in 1..Len(s) /\ s[i] = sent[i]
      BY <1>2, <1>4, <2>8
    <2>10. \A r : InCase(r, sent) => InCase(r, s)
      BY <2>9 DEF InCase
    <2>11. CasedTo(dev, s)
      BY <2>7, <2>10 DEF CasedTo
    <2>12. InCase(Report(e), s)
      <3>1. e.shift = c.shift /\ e.no \in 1..Len(s) /\ s[e.no] = c
        BY <1>1, <2>2, <2>3, <2>7, <2>9 DEF Shifted
      <3> QED BY <3>1 DEF InCase, Report
    <2>13. CasedTo(dev', s)
      BY <1>2, <1>4, <2>2, <2>5, <2>11, <2>12, CallCased
    <2>14. Shifted'
      BY <1>1, <2>6, <2>7 DEF Shifted
    <2>15. WasInCase'
      BY <1>1, <2>7, <2>8, <2>9 DEF WasInCase
    <2> QED BY <2>8, <2>13, <2>14, <2>15 DEF CasedTo
  <1> QED BY <1>3, <1>4

LEMMA PollDataCased ==
  ASSUME TypeOK, Cased, PollData
  PROVE  Cased'
  <1> SUFFICES ASSUME ~dev'.lost PROVE (Shifted /\ CasedTo(dev, sent) /\ WasInCase)'
    BY DEF Cased
  <1>1. /\ dev \in Devices /\ dev.fifo \in Seq(Reports)
        /\ typed \in Seq([key : KEYS, shift : BOOLEAN, no : Nat])
    BY DEF TypeOK, Devices
  <1>2. /\ UNCHANGED <<sent, step, todo>>
        /\ dev'.shift = dev.shift /\ dev'.lost = dev.lost
        /\ Report(dev') = Report(dev) /\ dev'.trans = dev.trans
        /\ dev'.fifo = IF dev.fifo = <<>> THEN dev.fifo ELSE Tail(dev.fifo)
    BY <1>1 DEF PollData, Devices, Report
  <1>3. Shifted /\ CasedTo(dev, sent) /\ WasInCase
    BY <1>2 DEF Cased
  <1>4. Shifted'
    BY <1>2, <1>3 DEF Shifted
  <1>5. CASE dev.fifo = <<>>
    <2>1. UNCHANGED typed /\ Underway(dev') = Underway(dev)
      BY <1>2, <1>5 DEF PollData, Underway
    <2> QED BY <1>2, <1>3, <1>4, <2>1 DEF CasedTo, WasInCase
  <1>6. CASE dev.fifo # <<>>
    <2>1. PICK f \in Seq(Reports) : f = dev.fifo
      BY <1>1
    <2>2. /\ Head(f) = f[1] /\ 1 \in 1..Len(f) /\ Len(Tail(f)) = Len(f) - 1
          /\ \A i \in 1..Len(Tail(f)) : i + 1 \in 1..Len(f) /\ Tail(f)[i] = f[i + 1]
      BY <1>6, <2>1
    <2>3. Head(f) \in Underway(dev) /\ Underway(dev') \subseteq Underway(dev)
      BY <1>2, <1>6, <2>1, <2>2 DEF Underway
    <2>4. CasedTo(dev, sent)'
      BY <1>2, <1>3, <2>3 DEF CasedTo
    <2>5. PICK r : r = Head(f)
      OBVIOUS
    <2>6. InCase(r, sent)
      BY <1>3, <2>3, <2>5 DEF CasedTo
    <2>7. Take(r)
      BY <1>6, <2>1, <2>5 DEF PollData
    <2>8. CASE UNCHANGED typed
      BY <1>2, <1>3, <1>4, <2>4, <2>8 DEF WasInCase
    <2>9. ASSUME NEW k \in r.keys,
                 typed' = Append(typed, [key |-> k, shift |-> r.shift, no |-> r.no])
          PROVE  WasInCase'
      <3>1. PICK new : new = [key |-> k, shift |-> r.shift, no |-> r.no]
        OBVIOUS
      <3>2. /\ new.no = r.no /\ new.shift = r.shift
            /\ r.no \in 1..Len(sent) /\ r.shift = sent[r.no].shift
        BY <2>6, <2>9, <3>1 DEF InCase
      <3>3. PICK z : z = typed'
        OBVIOUS
      <3>4. /\ Len(z) = Len(typed) + 1 /\ z[Len(typed) + 1] = new
            /\ \A i \in 1..Len(typed) : z[i] = typed[i]
        BY <1>1, <2>9, <3>1, <3>3
      <3>5. \A i \in 1..Len(z) : i \in 1..Len(typed) \/ i = Len(typed) + 1
        BY <1>1, <3>4
      <3>6. \A i \in 1..Len(z) :
              z[i].no \in 1..Len(sent) /\ z[i].shift = sent[z[i].no].shift
        BY <1>3, <3>2, <3>4, <3>5 DEF WasInCase
      <3> QED BY <1>2, <3>3, <3>6 DEF WasInCase
    <2> QED BY <1>4, <2>4, <2>7, <2>8, <2>9 DEF Take
  <1> QED BY <1>5, <1>6

LEMMA StepCased ==
  ASSUME TypeOK, Ordered, Cased, [Next]_vars
  PROVE  Cased'
  <1>1. CASE UNCHANGED vars
    <2>1. UNCHANGED <<sent, typed, step, todo>> /\ From(dev', dev)
      BY <1>1, FromRefl DEF vars
    <2> QED BY <2>1, QuietCased
  <1>2. ASSUME UNCHANGED <<dev, step, sent, typed>>, todo = <<>> \/ Head(todo) = UNMAPPED
        PROVE  Cased'
    BY <1>2 DEF Cased, Shifted, CasedTo, WasInCase
  <1>3. ASSUME NEW text \in Texts(MAX_CHARS), LongPress(text)
        PROVE  Cased'
    BY <1>2, <1>3 DEF LongPress
  <1>4. CASE SkipUnmapped
    BY <1>2, <1>4 DEF SkipUnmapped
  <1>5. CASE ModifierDown \/ Up \/ ModifierUp
    BY <1>5, CallsCased
  <1>6. CASE Down
    BY <1>6, DownCased
  <1>7. CASE PollData
    BY <1>7, PollDataCased
  <1>8. CASE PollNothing \/ SetAddress
    <2>1. UNCHANGED <<sent, typed, step, todo>> /\ From(dev', dev)
      BY <1>8, FromRefl DEF PollNothing, SetAddress
    <2> QED BY <2>1, QuietCased
  <1>9. CASE HaltSent \/ AllSent \/ NextBank \/ LoadAndSend
    <2>1. UNCHANGED <<sent, typed, step, todo>>
      BY <1>9 DEF HaltSent, AllSent, NextBank, LoadAndSend, Interrupt
    <2> QED BY <1>9, <2>1, InterruptFrom, QuietCased
  <1>10. CASE \/ BusReset \/ SetConfiguration \/ SetConfigurationAgain
              \/ Unconfigure \/ SetInterface \/ SetHalt \/ ClearHalt
    <2>1. UNCHANGED <<sent, typed, step, todo>>
      BY <1>10 DEF BusReset, SetConfiguration, SetConfigurationAgain,
                   Unconfigure, SetInterface, SetHalt, ClearHalt, Event
    <2> QED BY <1>10, <2>1, RequestFrom, QuietCased
  <1> QED
    BY <1>1, <1>3, <1>4, <1>5, <1>6, <1>7, <1>8, <1>9, <1>10
    DEF Next, SendKeys, UdpInterrupt, Host, Faults

LEMMA InitCased == Init => Cased
  <1> SUFFICES ASSUME Init PROVE Cased
    OBVIOUS
  <1>1. /\ dev.shift = FALSE /\ dev.keys = {} /\ dev.trans = Released(0)
        /\ dev.fifo = <<>> /\ typed = <<>> /\ step = "modifier_down"
    BY DEF Init
  <1>2. \A r \in Underway(dev) : r.keys = {}
    BY <1>1 DEF Underway, Report, Released
  <1> QED BY <1>1, <1>2 DEF Cased, Shifted, CasedTo, InCase, WasInCase

(* However reports are held back, merged, or taken late, a key is typed in    *)
(* the case of its character, unless a report was dropped.                    *)
THEOREM AlwaysTypedInCase == Spec => []TypedInCase
  <1>1. Init => Ordered /\ Cased
    BY InitOrdered, InitCased
  <1>2. TypeOK /\ TypeOK' /\ Ordered /\ Cased /\ [Next]_vars => Ordered' /\ Cased'
    BY StepOrdered, StepCased
  <1>3. TypeOK /\ Cased => TypedInCase
    <2>1. TypeOK => DOMAIN typed = 1..Len(typed)
      BY DEF TypeOK
    <2> QED BY <2>1 DEF Cased, WasInCase, TypedInCase
  <1> QED BY <1>1, <1>2, <1>3, TypeCorrect, PTL DEF Spec

-----------------------------------------------------------------------------
(* The last report.  Until a report is lost, the last report on its way, or   *)
(* the one the host took if none is, shows the keyboard's report, except      *)
(* while that is held back (NoMore).  A job whose data is not written is      *)
(* busy, and one that was called back has no data (Job): else a report would  *)
(* be dropped, or written twice.                                              *)

Job(d) == (d.left => d.busy) /\ (d.bufEnd => ~d.left)

Latest(d, h) ==
  IF d.left THEN d.trans ELSE IF d.fifo # <<>> THEN d.fifo[Len(d.fifo)] ELSE h

NoMore(d, h) ==
  ~d.valid => Latest(d, h).shift = d.shift /\ Latest(d, h).keys = d.keys

(* e, the device's state after d, keeps both unless a report is lost.         *)
Passes(e, d, h) ==
  e.lost \/ (~d.lost /\ Job(e) /\ (NoMore(d, h) => NoMore(e, h)))

LEMMA PassesTrans ==
  ASSUME NEW d, NEW e, NEW g, NEW h, Passes(e, d, h), Passes(g, e, h)
  PROVE  Passes(g, d, h)
  BY DEF Passes

Alike(e, d) ==
  /\ e.shift = d.shift /\ e.keys = d.keys /\ e.valid = d.valid
  /\ e.left = d.left /\ e.busy = d.busy /\ e.bufEnd = d.bufEnd
  /\ e.trans = d.trans /\ e.fifo = d.fifo

LEMMA AlikePasses ==
  ASSUME NEW d, NEW e, NEW h, d.lost \/ Job(d), Alike(e, d), d.lost => e.lost
  PROVE  Passes(e, d, h)
  BY DEF Alike, Passes, Job, NoMore, Latest

LEMMA EpInSentPasses ==
  ASSUME NEW d \in Devices, NEW x \in BOOLEAN, NEW h, d.lost \/ Job(d)
  PROVE  Passes(EpInSent(d, x), d, h)
  <1> DEFINE e == EpInSent(d, x)
  <1>1. CASE d.bank >= BANKS \/ ~d.left
    <2>1. e = d
      BY <1>1 DEF EpInSent
    <2> HIDE DEF e
    <2>2. d.lost \in BOOLEAN
      BY DEF Devices
    <2>3. Passes(d, d, h)
      BY <2>2 DEF Passes
    <2> QED BY <2>1, <2>3 DEF e
  <1>2. CASE ~(d.bank >= BANKS \/ ~d.left)
    <2>1. /\ e.shift = d.shift /\ e.keys = d.keys /\ e.valid = d.valid
          /\ e.left = FALSE /\ e.lost = d.lost
          /\ e.trans = d.trans /\ e.fifo = Append(d.fifo, d.trans) /\ d.left
      BY <1>2 DEF EpInSent, Devices
    <2>2. PICK f \in Seq(Reports) : f = d.fifo
      BY DEF Devices
    <2>3. PICK t \in Reports : t = d.trans
      BY DEF Devices
    <2>4. Append(f, t) # <<>> /\ Append(f, t)[Len(Append(f, t))] = t
      OBVIOUS
    <2> HIDE DEF e
    <2>5. Latest(e, h) = Latest(d, h)
      BY <2>1, <2>2, <2>3, <2>4 DEF Latest
    <2>6. NoMore(d, h) => NoMore(e, h)
      BY <2>1, <2>5 DEF NoMore
    <2>7. Job(e)
      BY <2>1 DEF Job
    <2> QED BY <2>1, <2>6, <2>7 DEF Passes, e
  <1> QED BY <1>1, <1>2

LEMMA SendReportPasses ==
  ASSUME NEW d \in Devices, NEW h, d.lost \/ Job(d), d.valid
  PROVE  Passes(SendReport(d), d, h)
  <1> DEFINE taken == [d EXCEPT !.trans = Report(d), !.valid = FALSE]
             dropped == [taken EXCEPT !.lost = TRUE]
             job == [taken EXCEPT !.busy = TRUE, !.left = TRUE,
                                  !.bufEnd = FALSE, !.irq = TRUE]
             run == EpRun(taken)
             sending == [run EXCEPT !.ongoing = TRUE]
  <1>1. Report(d) \in Reports /\ Report(d).shift = d.shift /\ Report(d).keys = d.keys
    BY DEF Report, Reports, Devices
  <1>2. /\ taken \in Devices /\ taken.trans = Report(d) /\ taken.valid = FALSE
        /\ taken.shift = d.shift /\ taken.keys = d.keys /\ taken.lost = d.lost
    BY <1>1 DEF Devices
  <1> HIDE DEF taken
  <1>3. /\ job \in Devices /\ job.shift = d.shift /\ job.keys = d.keys
        /\ job.trans = Report(d) /\ job.left = TRUE /\ job.busy = TRUE
        /\ job.bufEnd = FALSE /\ job.lost = d.lost
    BY <1>2 DEF Devices
  <1>4. run = IF taken.ready \/ taken.complete THEN job ELSE EpInSent(job, TRUE)
    BY DEF EpRun
  <1>5. dropped.lost = TRUE
    BY <1>2 DEF Devices
  <1> HIDE DEF job, run, dropped
  <1>6. Job(job) /\ NoMore(job, h)
    BY <1>1, <1>3 DEF Job, NoMore, Latest
  <1>7. Passes(EpInSent(job, TRUE), job, h) /\ EpInSent(job, TRUE) \in Devices
    BY <1>3, <1>6, EpInSentPasses, EpInSentType
  <1>8. run \in Devices /\ (run.lost \/ (~d.lost /\ Job(run) /\ NoMore(run, h)))
    <2>1. CASE taken.ready \/ taken.complete
      <3>1. run = job
        BY <1>4, <2>1
      <3>2. d.lost \in BOOLEAN
        BY DEF Devices
      <3> QED BY <1>3, <1>6, <3>1, <3>2
    <2>2. CASE ~(taken.ready \/ taken.complete)
      <3>1. run = EpInSent(job, TRUE)
        BY <1>4, <2>2
      <3> QED BY <1>3, <1>6, <1>7, <3>1 DEF Passes
    <2> QED BY <2>1, <2>2
  <1>9. Alike(sending, run) /\ sending.lost = run.lost
    BY <1>8 DEF Devices, Alike
  <1>10. SendReport(d) = IF d.ongoing THEN d ELSE
                         IF Refuses(taken) THEN dropped ELSE sending
    BY DEF SendReport, taken, dropped, run
  <1> HIDE DEF sending
  <1>11. Passes(dropped, d, h)
    BY <1>5 DEF Passes
  <1>12. Passes(sending, run, h)
    BY <1>8, <1>9, AlikePasses
  <1>13. Passes(sending, d, h)
    BY <1>8, <1>12 DEF Passes
  <1>14. Passes(d, d, h)
    BY DEF Passes
  <1> QED BY <1>10, <1>11, <1>13, <1>14

LEMMA FinishJobPasses ==
  ASSUME NEW d \in Devices, NEW h, d.lost \/ Job(d), d.lost \/ ~d.left \/ ~d.busy
  PROVE  Passes(FinishJob(d), d, h)
  <1> DEFINE e == [d EXCEPT !.busy = FALSE]
             idle == [e EXCEPT !.ongoing = FALSE]
  <1>1. /\ idle \in Devices /\ idle.shift = d.shift /\ idle.keys = d.keys
        /\ idle.valid = d.valid /\ e.valid = d.valid /\ idle.left = d.left
        /\ idle.busy = FALSE /\ idle.bufEnd = d.bufEnd /\ idle.trans = d.trans
        /\ idle.fifo = d.fifo /\ idle.lost = d.lost
    BY DEF Devices
  <1>2. FinishJob(d) = IF d.busy THEN IF e.valid THEN SendReport(idle) ELSE idle
                       ELSE d
    BY DEF FinishJob, ReportSent
  <1> HIDE DEF e, idle
  <1>3. CASE ~d.busy
    BY <1>2, <1>3 DEF Passes
  <1>4. CASE d.busy
    <2>1. idle.lost \/ Job(idle)
      BY <1>1, <1>4 DEF Job
    <2>2. NoMore(d, h) => NoMore(idle, h)
      BY <1>1 DEF NoMore, Latest
    <2>3. Passes(idle, d, h)
      BY <1>1, <2>1, <2>2 DEF Passes
    <2>4. idle.valid => Passes(SendReport(idle), d, h)
      BY <1>1, <2>1, <2>3, SendReportPasses, PassesTrans
    <2> QED BY <1>1, <1>2, <1>4, <2>3, <2>4
  <1> QED BY <1>3, <1>4

(* A job that is aborted is lost, so that nothing happens unless it is.       *)
LEMMA AbortJobQuiet ==
  ASSUME NEW d \in Devices
  PROVE  AbortJob(d).lost \/ (~d.busy /\ ~d.lost /\ AbortJob(d) = d)
  <1> DEFINE e == [d EXCEPT !.lost = d.lost \/ d.busy]
  <1>1. (d.lost \/ d.busy) \in BOOLEAN
    OBVIOUS
  <1>2. e \in Devices /\ e.lost = (d.lost \/ d.busy)
    BY <1>1 DEF Devices
  <1>3. AbortJob(d) = FinishJob(e)
    BY DEF AbortJob
  <1>4. CASE d.lost \/ d.busy
    <2>1. e.lost
      BY <1>2, <1>4
    <2> HIDE DEF e
    <2> QED BY <1>2, <1>3, <2>1, FinishJobFrom DEF From
  <1>5. CASE ~(d.lost \/ d.busy)
    <2>1. e = d
      <3>1. (d.lost \/ d.busy) = d.lost
        BY <1>5 DEF Devices
      <3>2. e = [d EXCEPT !.lost = d.lost]
        BY <3>1
      <3> HIDE DEF e
      <3> QED BY <3>2 DEF Devices
    <2> HIDE DEF e
    <2>2. FinishJob(d) = d
      BY <1>5 DEF FinishJob
    <2> QED BY <1>3, <1>5, <2>1, <2>2
  <1> QED BY <1>4, <1>5

LEMMA AfterSentPasses ==
  ASSUME NEW d \in Devices, NEW h, d.lost \/ Job(d)
  PROVE  Passes(OneBankLess(d), d, h) /\ Passes(AfterSent(d), d, h)
  <1> DEFINE b == OneBankLess(d)
             e == [b EXCEPT !.bufEnd = FALSE, !.left = FALSE]
  <1>1. b \in Devices
    BY AfterSentType
  <1>2. Alike(b, d) /\ b.lost = d.lost
    BY DEF OneBankLess, Devices, Alike
  <1>3. AfterSent(d) = IF b.bufEnd THEN FinishJob(e) ELSE b
    BY DEF AfterSent
  <1> HIDE DEF b
  <1>4. Passes(b, d, h) /\ (b.lost \/ Job(b))
    <2>1. Passes(b, d, h)
      BY <1>2, AlikePasses
    <2> QED BY <2>1 DEF Passes
  <1>5. /\ e \in Devices /\ e.shift = b.shift /\ e.keys = b.keys
        /\ e.valid = b.valid /\ e.left = FALSE /\ e.bufEnd = FALSE
        /\ e.trans = b.trans /\ e.fifo = b.fifo /\ e.lost = b.lost
    BY <1>1 DEF Devices
  <1> HIDE DEF e
  <1>6. ASSUME b.bufEnd
        PROVE  Passes(e, b, h) /\ Job(e)
    <2>1. Job(e)
      BY <1>5 DEF Job
    <2>2. b.lost \/ ~b.left
      BY <1>4, <1>6 DEF Job
    <2>3. ~b.lost => (NoMore(b, h) => NoMore(e, h))
      BY <1>5, <2>2 DEF NoMore, Latest
    <2> QED BY <1>5, <2>1, <2>3 DEF Passes
  <1>7. ASSUME b.bufEnd
        PROVE  Passes(FinishJob(e), d, h)
    <2>1. Passes(e, b, h) /\ Job(e)
      BY <1>6, <1>7
    <2>2. Passes(FinishJob(e), e, h)
      BY <1>5, <2>1, FinishJobPasses
    <2>3. Passes(e, d, h)
      BY <1>4, <2>1, PassesTrans
    <2> QED BY <2>2, <2>3, PassesTrans
  <1> QED BY <1>3, <1>4, <1>7 DEF b

LEMMA InterruptPasses ==
  ASSUME TypeOK, NEW h, dev.lost \/ Job(dev),
         HaltSent \/ AllSent \/ NextBank \/ LoadAndSend
  PROVE  Passes(dev', dev, h)
  <1>1. dev \in Devices
    BY DEF TypeOK
  <1>2. CASE HaltSent
    <2> DEFINE d == OneBankLess(dev)
    <2>1. d \in Devices /\ Passes(d, dev, h)
      BY <1>1, AfterSentType, AfterSentPasses
    <2>2. dev' = IF d.bank # 0
                 THEN [d EXCEPT !.ready = TRUE, !.complete = FALSE]
                 ELSE [d EXCEPT !.complete = FALSE, !.stall = TRUE,
                                !.stallRequested = FALSE]
      BY <1>2 DEF HaltSent
    <2> HIDE DEF d
    <2>3. Alike(dev', d) /\ dev'.lost = d.lost
      BY <2>1, <2>2 DEF Devices, Alike
    <2>4. d.lost \/ Job(d)
      BY <2>1 DEF Passes
    <2>5. Passes(dev', d, h)
      BY <2>3, <2>4, AlikePasses
    <2> QED BY <2>1, <2>5, PassesTrans
  <1> DEFINE a == AfterSent(dev)
  <1>3. a \in Devices /\ Passes(a, dev, h)
    BY <1>1, AfterSentType, AfterSentPasses
  <1>4. CASE AllSent
    <2>1. dev' = [a EXCEPT !.irq = FALSE, !.complete = FALSE]
      BY <1>4 DEF AllSent
    <2> HIDE DEF a
    <2>2. Alike(dev', a) /\ dev'.lost = a.lost
      BY <1>3, <2>1 DEF Devices, Alike
    <2>3. a.lost \/ Job(a)
      BY <1>3 DEF Passes
    <2>4. Passes(dev', a, h)
      BY <2>2, <2>3, AlikePasses
    <2> QED BY <1>3, <2>4, PassesTrans
  <1>5. CASE NextBank
    <2> DEFINE e == [a EXCEPT !.ready = TRUE, !.complete = FALSE]
    <2>1. dev' = EpInSent(e, FALSE)
      BY <1>5 DEF NextBank
    <2> HIDE DEF a
    <2>2. e \in Devices /\ Alike(e, a) /\ e.lost = a.lost
      BY <1>3 DEF Devices, Alike
    <2> HIDE DEF e
    <2>3. Passes(e, dev, h)
      <3>1. a.lost \/ Job(a)
        BY <1>3 DEF Passes
      <3>2. Passes(e, a, h)
        BY <2>2, <3>1, AlikePasses
      <3> QED BY <1>3, <3>2, PassesTrans
    <2>4. Passes(dev', e, h)
      <3>1. e.lost \/ Job(e)
        BY <2>3 DEF Passes
      <3> QED BY <2>1, <2>2, <3>1, EpInSentPasses
    <2> QED BY <2>3, <2>4, PassesTrans
  <1>6. CASE LoadAndSend
    <2> DEFINE l == EpInSent(a, TRUE)
               m == [l EXCEPT !.bufEnd = FALSE, !.left = FALSE]
               n == FinishJob(m)
               o == [n EXCEPT !.complete = FALSE]
    <2>1. dev' = EpInSent(o, FALSE)
      BY <1>6 DEF LoadAndSend
    <2>2. a.bank = 0
      BY <1>6 DEF LoadAndSend
    <2> HIDE DEF a
    <2>3. l \in Devices /\ Passes(l, dev, h) /\ l.left = FALSE
      <3>1. a.lost \/ Job(a)
        BY <1>3 DEF Passes
      <3>2. l \in Devices /\ Passes(l, a, h)
        BY <1>3, <3>1, EpInSentType, EpInSentPasses
      <3>3. l.left = FALSE
        BY <1>3, <2>2 DEF EpInSent, Devices
      <3> QED BY <1>3, <3>2, <3>3, PassesTrans
    <2> HIDE DEF l
    <2>4. /\ m \in Devices /\ m.shift = l.shift /\ m.keys = l.keys
          /\ m.valid = l.valid /\ m.left = FALSE /\ m.bufEnd = FALSE
          /\ m.trans = l.trans /\ m.fifo = l.fifo /\ m.lost = l.lost
      BY <2>3 DEF Devices
    <2> HIDE DEF m
    <2>5. Job(m) /\ Passes(m, dev, h)
      <3>1. Job(m)
        BY <2>4 DEF Job
      <3>2. NoMore(l, h) => NoMore(m, h)
        BY <2>3, <2>4 DEF NoMore, Latest
      <3>3. Passes(m, l, h)
        BY <2>4, <3>1, <3>2 DEF Passes
      <3> QED BY <2>3, <3>1, <3>3, PassesTrans
    <2>6. n \in Devices /\ Passes(n, dev, h)
      <3>1. n \in Devices /\ Passes(n, m, h)
        BY <2>4, <2>5, FinishJobType, FinishJobPasses
      <3> QED BY <2>5, <3>1, PassesTrans
    <2> HIDE DEF n
    <2>7. o \in Devices /\ Alike(o, n) /\ o.lost = n.lost
      BY <2>6 DEF Devices, Alike
    <2> HIDE DEF o
    <2>8. Passes(o, dev, h)
      <3>1. n.lost \/ Job(n)
        BY <2>6 DEF Passes
      <3>2. Passes(o, n, h)
        BY <2>7, <3>1, AlikePasses
      <3> QED BY <2>6, <3>2, PassesTrans
    <2>9. Passes(dev', o, h)
      <3>1. o.lost \/ Job(o)
        BY <2>8 DEF Passes
      <3> QED BY <2>1, <2>7, <3>1, EpInSentPasses
    <2> QED BY <2>8, <2>9, PassesTrans
  <1> QED BY <1>2, <1>4, <1>5, <1>6

(* A call of send_keys holds its report back or sends it.                     *)
LEMMA CallPasses ==
  ASSUME NEW d \in Devices, NEW e \in Devices, NEW h, d.lost \/ Job(d),
         e.valid, e.left = d.left, e.busy = d.busy, e.bufEnd = d.bufEnd,
         e.lost = d.lost
  PROVE  Passes(SendReport(e), d, h)
  <1>1. d.lost \in BOOLEAN
    BY DEF Devices
  <1>2. Passes(e, d, h)
    BY <1>1 DEF Passes, Job, NoMore
  <1>3. Passes(SendReport(e), e, h)
    BY SendReportPasses DEF Job
  <1> QED BY <1>2, <1>3, PassesTrans

(* What an aborted endpoint had under way is lost, the job or a packet.       *)
LEMMA EmptiedPasses ==
  ASSUME NEW d \in Devices, NEW e \in Devices, NEW h, d.lost \/ Job(d),
         e.shift = d.shift, e.keys = d.keys, e.valid = d.valid,
         e.left = d.left, e.busy = d.busy, e.bufEnd = d.bufEnd,
         e.trans = d.trans, e.fifo = <<>>, e.lost = (d.lost \/ d.fifo # <<>>)
  PROVE  Passes(AbortJob(e), d, h)
  <1> PICK a : a = AbortJob(e)
    OBVIOUS
  <1>1. a.lost \/ (~e.busy /\ ~e.lost /\ a = e)
    BY AbortJobQuiet
  <1>2. ASSUME ~e.lost
        PROVE  Passes(e, d, h)
    <2>1. Alike(e, d)
      BY <1>2 DEF Alike
    <2> QED BY <1>2, <2>1, AlikePasses
  <1>3. CASE a.lost
    BY <1>3 DEF Passes
  <1>4. CASE ~e.lost /\ a = e
    BY <1>2, <1>4
  <1> QED BY <1>1, <1>3, <1>4

LEMMA EpFreePasses ==
  ASSUME NEW d \in Devices, NEW h, d.lost \/ Job(d)
  PROVE  Passes(EpFree(d), d, h) /\ (EpFree(d).lost \/ ~EpFree(d).busy)
  <1> DEFINE e == [d EXCEPT !.enabled = FALSE]
  <1>1. e \in Devices /\ Alike(e, d) /\ e.lost = d.lost
    BY DEF Alike, Devices
  <1>2. EpFree(d) = AbortJob(e)
    BY DEF EpFree
  <1> HIDE DEF e
  <1>3. Passes(e, d, h)
    BY <1>1, AlikePasses
  <1> PICK a : a = EpFree(d)
    OBVIOUS
  <1>4. a.lost \/ (~e.busy /\ a = e)
    BY <1>1, <1>2, AbortJobQuiet
  <1> QED BY <1>3, <1>4 DEF Passes

LEMMA AbortPasses ==
  ASSUME TypeOK, NEW h, dev.lost \/ Job(dev),
         BusReset \/ Unconfigure \/ SetHalt \/ ClearHalt
  PROVE  Passes(dev', dev, h)
  <1>1. dev \in Devices
    BY DEF TypeOK
  <1>2. CASE BusReset
    <2> DEFINE d1 == [dev EXCEPT !.enabled = FALSE, !.ready = FALSE,
                        !.complete = FALSE, !.stall = FALSE, !.irq = FALSE]
               lo == dev.lost \/ dev.fifo # <<>>
               d2 == [d1 EXCEPT !.lost = lo]
               d3 == [d2 EXCEPT !.fifo = <<>>]
    <2>1. dev' = AbortJob(d3)
      BY <1>2 DEF BusReset
    <2>2. lo \in BOOLEAN /\ lo = (dev.lost \/ dev.fifo # <<>>)
      OBVIOUS
    <2> HIDE DEF lo
    <2>3. /\ d1 \in Devices /\ d1.shift = dev.shift /\ d1.keys = dev.keys
          /\ d1.valid = dev.valid /\ d1.left = dev.left /\ d1.busy = dev.busy
          /\ d1.bufEnd = dev.bufEnd /\ d1.trans = dev.trans
      <3>1. d1 \in Devices
        BY <1>1, ResetType
      <3>2. /\ d1.shift = dev.shift /\ d1.keys = dev.keys
            /\ d1.valid = dev.valid /\ d1.left = dev.left /\ d1.busy = dev.busy
            /\ d1.bufEnd = dev.bufEnd /\ d1.trans = dev.trans
        BY <1>1 DEF Devices
      <3> QED BY <3>1, <3>2
    <2> HIDE DEF d1
    <2>4. /\ d2 \in Devices /\ d2.shift = d1.shift /\ d2.keys = d1.keys
          /\ d2.valid = d1.valid /\ d2.left = d1.left /\ d2.busy = d1.busy
          /\ d2.bufEnd = d1.bufEnd /\ d2.trans = d1.trans /\ d2.lost = lo
      BY <2>2, <2>3 DEF Devices
    <2> HIDE DEF d2
    <2>5. d3 \in Devices
      BY <2>4, FifoType, EmptySequence
    <2>6. /\ d3.shift = d2.shift /\ d3.keys = d2.keys
          /\ d3.valid = d2.valid /\ d3.left = d2.left /\ d3.busy = d2.busy
          /\ d3.bufEnd = d2.bufEnd /\ d3.trans = d2.trans /\ d3.lost = d2.lost
          /\ d3.fifo = <<>>
      BY <2>4 DEF Devices
    <2> HIDE DEF d3
    <2>7. Passes(AbortJob(d3), dev, h)
      BY <1>1, <2>3, <2>2, <2>4, <2>5, <2>6, EmptiedPasses
    <2> QED BY <2>1, <2>7
  <1>3. CASE Unconfigure
    BY <1>1, <1>3, EpFreePasses DEF Unconfigure
  <1>4. CASE SetHalt
    <2> DEFINE d1 == [dev EXCEPT !.irq = FALSE, !.ready = FALSE,
                                 !.complete = FALSE]
               d2 == [d1 EXCEPT !.bank = 0]
               lo == dev.lost \/ dev.fifo # <<>>
               d3 == [d2 EXCEPT !.lost = lo]
               d4 == [d3 EXCEPT !.fifo = <<>>]
               d == EpAbort(dev)
    <2>1. d = AbortJob(d4)
      BY DEF EpAbort
    <2>2. lo \in BOOLEAN /\ 0 \in 0..3 /\ lo = (dev.lost \/ dev.fifo # <<>>)
      OBVIOUS
    <2> HIDE DEF lo
    <2>3. d1 \in Devices
      BY <1>1 DEF Devices
    <2>4. /\ d2.shift = dev.shift /\ d2.keys = dev.keys
          /\ d2.valid = dev.valid /\ d2.left = dev.left /\ d2.busy = dev.busy
          /\ d2.bufEnd = dev.bufEnd /\ d2.trans = dev.trans
      BY <1>1 DEF Devices
    <2> HIDE DEF d1
    <2>5. d2 \in Devices
      BY <2>2, <2>3, BankType
    <2> HIDE DEF d2
    <2>6. /\ d3 \in Devices /\ d3.shift = d2.shift /\ d3.keys = d2.keys
          /\ d3.valid = d2.valid /\ d3.left = d2.left /\ d3.busy = d2.busy
          /\ d3.bufEnd = d2.bufEnd /\ d3.trans = d2.trans /\ d3.lost = lo
      BY <2>2, <2>5 DEF Devices
    <2> HIDE DEF d3
    <2>7. d4 \in Devices
      BY <2>6, FifoType, EmptySequence
    <2>8. /\ d4.shift = d3.shift /\ d4.keys = d3.keys
          /\ d4.valid = d3.valid /\ d4.left = d3.left /\ d4.busy = d3.busy
          /\ d4.bufEnd = d3.bufEnd /\ d4.trans = d3.trans /\ d4.lost = d3.lost
          /\ d4.fifo = <<>>
      BY <2>6 DEF Devices
    <2> HIDE DEF d4
    <2>9. Passes(AbortJob(d4), dev, h)
      BY <1>1, <2>2, <2>4, <2>6, <2>7, <2>8, EmptiedPasses
    <2>10. d \in Devices /\ Passes(d, dev, h)
      BY <2>1, <2>7, <2>9, AbortJobType
    <2>11. \/ dev' = [d EXCEPT !.stallRequested = TRUE, !.irq = TRUE]
           \/ dev' = [d EXCEPT !.stall = TRUE, !.irq = TRUE]
      BY <1>4 DEF SetHalt
    <2> HIDE DEF d
    <2>12. Alike(dev', d) /\ dev'.lost = d.lost
      BY <2>10, <2>11 DEF Alike, Devices
    <2>13. Passes(dev', d, h)
      BY <2>10, <2>12, AlikePasses DEF Passes
    <2> QED BY <2>10, <2>13, PassesTrans
  <1>5. CASE ClearHalt
    <2> DEFINE d == [dev EXCEPT !.stallRequested = FALSE]
               e == [d EXCEPT !.stall = FALSE]
               lo == d.lost \/ d.busy \/ d.fifo # <<>>
               g == [e EXCEPT !.lost = lo]
               k == [g EXCEPT !.fifo = <<>>]
    <2>1. d \in Devices /\ Alike(d, dev) /\ d.lost = dev.lost
      BY <1>1 DEF Devices, Alike
    <2>2. dev' = IF dev.stall THEN FinishJob(k) ELSE d
      BY <1>5 DEF ClearHalt
    <2>3. lo \in BOOLEAN /\ lo = (d.lost \/ d.busy \/ d.fifo # <<>>)
      OBVIOUS
    <2> HIDE DEF d, lo
    <2>4. e \in Devices /\ Alike(e, d)
      BY <2>1 DEF Devices, Alike
    <2> HIDE DEF e
    <2>5. g \in Devices /\ Alike(g, e) /\ g.lost = lo
      BY <2>3, <2>4 DEF Devices, Alike
    <2> HIDE DEF g
    <2>6. k \in Devices
      BY <2>5, FifoType, EmptySequence
    <2>7. /\ k.shift = g.shift /\ k.keys = g.keys
          /\ k.valid = g.valid /\ k.left = g.left /\ k.busy = g.busy
          /\ k.bufEnd = g.bufEnd /\ k.trans = g.trans /\ k.lost = g.lost
          /\ k.fifo = <<>>
      BY <2>5 DEF Devices
    <2> HIDE DEF k
    <2>8. Passes(d, dev, h)
      BY <1>1, <2>1, AlikePasses
    <2>9. CASE k.lost
      <3>1. FinishJob(k).lost
        BY <2>6, <2>9, FinishJobFrom DEF From
      <3>2. Passes(FinishJob(k), dev, h)
        BY <3>1 DEF Passes
      <3> QED BY <2>2, <2>8, <3>2
    <2>10. CASE ~k.lost
      <3>1. Alike(k, dev) /\ ~k.busy /\ ~dev.lost
        BY <2>1, <2>3, <2>4, <2>5, <2>7, <2>10 DEF Alike
      <3>2. FinishJob(k) = k
        BY <3>1 DEF FinishJob
      <3>3. Passes(k, dev, h)
        BY <3>1, AlikePasses
      <3> QED BY <2>2, <2>8, <3>2, <3>3
    <2> QED BY <2>9, <2>10
  <1> QED BY <1>2, <1>3, <1>4, <1>5

(* Setting the endpoint up anew leaves nothing of the report, and loses       *)
(* nothing only if nothing was held down and no packet pending.               *)
LEMMA AllocQuiet ==
  ASSUME NEW d \in Devices, NEW keep \in BOOLEAN, d.lost \/ Job(d),
         d.lost \/ ~d.busy, NEW g, g = HidEnable(EpAlloc(d, keep))
  PROVE  \/ g.lost
         \/ /\ Job(g) /\ ~g.left /\ g.fifo = <<>>
            /\ g.shift = FALSE /\ g.keys = {}
            /\ ~d.lost /\ ~d.left /\ d.fifo = <<>>
            /\ d.shift = FALSE /\ d.keys = {}
  <1> DEFINE e == EpAlloc(d, keep)
             ef == (d.lost \/ d.fifo # <<>>)
             lo == e.lost \/ e.shift \/ e.keys # {}
  <1>1. e \in Devices
    BY EpAllocType
  <1>2. ef \in BOOLEAN /\ lo \in BOOLEAN
    OBVIOUS
  <1>3. /\ e.shift = d.shift /\ e.keys = d.keys /\ e.left = d.left
        /\ e.bufEnd = FALSE /\ e.fifo = <<>> /\ e.lost = ef
    BY DEF EpAlloc, Devices
  <1> HIDE DEF e
  <1>4. /\ g.keys = {} /\ g.shift = FALSE /\ g.left = e.left
        /\ g.bufEnd = e.bufEnd /\ g.fifo = e.fifo /\ g.lost = lo
    BY <1>1 DEF HidEnable, Devices, e
  <1>5. d.shift \in BOOLEAN
    BY DEF Devices
  <1> QED BY <1>2, <1>3, <1>4, <1>5 DEF Job

(* A device that is not configured has lost what it had to report; its host   *)
(* holds no key.                                                              *)
Delivered ==
  ~dev.lost =>
    /\ Job(dev)
    /\ IF bus = "configured" THEN NoMore(dev, host)
       ELSE host.keys = {} /\ host.shift = FALSE

LEMMA PassesDelivered ==
  ASSUME Delivered, Passes(dev', dev, host), UNCHANGED <<bus, host>>
  PROVE  Delivered'
  BY DEF Delivered, Passes, Job, NoMore, Latest

LEMMA CallsDelivered ==
  ASSUME TypeOK, Delivered, ModifierDown \/ Down \/ Up \/ ModifierUp
  PROVE  Delivered'
  <1>1. dev \in Devices /\ (dev.lost \/ Job(dev))
    BY DEF TypeOK, Delivered
  <1>2. UNCHANGED <<bus, host>>
    BY DEF ModifierDown, Down, Up, ModifierUp, Call
  <1>3. ASSUME NEW e \in Devices, dev' = SendReport(e), e.valid,
               e.left = dev.left, e.busy = dev.busy, e.bufEnd = dev.bufEnd,
               e.lost = dev.lost
        PROVE  Delivered'
    <2>1. Passes(dev', dev, host)
      BY <1>1, <1>3, CallPasses
    <2> QED BY <1>2, <2>1, PassesDelivered
  <1>4. CASE dev' = dev
    BY <1>2, <1>4 DEF Delivered, Job, NoMore, Latest
  <1>5. CASE ModifierDown
    <2> PICK c \in Chars :
          dev' = SendReport([dev EXCEPT !.shift = @ \/ c.shift, !.valid = TRUE])
      BY <1>5 DEF ModifierDown
    <2> DEFINE sh == dev.shift \/ c.shift
               e == [dev EXCEPT !.shift = sh, !.valid = TRUE]
    <2>1. sh \in BOOLEAN /\ dev' = SendReport(e)
      OBVIOUS
    <2> HIDE DEF sh
    <2>2. /\ e \in Devices /\ e.valid /\ e.left = dev.left /\ e.busy = dev.busy
          /\ e.bufEnd = dev.bufEnd /\ e.lost = dev.lost
      BY <1>1, <2>1 DEF Devices
    <2> HIDE DEF e
    <2> QED BY <1>3, <2>1, <2>2
  <1>6. CASE ModifierUp
    <2> PICK c \in Chars :
          dev' = SendReport([dev EXCEPT !.shift = @ /\ ~c.shift, !.valid = TRUE])
      BY <1>6 DEF ModifierUp
    <2> DEFINE sh == dev.shift /\ ~c.shift
               e == [dev EXCEPT !.shift = sh, !.valid = TRUE]
    <2>1. sh \in BOOLEAN /\ dev' = SendReport(e)
      OBVIOUS
    <2> HIDE DEF sh
    <2>2. /\ e \in Devices /\ e.valid /\ e.left = dev.left /\ e.busy = dev.busy
          /\ e.bufEnd = dev.bufEnd /\ e.lost = dev.lost
      BY <1>1, <2>1 DEF Devices
    <2> HIDE DEF e
    <2> QED BY <1>3, <2>1, <2>2
  <1>7. CASE Down
    <2> PICK c \in Chars :
          /\ Call("down", "up", c)
          /\ \/ UNCHANGED <<dev, sent>>
             \/ dev' = SendReport([dev EXCEPT !.keys = @ \cup {c.key},
                                     !.no = @ + 1, !.valid = TRUE])
      BY <1>7 DEF Down
    <2> DEFINE ks == dev.keys \cup {c.key}
               n == dev.no + 1
               d1 == [dev EXCEPT !.keys = ks]
               d2 == [d1 EXCEPT !.no = n]
               e == [d2 EXCEPT !.valid = TRUE]
    <2>1. CASE UNCHANGED dev
      BY <1>4, <2>1
    <2>2. CASE dev' = SendReport(e)
      <3>1. ks \in SUBSET KEYS /\ n \in Nat
        BY <1>1 DEF Call, Chars, TypeOK, Devices
      <3>2. /\ e.valid /\ e.left = dev.left /\ e.busy = dev.busy
            /\ e.bufEnd = dev.bufEnd /\ e.lost = dev.lost
        BY <1>1 DEF Devices
      <3> HIDE DEF ks, n
      <3>3. d2 \in Devices
        BY <1>1, <3>1, KeysType, NoType
      <3> HIDE DEF d2
      <3>4. e \in Devices
        BY <3>3 DEF Devices
      <3> HIDE DEF e
      <3> QED BY <1>3, <2>2, <3>2, <3>4
    <2> QED BY <2>1, <2>2
  <1>8. CASE Up
    <2> PICK c \in Chars :
          dev' = IF c.key \in dev.keys
                 THEN SendReport([dev EXCEPT !.keys = @ \ {c.key}, !.valid = TRUE])
                 ELSE dev
      BY <1>8 DEF Up
    <2> DEFINE ks == dev.keys \ {c.key}
               d1 == [dev EXCEPT !.keys = ks]
               e == [d1 EXCEPT !.valid = TRUE]
    <2>1. dev' = SendReport(e) \/ dev' = dev
      OBVIOUS
    <2>2. ks \in SUBSET KEYS
      BY <1>1 DEF Devices
    <2>3. /\ e.valid /\ e.left = dev.left /\ e.busy = dev.busy
          /\ e.bufEnd = dev.bufEnd /\ e.lost = dev.lost
      BY <1>1 DEF Devices
    <2> HIDE DEF ks
    <2>4. d1 \in Devices
      BY <1>1, <2>2, KeysType
    <2> HIDE DEF d1
    <2>5. e \in Devices
      BY <2>4 DEF Devices
    <2> HIDE DEF e
    <2> QED BY <1>3, <1>4, <2>1, <2>3, <2>5
  <1> QED BY <1>5, <1>6, <1>7, <1>8

(* The host takes the packets in their order, so the last one stays the last. *)
LEMMA PollDataDelivered ==
  ASSUME TypeOK, Delivered, PollData
  PROVE  Delivered'
  <1>1. dev \in Devices /\ bus = "configured" /\ bus' = bus
    BY DEF TypeOK, PollData, CanPoll
  <1>2. /\ dev'.shift = dev.shift /\ dev'.keys = dev.keys
        /\ dev'.valid = dev.valid /\ dev'.lost = dev.lost
        /\ dev'.left = dev.left /\ dev'.busy = dev.busy
        /\ dev'.bufEnd = dev.bufEnd /\ dev'.trans = dev.trans
        /\ dev'.fifo = IF dev.fifo = <<>> THEN dev.fifo ELSE Tail(dev.fifo)
    BY <1>1 DEF PollData, Devices
  <1>3. host' = IF dev.fifo = <<>> THEN host ELSE Head(dev.fifo)
    BY DEF PollData, Take
  <1>4. PICK f \in Seq(Reports) : f = dev.fifo
    BY <1>1 DEF Devices
  <1>5. f # <<>> =>
          IF Tail(f) # <<>> THEN Tail(f)[Len(Tail(f))] = f[Len(f)]
          ELSE Head(f) = f[Len(f)]
    <2> SUFFICES ASSUME f # <<>>
                 PROVE  IF Tail(f) # <<>> THEN Tail(f)[Len(Tail(f))] = f[Len(f)]
                        ELSE Head(f) = f[Len(f)]
      OBVIOUS
    <2>1. /\ Head(f) = f[1] /\ Len(f) \in Nat /\ Len(f) # 0
          /\ Tail(f) \in Seq(Reports) /\ Len(Tail(f)) = Len(f) - 1
          /\ \A i \in 1..Len(Tail(f)) : Tail(f)[i] = f[i + 1]
      OBVIOUS
    <2>2. Tail(f) # <<>> <=> Len(Tail(f)) # 0
      <3>1. PICK g \in Seq(Reports) : g = Tail(f)
        BY <2>1
      <3>2. g = <<>> <=> Len(g) = 0
        OBVIOUS
      <3> QED BY <3>1, <3>2
    <2> QED BY <2>1, <2>2
  <1> PICK e : e = dev'
    OBVIOUS
  <1> PICK h : h = host'
    OBVIOUS
  <1>6. Latest(e, h) = Latest(dev, host)
    BY <1>2, <1>3, <1>4, <1>5 DEF Latest
  <1>7. ~dev.lost => Job(e) /\ NoMore(e, h)
    BY <1>1, <1>2, <1>6 DEF Delivered, Job, NoMore
  <1> QED BY <1>1, <1>2, <1>7 DEF Delivered, Job, NoMore, Latest

LEMMA RequestDelivered ==
  ASSUME TypeOK, Together, Delivered,
         \/ BusReset \/ SetConfiguration \/ SetConfigurationAgain
         \/ Unconfigure \/ SetInterface \/ SetHalt \/ ClearHalt
  PROVE  Delivered'
  <1> SUFFICES ASSUME ~dev'.lost
               PROVE  /\ Job(dev')
                      /\ IF bus' = "configured" THEN NoMore(dev', host')
                         ELSE host'.keys = {} /\ host'.shift = FALSE
    BY DEF Delivered, Job, NoMore, Latest
  <1>1. dev \in Devices /\ (dev.lost \/ Job(dev))
    BY DEF TypeOK, Delivered
  <1>2. CASE SetHalt \/ ClearHalt
    <2>1. UNCHANGED <<bus, host>> /\ bus = "configured"
      BY <1>2 DEF SetHalt, ClearHalt
    <2>2. Passes(dev', dev, host)
      BY <1>1, <1>2, AbortPasses
    <2>3. ~dev.lost /\ NoMore(dev, host)
      BY <2>1, <2>2 DEF Delivered, Passes
    <2> QED BY <2>1, <2>2, <2>3 DEF Passes
  <1>3. CASE BusReset \/ Unconfigure
    <2>1. bus' # "configured" /\ host'.keys = {} /\ host'.shift = FALSE
      BY <1>3 DEF BusReset, Unconfigure, Released
    <2>2. Passes(dev', dev, host)
      BY <1>1, <1>3, AbortPasses
    <2> QED BY <2>1, <2>2 DEF Passes
  <1>4. CASE SetConfiguration
    <2> PICK keep \in BOOLEAN : dev' = HidEnable(EpAlloc(dev, keep))
      BY <1>4 DEF SetConfiguration
    <2>1. bus = "address" /\ bus' = "configured" /\ host' = host
      BY <1>4 DEF SetConfiguration
    <2>2. ~dev.busy
      BY <2>1 DEF Together, Off
    <2> PICK g : g = dev'
      OBVIOUS
    <2>3. /\ Job(g) /\ ~g.left /\ g.fifo = <<>> /\ g.shift = FALSE /\ g.keys = {}
          /\ ~dev.lost
      BY <1>1, <2>2, AllocQuiet
    <2>4. host.keys = {} /\ host.shift = FALSE
      BY <2>1, <2>3 DEF Delivered
    <2> QED BY <2>1, <2>3, <2>4 DEF NoMore, Latest
  <1>5. ASSUME NEW keep \in BOOLEAN, NEW g, g = Configured(dev, keep), ~g.lost
        PROVE  /\ Job(g) /\ ~g.left /\ g.fifo = <<>>
               /\ g.shift = FALSE /\ g.keys = {}
               /\ bus = "configured" => host.shift = FALSE /\ host.keys = {}
    <2> PICK d : d = EpFree(dev)
      OBVIOUS
    <2>1. d \in Devices /\ Passes(d, dev, host) /\ (d.lost \/ ~d.busy)
      BY <1>1, EpFreeType, EpFreePasses
    <2>2. g = HidEnable(EpAlloc(d, keep)) /\ (d.lost \/ Job(d))
      BY <1>5, <2>1 DEF Configured, Passes
    <2>3. /\ Job(g) /\ ~g.left /\ g.fifo = <<>> /\ g.shift = FALSE /\ g.keys = {}
          /\ ~d.lost /\ ~d.left /\ d.fifo = <<>> /\ d.shift = FALSE /\ d.keys = {}
      BY <1>5, <2>1, <2>2, AllocQuiet
    <2>4. ~d.valid
      <3>1. Agree(d)
        BY <1>1, EpFreeOff DEF Together
      <3> QED BY <2>1, <2>3, <3>1 DEF Agree
    <2>5. bus = "configured" => NoMore(d, host)
      BY <2>1, <2>3 DEF Delivered, Passes
    <2> QED BY <2>3, <2>4, <2>5 DEF NoMore, Latest
  <1> PICK e : e = dev'
    OBVIOUS
  <1>6. CASE SetInterface
    <2>1. bus = "configured" /\ UNCHANGED <<bus, host>>
      BY <1>6 DEF SetInterface
    <2>2. PICK keep \in BOOLEAN : e = Configured(dev, keep)
      BY <1>6 DEF SetInterface
    <2>3. /\ Job(e) /\ ~e.left /\ e.fifo = <<>> /\ e.shift = FALSE /\ e.keys = {}
          /\ host.shift = FALSE /\ host.keys = {}
      BY <1>5, <2>1, <2>2
    <2> QED BY <2>1, <2>3 DEF NoMore, Latest
  <1>7. CASE SetConfigurationAgain
    <2>1. bus' = "configured" /\ host'.keys = {} /\ host'.shift = FALSE
      BY <1>7 DEF SetConfigurationAgain, Released
    <2>2. PICK keep \in BOOLEAN : e = Configured(dev, keep)
      BY <1>7 DEF SetConfigurationAgain
    <2>3. Job(e) /\ ~e.left /\ e.fifo = <<>> /\ e.shift = FALSE /\ e.keys = {}
      BY <1>5, <2>2
    <2> QED BY <2>1, <2>3 DEF NoMore, Latest
  <1> QED BY <1>2, <1>3, <1>4, <1>6, <1>7

LEMMA StepDelivered ==
  ASSUME TypeOK, Together, Delivered, [Next]_vars
  PROVE  Delivered'
  <1>1. ASSUME UNCHANGED <<dev, bus, host>>
        PROVE  Delivered'
    BY <1>1 DEF Delivered, Job, NoMore, Latest
  <1>2. CASE UNCHANGED vars
    BY <1>1, <1>2 DEF vars
  <1>3. ASSUME NEW text \in Texts(MAX_CHARS), LongPress(text)
        PROVE  Delivered'
    BY <1>1, <1>3 DEF LongPress
  <1>4. CASE SkipUnmapped \/ PollNothing
    BY <1>1, <1>4 DEF SkipUnmapped, PollNothing
  <1>5. CASE ModifierDown \/ Down \/ Up \/ ModifierUp
    BY <1>5, CallsDelivered
  <1>6. CASE PollData
    BY <1>6, PollDataDelivered
  <1>7. CASE SetAddress
    <2>1. bus # "configured" /\ bus' # "configured" /\ UNCHANGED <<dev, host>>
      BY <1>7 DEF SetAddress
    <2> QED BY <2>1 DEF Delivered, Job
  <1>8. CASE HaltSent \/ AllSent \/ NextBank \/ LoadAndSend
    <2>1. UNCHANGED <<bus, host>>
      BY <1>8 DEF HaltSent, AllSent, NextBank, LoadAndSend, Interrupt
    <2>2. dev.lost \/ Job(dev)
      BY DEF Delivered
    <2> QED BY <1>8, <2>1, <2>2, InterruptPasses, PassesDelivered
  <1>9. CASE \/ BusReset \/ SetConfiguration \/ SetConfigurationAgain
             \/ Unconfigure \/ SetInterface \/ SetHalt \/ ClearHalt
    BY <1>9, RequestDelivered
  <1> QED
    BY <1>2, <1>3, <1>4, <1>5, <1>6, <1>7, <1>8, <1>9
    DEF Next, SendKeys, UdpInterrupt, Host, Faults

(* When a text is sent and no report was dropped, the host holds nothing      *)
(* down, however the reports were held back and taken.                        *)
THEOREM AlwaysReleasedAtRest == Spec => []ReleasedAtRest
  <1>1. Init => Together /\ Ordered /\ Cased /\ Delivered
    <2> SUFFICES ASSUME Init PROVE Together /\ Ordered /\ Cased /\ Delivered
      OBVIOUS
    <2>1. Together
      BY DEF Init, Together, Agree, Off
    <2>2. /\ dev.left = FALSE /\ dev.bufEnd = FALSE /\ bus = "default"
          /\ host.keys = {} /\ host.shift = FALSE
      BY DEF Init, Released
    <2> QED BY <2>1, <2>2, InitOrdered, InitCased DEF Delivered, Job
  <1>2. TypeOK /\ TypeOK' /\ Together /\ Ordered /\ Cased /\ Delivered /\ [Next]_vars
          => Together' /\ Ordered' /\ Cased' /\ Delivered'
    BY StepAgrees, StepOrdered, StepCased, StepDelivered
  <1>3. TypeOK /\ Together /\ Ordered /\ Cased /\ Delivered => ReleasedAtRest
    <2> SUFFICES ASSUME TypeOK, Together, Ordered, Cased, Delivered,
                        bus = "configured", AtRest, ~dev.lost
                 PROVE  host.keys = {} /\ ~host.shift
      BY DEF ReleasedAtRest
    <2>1. ~dev.busy /\ ~dev.valid /\ dev.fifo = <<>> /\ todo = <<>>
      BY DEF AtRest, Together, Agree
    <2>2. ~dev.left /\ NoMore(dev, host)
      BY <2>1 DEF Delivered, Job
    <2>3. host.shift = dev.shift /\ host.keys = dev.keys
      BY <2>1, <2>2 DEF NoMore, Latest
    <2>4. step = "modifier_down" /\ dev.shift = FALSE
      BY <2>1 DEF Cased, Shifted
    <2>5. dev.keys = {}
      BY <2>4 DEF Ordered, Rhythm
    <2> QED BY <2>3, <2>4, <2>5
  <1> QED BY <1>1, <1>2, <1>3, TypeCorrect, PTL DEF Spec

-----------------------------------------------------------------------------
(* The banks.  Those counted are the packets of the FIFO and the one that is  *)
(* taken but not acknowledged.  Between two steps a packet is announced or    *)
(* taken whenever there is one, and never announced twice (Banked).  While an *)
(* interrupt is served its packet still counts as taken, so that a job that   *)
(* is started by the callback touches no register.                            *)

Banked(d) ==
  /\ d.bank = Len(d.fifo) + (IF d.complete THEN 1 ELSE 0)
  /\ d.ready => d.fifo # <<>> /\ ~d.complete
  /\ d.fifo # <<>> => d.ready \/ d.complete
  /\ d.stall => ~d.ready /\ ~d.complete

Counts(d) == ~d.torn /\ d.enabled => Banked(d)

(* e keeps all the registers of d, or those no job changes.                   *)
Fixed(e, d) ==
  /\ e.enabled = d.enabled /\ e.torn = d.torn
  /\ e.complete = d.complete /\ e.stall = d.stall

Registers(e, d) ==
  Fixed(e, d) /\ e.bank = d.bank /\ e.fifo = d.fifo /\ e.ready = d.ready

Runs(e, d) ==
  /\ Fixed(e, d)
  /\ Counts(d) => Counts(e)
  /\ d.complete => Registers(e, d)

LEMMA RegistersRuns ==
  ASSUME NEW d, NEW e, Registers(e, d)
  PROVE  Runs(e, d)
  BY DEF Registers, Fixed, Runs, Counts, Banked

LEMMA RunsTrans ==
  ASSUME NEW d, NEW e, NEW g, Runs(e, d), Runs(g, e)
  PROVE  Runs(g, d)
  BY DEF Registers, Fixed, Runs

LEMMA EmptyIffNoLength ==
  ASSUME NEW f \in Seq(Reports)
  PROVE  Len(f) \in Nat /\ (f = <<>> <=> Len(f) = 0)
  OBVIOUS

LEMMA LongerNotEmpty ==
  ASSUME NEW f \in Seq(Reports), NEW n \in Nat, Len(f) = n + 1
  PROVE  f # <<>>
  <1>1. Len(<<>>) = 0 /\ n + 1 # 0
    OBVIOUS
  <1> QED BY <1>1

(* A packet is written to the FIFO: one more, announced or before announced.  *)
LEMMA EpInSentBanked ==
  ASSUME NEW d \in Devices, NEW x \in BOOLEAN
  PROVE  LET e == EpInSent(d, x) IN
         /\ Fixed(e, d)
         /\ \/ Registers(e, d)
            \/ /\ e.bank = d.bank + 1 /\ Len(e.fifo) = Len(d.fifo) + 1
               /\ e.ready = IF x THEN TRUE ELSE d.ready
         /\ d.left /\ d.bank = 0 => e.bank = 1 /\ Len(e.fifo) = Len(d.fifo) + 1
                                    /\ e.ready = IF x THEN TRUE ELSE d.ready
  <1> DEFINE e == EpInSent(d, x)
  <1>1. CASE d.bank >= BANKS \/ ~d.left
    <2>1. e = d
      BY <1>1 DEF EpInSent
    <2> HIDE DEF e
    <2>2. ~(d.left /\ d.bank = 0) /\ Registers(e, d) /\ Fixed(e, d)
      BY <1>1, <2>1 DEF Registers, Fixed
    <2> QED BY <2>2 DEF e
  <1>2. CASE ~(d.bank >= BANKS \/ ~d.left)
    <2>1. /\ e.enabled = d.enabled /\ e.torn = d.torn
          /\ e.complete = d.complete /\ e.stall = d.stall
          /\ e.bank = d.bank + 1 /\ e.fifo = Append(d.fifo, d.trans)
          /\ e.ready = IF x THEN TRUE ELSE d.ready
      BY <1>2 DEF EpInSent, Devices
    <2>2. PICK f \in Seq(Reports) : f = d.fifo
      BY DEF Devices
    <2>3. Len(Append(f, d.trans)) = Len(f) + 1
      OBVIOUS
    <2> QED BY <2>1, <2>2, <2>3 DEF Fixed
  <1> QED BY <1>1, <1>2

LEMMA SendReportRuns ==
  ASSUME NEW d \in Devices
  PROVE  Runs(SendReport(d), d)
  <1> DEFINE taken == [d EXCEPT !.trans = Report(d), !.valid = FALSE]
             dropped == [taken EXCEPT !.lost = TRUE]
             job == [taken EXCEPT !.busy = TRUE, !.left = TRUE,
                                  !.bufEnd = FALSE, !.irq = TRUE]
             run == EpRun(taken)
             sending == [run EXCEPT !.ongoing = TRUE]
  <1>1. Report(d) \in Reports
    BY DEF Report, Reports, Devices
  <1>2. taken \in Devices /\ Registers(taken, d)
    BY <1>1 DEF Devices, Registers, Fixed
  <1> HIDE DEF taken
  <1>3. Registers(dropped, taken)
    BY <1>2 DEF Devices, Registers, Fixed
  <1>4. job \in Devices /\ Registers(job, taken) /\ job.left
    BY <1>2 DEF Devices, Registers, Fixed
  <1>5. run = IF taken.ready \/ taken.complete THEN job ELSE EpInSent(job, TRUE)
    BY DEF EpRun
  <1> HIDE DEF job, run, dropped
  <1>6. run \in Devices
    BY <1>4, <1>5, EpInSentType
  <1>7. ASSUME ~taken.stall
        PROVE  Runs(run, taken)
    <2>1. CASE taken.ready \/ taken.complete
      BY <1>4, <1>5, <2>1, RegistersRuns
    <2>2. CASE ~(taken.ready \/ taken.complete)
      <3>1. /\ Fixed(run, job)
            /\ job.bank = 0 => run.bank = 1 /\ Len(run.fifo) = Len(job.fifo) + 1
                               /\ run.ready = TRUE
        BY <1>4, <1>5, <2>2, EpInSentBanked
      <3>2. run.fifo \in Seq(Reports) /\ job.fifo \in Seq(Reports)
        BY <1>4, <1>6 DEF Devices
      <3>3. ~job.stall /\ ~job.ready /\ ~job.complete
        BY <1>4, <1>7, <2>2 DEF Registers, Fixed
      <3>4. ASSUME Counts(taken), ~run.torn, run.enabled
            PROVE  Banked(run)
        <4>1. Banked(job)
          BY <1>4, <3>1, <3>4 DEF Counts, Banked, Registers, Fixed
        <4>2. job.fifo = <<>>
          BY <3>3, <4>1 DEF Banked
        <4>3. Len(job.fifo) = 0 /\ job.bank = 0
          BY <3>2, <3>3, <4>1, <4>2, EmptyIffNoLength DEF Banked
        <4>4. /\ run.bank = 1 /\ Len(run.fifo) = 1 /\ run.ready = TRUE
              /\ ~run.complete /\ ~run.stall
          BY <3>1, <3>3, <4>3 DEF Fixed
        <4>5. run.fifo # <<>>
          <5>1. PICK f \in Seq(Reports) : f = run.fifo
            BY <3>2
          <5>2. Len(f) = 1 => f # <<>>
            OBVIOUS
          <5> QED BY <4>4, <5>1, <5>2
        <4> QED BY <4>4, <4>5 DEF Banked
      <3> QED BY <1>4, <2>2, <3>1, <3>4 DEF Runs, Counts, Registers, Fixed
    <2> QED BY <2>1, <2>2
  <1>8. Registers(sending, run)
    BY <1>6 DEF Devices, Registers, Fixed
  <1>9. SendReport(d) = IF d.ongoing THEN d ELSE
                        IF Refuses(taken) THEN dropped ELSE sending
    BY DEF SendReport, taken, dropped, run
  <1> HIDE DEF sending
  <1>10. Runs(d, d) /\ Runs(taken, d) /\ Runs(dropped, taken) /\ Runs(sending, run)
    <2>1. Registers(d, d)
      BY DEF Registers, Fixed
    <2> QED BY <1>2, <1>3, <1>8, <2>1, RegistersRuns
  <1>11. ~Refuses(taken) => Runs(sending, d)
    <2> SUFFICES ASSUME ~Refuses(taken) PROVE Runs(sending, d)
      OBVIOUS
    <2>1. Runs(run, taken)
      BY <1>7 DEF Refuses
    <2> QED BY <1>10, <2>1, RunsTrans
  <1>12. Runs(dropped, d)
    BY <1>10, RunsTrans
  <1> QED BY <1>9, <1>10, <1>11, <1>12

LEMMA FinishJobRuns ==
  ASSUME NEW d \in Devices
  PROVE  Runs(FinishJob(d), d)
  <1> DEFINE e == [d EXCEPT !.busy = FALSE]
             idle == [e EXCEPT !.ongoing = FALSE]
  <1>1. idle \in Devices /\ Registers(idle, d)
    BY DEF Devices, Registers, Fixed
  <1>2. FinishJob(d) = IF d.busy THEN IF e.valid THEN SendReport(idle) ELSE idle
                       ELSE d
    BY DEF FinishJob, ReportSent
  <1> HIDE DEF e, idle
  <1>3. Registers(d, d)
    BY DEF Registers, Fixed
  <1>4. Runs(d, d) /\ Runs(idle, d)
    BY <1>1, <1>3, RegistersRuns
  <1>5. Runs(SendReport(idle), d)
    BY <1>1, <1>4, SendReportRuns, RunsTrans
  <1> QED BY <1>2, <1>4, <1>5

LEMMA AbortJobRuns ==
  ASSUME NEW d \in Devices
  PROVE  Runs(AbortJob(d), d)
  <1> DEFINE e == [d EXCEPT !.lost = d.lost \/ d.busy]
  <1>1. (d.lost \/ d.busy) \in BOOLEAN
    OBVIOUS
  <1>2. e \in Devices /\ Registers(e, d)
    BY <1>1 DEF Devices, Registers, Fixed
  <1>3. AbortJob(d) = FinishJob(e)
    BY DEF AbortJob
  <1> HIDE DEF e
  <1> QED BY <1>2, <1>3, FinishJobRuns, RegistersRuns, RunsTrans

LEMMA OneLess ==
  ASSUME NEW m \in 0..3, NEW n \in Nat, m = n + 1
  PROVE  (m + 4 - 1) % 4 = n
  <1>1. m = 1 \/ m = 2 \/ m = 3
    OBVIOUS
  <1>2. CASE m = 1
    BY <1>2
  <1>3. CASE m = 2
    BY <1>3
  <1>4. CASE m = 3
    BY <1>4
  <1> QED BY <1>1, <1>2, <1>3, <1>4

(* What the interrupt finds: a packet was taken, one bank less is counted.    *)
LEMMA AfterSentBanked ==
  ASSUME NEW d \in Devices, d.complete
  PROVE  LET b == OneBankLess(d)  a == AfterSent(d) IN
         /\ b \in Devices /\ Fixed(b, d) /\ Registers(a, b) /\ a \in Devices
         /\ ~b.torn /\ b.enabled /\ Counts(d) =>
              b.bank = Len(b.fifo) /\ ~b.ready /\ ~b.stall
  <1> DEFINE b == OneBankLess(d)
             e == [b EXCEPT !.bufEnd = FALSE, !.left = FALSE]
  <1>1. b \in Devices /\ AfterSent(d) \in Devices
    BY AfterSentType
  <1>2. /\ Fixed(b, d) /\ b.bank = (d.bank + 4 - 1) % 4 /\ b.fifo = d.fifo
        /\ b.ready = d.ready
    BY DEF OneBankLess, Devices, Fixed
  <1>3. AfterSent(d) = IF b.bufEnd THEN FinishJob(e) ELSE b
    BY DEF AfterSent
  <1> HIDE DEF b
  <1>4. e \in Devices /\ Registers(e, b)
    <2>1. e \in Devices
      BY <1>1 DEF Devices
    <2>2. Registers(e, b)
      BY <1>1 DEF Devices, Registers, Fixed
    <2> QED BY <2>1, <2>2
  <1> HIDE DEF e
  <1>5. Registers(FinishJob(e), b)
    <2>1. e.complete
      BY <1>2, <1>4 DEF Registers, Fixed
    <2>2. Registers(FinishJob(e), e)
      BY <1>4, <2>1, FinishJobRuns DEF Runs
    <2> QED BY <1>4, <2>2 DEF Registers, Fixed
  <1>6. Registers(b, b)
    BY DEF Registers, Fixed
  <1>7. ASSUME ~b.torn, b.enabled, Counts(d)
        PROVE  b.bank = Len(b.fifo) /\ ~b.ready /\ ~b.stall
    <2>1. Banked(d)
      BY <1>2, <1>7 DEF Counts, Fixed
    <2>2. d.bank = Len(d.fifo) + 1 /\ ~d.ready /\ ~d.stall
      BY <2>1 DEF Banked
    <2>3. Len(d.fifo) \in Nat /\ d.bank \in 0..3
      BY EmptyIffNoLength DEF Devices
    <2> PICK n \in Nat : n = Len(d.fifo)
      BY <2>3
    <2> PICK m \in 0..3 : m = d.bank
      BY <2>3
    <2>4. m = n + 1
      BY <2>2
    <2>5. (m + 4 - 1) % 4 = n
      BY <2>4, OneLess
    <2> QED BY <1>2, <2>2, <2>5 DEF Fixed
  <1> QED BY <1>1, <1>2, <1>3, <1>5, <1>6, <1>7 DEF b
(* A packet goes to the second bank while the first is announced.             *)
LEMMA LoadedCounts ==
  ASSUME NEW e \in Devices, Counts(e), e.ready
  PROVE  Counts(EpInSent(e, FALSE))
  <1> PICK g : g = EpInSent(e, FALSE)
    OBVIOUS
  <1>1. /\ g \in Devices /\ Fixed(g, e)
        /\ \/ Registers(g, e)
           \/ /\ g.bank = e.bank + 1 /\ Len(g.fifo) = Len(e.fifo) + 1
              /\ g.ready = e.ready
    BY EpInSentType, EpInSentBanked
  <1>2. CASE Registers(g, e)
    BY <1>2, RegistersRuns DEF Runs
  <1>3. CASE /\ g.bank = e.bank + 1 /\ Len(g.fifo) = Len(e.fifo) + 1
             /\ g.ready = e.ready
    <2> SUFFICES ASSUME ~g.torn, g.enabled PROVE Banked(g)
      BY DEF Counts
    <2>1. Banked(e) /\ ~e.complete /\ ~e.stall
      BY <1>1 DEF Counts, Fixed, Banked
    <2>2. PICK n \in Nat : n = Len(e.fifo)
      BY EmptyIffNoLength DEF Devices
    <2>3. g.fifo \in Seq(Reports)
      BY <1>1 DEF Devices
    <2>4. e.bank = n
      BY <2>1, <2>2, <2>3 DEF Banked
    <2>5. g.bank = n + 1 /\ Len(g.fifo) = n + 1
      BY <1>3, <2>2, <2>4
    <2>6. g.fifo # <<>>
      BY <2>3, <2>5, LongerNotEmpty
    <2>7. g.ready /\ ~g.complete /\ ~g.stall
      BY <1>1, <1>3, <2>1 DEF Fixed
    <2>8. g.bank = Len(g.fifo) + 0
      <3>1. n + 1 = (n + 1) + 0
        OBVIOUS
      <3> QED BY <2>5, <3>1
    <2> QED BY <2>6, <2>7, <2>8 DEF Banked
  <1> QED BY <1>1, <1>2, <1>3

LEMMA InterruptCounts ==
  ASSUME TypeOK, Counts(dev), HaltSent \/ AllSent \/ NextBank \/ LoadAndSend
  PROVE  Counts(dev')
  <1> DEFINE b == OneBankLess(dev)
             a == AfterSent(dev)
  <1>1. dev.complete /\ dev \in Devices
    BY DEF TypeOK, HaltSent, AllSent, NextBank, LoadAndSend, Interrupt
  <1>2. /\ b \in Devices /\ b.complete /\ Registers(a, b) /\ a \in Devices
        /\ ~b.torn /\ b.enabled => b.bank = Len(b.fifo) /\ ~b.ready /\ ~b.stall
    BY <1>1, AfterSentBanked DEF Fixed
  <1>3. \A f \in Seq(Reports) : Len(f) \in Nat /\ (f = <<>> <=> Len(f) = 0)
    BY EmptyIffNoLength
  <1>4. CASE HaltSent
    <2>1. dev' = IF b.bank # 0
                 THEN [b EXCEPT !.ready = TRUE, !.complete = FALSE]
                 ELSE [b EXCEPT !.complete = FALSE, !.stall = TRUE,
                                !.stallRequested = FALSE]
      BY <1>4 DEF HaltSent
    <2> HIDE DEF b
    <2> PICK g : g = dev'
      OBVIOUS
    <2>2. /\ g.torn = b.torn /\ g.enabled = b.enabled /\ g.bank = b.bank
          /\ g.fifo = b.fifo /\ g.complete = FALSE
          /\ IF b.bank # 0 THEN g.ready = TRUE /\ g.stall = b.stall
             ELSE g.ready = b.ready /\ g.stall = TRUE
      BY <1>2, <2>1 DEF Devices
    <2>3. PICK f \in Seq(Reports) : f = b.fifo
      BY <1>2 DEF Devices
    <2>4. ASSUME ~g.torn, g.enabled
          PROVE  Banked(g)
      <3>1. b.bank = Len(f) /\ ~b.ready /\ ~b.stall
        BY <1>2, <2>2, <2>3, <2>4
      <3>2. Len(f) \in Nat /\ (f = <<>> <=> b.bank = 0)
        BY <1>3, <3>1
      <3>3. g.bank = Len(g.fifo) + 0 /\ ~g.complete
        BY <2>2, <2>3, <3>1, <3>2
      <3>4. CASE b.bank # 0
        BY <2>2, <2>3, <3>1, <3>2, <3>3, <3>4 DEF Banked
      <3>5. CASE b.bank = 0
        BY <2>2, <2>3, <3>1, <3>2, <3>3, <3>5 DEF Banked
      <3> QED BY <3>4, <3>5
    <2> QED BY <2>4 DEF Counts
  <1>5. /\ a.torn = b.torn /\ a.enabled = b.enabled /\ a.complete
        /\ ~a.torn /\ a.enabled => a.bank = Len(a.fifo) /\ ~a.ready /\ ~a.stall
    BY <1>2 DEF Registers, Fixed
  <1> HIDE DEF a, b
  <1>6. PICK f \in Seq(Reports) : f = a.fifo
    BY <1>2 DEF Devices
  <1>7. CASE AllSent
    <2>1. dev' = [a EXCEPT !.irq = FALSE, !.complete = FALSE] /\ a.bank = 0
      BY <1>7 DEF AllSent, a
    <2> PICK g : g = dev'
      OBVIOUS
    <2>2. /\ g.torn = a.torn /\ g.enabled = a.enabled /\ g.bank = 0
          /\ g.fifo = a.fifo /\ g.complete = FALSE /\ g.ready = a.ready
          /\ g.stall = a.stall
      BY <1>2, <2>1 DEF Devices
    <2>3. ~g.torn /\ g.enabled => Banked(g)
      BY <1>3, <1>5, <1>6, <2>1, <2>2 DEF Banked
    <2> QED BY <2>3 DEF Counts
  <1>8. CASE NextBank
    <2> DEFINE e == [a EXCEPT !.ready = TRUE, !.complete = FALSE]
    <2>1. dev' = EpInSent(e, FALSE) /\ a.bank > 0
      BY <1>8 DEF NextBank, a
    <2>2. /\ e \in Devices /\ e.torn = a.torn /\ e.enabled = a.enabled
          /\ e.bank = a.bank /\ e.fifo = a.fifo /\ e.complete = FALSE
          /\ e.ready = TRUE /\ e.stall = a.stall
      BY <1>2 DEF Devices
    <2> HIDE DEF e
    <2>3. ASSUME ~e.torn, e.enabled
          PROVE  Banked(e)
      <3>1. a.bank = Len(f) /\ ~a.ready /\ ~a.stall
        BY <1>5, <1>6, <2>2, <2>3
      <3>2. Len(f) \in Nat /\ (f = <<>> <=> a.bank = 0) /\ a.bank # 0
        BY <1>3, <2>1, <3>1
      <3>3. e.bank = Len(e.fifo) + 0
        BY <1>6, <2>2, <3>1, <3>2
      <3>4. e.fifo # <<>> /\ e.ready /\ ~e.complete /\ ~e.stall
        BY <1>6, <2>2, <3>1, <3>2
      <3> QED BY <3>3, <3>4 DEF Banked
    <2> QED BY <2>1, <2>2, <2>3, LoadedCounts DEF Counts
  <1>9. CASE LoadAndSend
    <2> DEFINE l == EpInSent(a, TRUE)
               m == [l EXCEPT !.bufEnd = FALSE, !.left = FALSE]
               n == FinishJob(m)
               o == [n EXCEPT !.complete = FALSE]
    <2>1. dev' = EpInSent(o, FALSE) /\ a.left /\ a.bank = 0
      BY <1>9 DEF LoadAndSend, a
    <2>2. /\ l \in Devices /\ Fixed(l, a) /\ l.bank = 1
          /\ Len(l.fifo) = Len(a.fifo) + 1 /\ l.ready = TRUE
      BY <1>2, <2>1, EpInSentType, EpInSentBanked
    <2> HIDE DEF l
    <2>3. m \in Devices /\ Registers(m, l)
      BY <2>2 DEF Devices, Registers, Fixed
    <2> HIDE DEF m
    <2>4. n \in Devices /\ Registers(n, m)
      <3>1. m.complete
        BY <1>5, <2>2, <2>3 DEF Registers, Fixed
      <3> QED BY <2>3, <3>1, FinishJobType, FinishJobRuns DEF Runs
    <2> HIDE DEF n
    <2>5. /\ o \in Devices /\ o.torn = n.torn /\ o.enabled = n.enabled
          /\ o.bank = n.bank /\ o.fifo = n.fifo /\ o.complete = FALSE
          /\ o.ready = n.ready /\ o.stall = n.stall
      BY <2>4 DEF Devices
    <2> HIDE DEF o
    <2>6. /\ o.torn = a.torn /\ o.enabled = a.enabled /\ o.bank = 1
          /\ Len(o.fifo) = Len(a.fifo) + 1 /\ o.ready = TRUE /\ o.stall = a.stall
      BY <2>2, <2>3, <2>4, <2>5 DEF Registers, Fixed
    <2>7. PICK k \in Seq(Reports) : k = o.fifo
      BY <2>5 DEF Devices
    <2>8. ~o.torn /\ o.enabled => Banked(o)
      <3> SUFFICES ASSUME ~o.torn, o.enabled PROVE Banked(o)
        OBVIOUS
      <3>1. Len(f) = 0 /\ ~a.stall
        BY <1>5, <1>6, <2>1, <2>6
      <3>2. Len(k) = 1 /\ k # <<>>
        <4>1. Len(k) = Len(f) + 1
          BY <1>6, <2>6, <2>7
        <4>2. Len(k) = 1
          BY <3>1, <4>1
        <4>3. k # <<>>
          BY <4>1, LongerNotEmpty, <3>1, 0 \in Nat
        <4> QED BY <4>2, <4>3
      <3>3. o.bank = Len(o.fifo) + 0
        <4>1. o.bank = 1
          BY <2>6
        <4>2. Len(o.fifo) = 1
          BY <2>7, <3>2
        <4> QED BY <4>1, <4>2
      <3> QED BY <2>5, <2>6, <2>7, <3>1, <3>2, <3>3 DEF Banked
    <2> QED BY <2>1, <2>5, <2>6, <2>8, LoadedCounts DEF Counts
  <1> QED BY <1>4, <1>7, <1>8, <1>9

(* Aborting the endpoint forgets its packets before its job is called back,   *)
(* which may load one; a new configuration forgets them too.                  *)
LEMMA RequestCounts ==
  ASSUME TypeOK, Together, Counts(dev),
         \/ BusReset \/ SetConfiguration \/ SetConfigurationAgain
         \/ Unconfigure \/ SetInterface \/ SetHalt \/ ClearHalt
  PROVE  Counts(dev')
  <1>1. dev \in Devices /\ Agree(dev)
    BY DEF TypeOK, Together
  <1>2. Len(<<>>) = 0
    OBVIOUS
  <1>3. CASE BusReset
    <2> DEFINE d1 == [dev EXCEPT !.enabled = FALSE, !.ready = FALSE,
                        !.complete = FALSE, !.stall = FALSE, !.irq = FALSE]
               lo == dev.lost \/ dev.fifo # <<>>
               d2 == [d1 EXCEPT !.lost = lo]
               d3 == [d2 EXCEPT !.fifo = <<>>]
    <2>1. dev' = AbortJob(d3)
      BY <1>3 DEF BusReset
    <2>2. lo \in BOOLEAN
      OBVIOUS
    <2> HIDE DEF lo
    <2>3. d1 \in Devices /\ d1.enabled = FALSE
      <3>1. d1 \in Devices
        BY <1>1, ResetType
      <3>2. d1.enabled = FALSE
        BY <1>1 DEF Devices
      <3> QED BY <3>1, <3>2
    <2> HIDE DEF d1
    <2>4. d2 \in Devices /\ d2.enabled = FALSE
      BY <2>2, <2>3 DEF Devices
    <2> HIDE DEF d2
    <2>5. d3 \in Devices
      BY <2>4, FifoType, EmptySequence
    <2>6. d3.enabled = FALSE
      BY <2>4 DEF Devices
    <2> HIDE DEF d3
    <2>7. Off(AbortJob(d3))
      BY <2>5, <2>6, AbortJobOff
    <2> QED BY <2>1, <2>7 DEF Off, Counts
  <1>4. CASE Unconfigure
    BY <1>1, <1>4, EpFreeOff DEF Unconfigure, Off, Counts
  <1>5. ASSUME NEW d \in Devices, NEW keep \in BOOLEAN, NEW g,
               g = HidEnable(EpAlloc(d, keep))
        PROVE  Counts(g)
    <2> DEFINE e == EpAlloc(d, keep)
               to == d.torn \/ d.ready \/ d.complete
               lo == e.lost \/ e.shift \/ e.keys # {}
    <2>1. e \in Devices
      BY EpAllocType
    <2>2. lo \in BOOLEAN /\ to \in BOOLEAN
      OBVIOUS
    <2>3. /\ e.bank = 0 /\ e.fifo = <<>> /\ e.torn = to
          /\ e.ready \in {d.ready, FALSE} /\ e.complete \in {d.complete, FALSE}
      BY DEF EpAlloc, Devices
    <2> HIDE DEF e
    <2>4. /\ g.bank = e.bank /\ g.fifo = e.fifo /\ g.torn = e.torn
          /\ g.ready = e.ready /\ g.complete = e.complete
      BY <1>5, <2>1 DEF HidEnable, Devices, e
    <2>5. ~g.torn => ~g.ready /\ ~g.complete
      BY <2>3, <2>4
    <2> QED BY <1>2, <2>3, <2>4, <2>5 DEF Counts, Banked
  <1>6. CASE SetConfiguration
    <2> PICK keep \in BOOLEAN : dev' = HidEnable(EpAlloc(dev, keep))
      BY <1>6 DEF SetConfiguration
    <2> PICK g : g = dev'
      OBVIOUS
    <2> QED BY <1>1, <1>5
  <1>7. CASE SetConfigurationAgain \/ SetInterface
    <2> PICK keep \in BOOLEAN : dev' = Configured(dev, keep)
      BY <1>7 DEF SetConfigurationAgain, SetInterface
    <2> PICK d : d = EpFree(dev)
      OBVIOUS
    <2> PICK g : g = dev'
      OBVIOUS
    <2>1. d \in Devices /\ g = HidEnable(EpAlloc(d, keep))
      BY <1>1, EpFreeType DEF Configured
    <2> QED BY <1>5, <2>1
  <1>8. CASE SetHalt
    <2> DEFINE d1 == [dev EXCEPT !.irq = FALSE, !.ready = FALSE,
                                 !.complete = FALSE]
               d2 == [d1 EXCEPT !.bank = 0]
               lo == dev.lost \/ dev.fifo # <<>>
               d3 == [d2 EXCEPT !.lost = lo]
               d4 == [d3 EXCEPT !.fifo = <<>>]
               d == EpAbort(dev)
    <2>1. d = AbortJob(d4)
      BY DEF EpAbort
    <2>2. lo \in BOOLEAN /\ 0 \in 0..3
      OBVIOUS
    <2> HIDE DEF lo
    <2>3. d1 \in Devices /\ d1.ready = FALSE /\ d1.complete = FALSE
      BY <1>1 DEF Devices
    <2> HIDE DEF d1
    <2>4. d2 \in Devices
      BY <2>2, <2>3, BankType
    <2>5. d2.bank = 0 /\ d2.ready = FALSE /\ d2.complete = FALSE
      BY <2>3 DEF Devices
    <2> HIDE DEF d2
    <2>6. d3 \in Devices /\ d3.bank = 0 /\ d3.ready = FALSE /\ d3.complete = FALSE
      BY <2>2, <2>4, <2>5 DEF Devices
    <2> HIDE DEF d3
    <2>7. d4 \in Devices
      BY <2>6, FifoType, EmptySequence
    <2>8. d4.bank = 0 /\ d4.ready = FALSE /\ d4.complete = FALSE /\ d4.fifo = <<>>
      BY <2>6 DEF Devices
    <2> HIDE DEF d4
    <2>9. Counts(d4)
      BY <1>2, <2>8 DEF Counts, Banked
    <2>10. d \in Devices /\ Counts(d) /\ d.complete = FALSE
      BY <2>1, <2>7, <2>8, <2>9, AbortJobType, AbortJobRuns DEF Runs, Fixed
    <2>11. dev' = IF d.ready \/ d.bank > 1
                  THEN [d EXCEPT !.stallRequested = TRUE, !.irq = TRUE]
                  ELSE [d EXCEPT !.stall = TRUE, !.irq = TRUE]
      BY <1>8 DEF SetHalt
    <2> HIDE DEF d
    <2> PICK g : g = dev'
      OBVIOUS
    <2>12. /\ g.torn = d.torn /\ g.enabled = d.enabled /\ g.bank = d.bank
           /\ g.fifo = d.fifo /\ g.complete = d.complete /\ g.ready = d.ready
           /\ g.stall = d.stall \/ ~d.ready
      BY <2>10, <2>11 DEF Devices
    <2> QED BY <2>10, <2>12 DEF Counts, Banked
  <1>9. CASE ClearHalt
    <2> DEFINE d == [dev EXCEPT !.stallRequested = FALSE]
               e == [d EXCEPT !.stall = FALSE]
               lo == d.lost \/ d.busy \/ d.fifo # <<>>
               g == [e EXCEPT !.lost = lo]
               k == [g EXCEPT !.fifo = <<>>]
    <2>1. d \in Devices /\ Registers(d, dev)
      BY <1>1 DEF Devices, Registers, Fixed
    <2>2. dev' = IF dev.stall THEN FinishJob(k) ELSE d
      BY <1>9 DEF ClearHalt
    <2>3. lo \in BOOLEAN
      OBVIOUS
    <2> HIDE DEF d, lo
    <2>4. /\ e \in Devices /\ e.enabled = d.enabled /\ e.torn = d.torn
          /\ e.complete = d.complete /\ e.ready = d.ready /\ e.bank = d.bank
          /\ e.stall = FALSE
      BY <2>1 DEF Devices
    <2> HIDE DEF e
    <2>5. g \in Devices /\ Registers(g, e)
      BY <2>3, <2>4 DEF Devices, Registers, Fixed
    <2> HIDE DEF g
    <2>6. k \in Devices
      BY <2>5, FifoType, EmptySequence
    <2>7. Fixed(k, g) /\ k.ready = g.ready /\ k.bank = g.bank /\ k.fifo = <<>>
      BY <2>5 DEF Devices, Fixed
    <2> HIDE DEF k
    <2>8. Counts(d)
      BY <2>1, RegistersRuns DEF Runs
    <2>9. ASSUME dev.stall
          PROVE  Counts(k)
      <3> SUFFICES ASSUME ~k.torn, k.enabled PROVE Banked(k)
        BY DEF Counts
      <3>1. /\ ~d.torn /\ d.enabled /\ d.stall /\ k.bank = d.bank
            /\ k.ready = d.ready /\ k.complete = d.complete
        BY <2>1, <2>4, <2>5, <2>7, <2>9 DEF Fixed, Registers
      <3>2. Banked(d)
        BY <2>8, <3>1 DEF Counts
      <3>3. d.fifo = <<>> /\ ~d.ready /\ ~d.complete
        BY <3>1, <3>2 DEF Banked
      <3>4. k.bank = 0
        BY <1>2, <3>1, <3>2, <3>3 DEF Banked
      <3> QED BY <1>2, <2>7, <3>1, <3>3, <3>4 DEF Banked
    <2>10. dev.stall => Counts(FinishJob(k))
      BY <2>6, <2>9, FinishJobRuns DEF Runs
    <2> QED BY <2>2, <2>8, <2>10
  <1> QED BY <1>3, <1>4, <1>6, <1>7, <1>8, <1>9

LEMMA PollDataCounts ==
  ASSUME TypeOK, Counts(dev), PollData
  PROVE  Counts(dev')
  <1>1. dev \in Devices /\ dev.ready /\ ~dev.stall
    BY DEF TypeOK, PollData, CanPoll
  <1> PICK g : g = dev'
    OBVIOUS
  <1>2. /\ g.torn = dev.torn /\ g.enabled = dev.enabled /\ g.bank = dev.bank
        /\ g.ready = FALSE /\ g.complete = TRUE /\ g.stall = dev.stall
        /\ g.fifo = IF dev.fifo = <<>> THEN dev.fifo ELSE Tail(dev.fifo)
    BY <1>1 DEF PollData, Devices
  <1> SUFFICES ASSUME ~g.torn, g.enabled PROVE Banked(g)
    BY DEF Counts
  <1>3. Banked(dev)
    BY <1>2 DEF Counts
  <1>4. PICK f \in Seq(Reports) : f = dev.fifo
    BY <1>1 DEF Devices
  <1>5. f # <<>> /\ ~dev.complete
    BY <1>1, <1>3, <1>4 DEF Banked
  <1>6. Len(f) \in Nat /\ (f # <<>> => Len(Tail(f)) = Len(f) - 1)
    OBVIOUS
  <1>7. dev.bank = Len(f)
    BY <1>3, <1>4, <1>5, <1>6 DEF Banked
  <1>8. g.fifo = Tail(f) /\ g.bank = Len(f) /\ Len(g.fifo) + 1 = Len(f)
    BY <1>2, <1>4, <1>5, <1>6, <1>7
  <1> QED BY <1>1, <1>2, <1>8 DEF Banked

LEMMA CallsCounts ==
  ASSUME TypeOK, Counts(dev), ModifierDown \/ Down \/ Up \/ ModifierUp
  PROVE  Counts(dev')
  <1>1. dev \in Devices
    BY DEF TypeOK
  <1>2. ASSUME NEW e \in Devices, dev' = SendReport(e), Registers(e, dev)
        PROVE  Counts(dev')
    <2>1. Counts(e)
      BY <1>2, RegistersRuns DEF Runs
    <2> QED BY <1>2, <2>1, SendReportRuns DEF Runs
  <1>3. CASE ModifierDown
    <2> PICK c \in Chars :
          dev' = SendReport([dev EXCEPT !.shift = @ \/ c.shift, !.valid = TRUE])
      BY <1>3 DEF ModifierDown
    <2> DEFINE sh == dev.shift \/ c.shift
               e == [dev EXCEPT !.shift = sh, !.valid = TRUE]
    <2>1. sh \in BOOLEAN /\ dev' = SendReport(e)
      OBVIOUS
    <2> HIDE DEF sh
    <2>2. e \in Devices /\ Registers(e, dev)
      BY <1>1, <2>1 DEF Devices, Registers, Fixed
    <2> HIDE DEF e
    <2> QED BY <1>2, <2>1, <2>2
  <1>4. CASE ModifierUp
    <2> PICK c \in Chars :
          dev' = SendReport([dev EXCEPT !.shift = @ /\ ~c.shift, !.valid = TRUE])
      BY <1>4 DEF ModifierUp
    <2> DEFINE sh == dev.shift /\ ~c.shift
               e == [dev EXCEPT !.shift = sh, !.valid = TRUE]
    <2>1. sh \in BOOLEAN /\ dev' = SendReport(e)
      OBVIOUS
    <2> HIDE DEF sh
    <2>2. e \in Devices /\ Registers(e, dev)
      BY <1>1, <2>1 DEF Devices, Registers, Fixed
    <2> HIDE DEF e
    <2> QED BY <1>2, <2>1, <2>2
  <1>5. CASE Down
    <2> PICK c \in Chars :
          /\ Call("down", "up", c)
          /\ \/ UNCHANGED <<dev, sent>>
             \/ dev' = SendReport([dev EXCEPT !.keys = @ \cup {c.key},
                                     !.no = @ + 1, !.valid = TRUE])
      BY <1>5 DEF Down
    <2> DEFINE ks == dev.keys \cup {c.key}
               n == dev.no + 1
               d1 == [dev EXCEPT !.keys = ks]
               d2 == [d1 EXCEPT !.no = n]
               e == [d2 EXCEPT !.valid = TRUE]
    <2>1. CASE dev' = dev
      BY <2>1 DEF Counts, Banked
    <2>2. CASE dev' = SendReport(e)
      <3>1. ks \in SUBSET KEYS /\ n \in Nat
        BY <1>1 DEF Call, Chars, TypeOK, Devices
      <3>2. Registers(e, dev)
        BY <1>1 DEF Devices, Registers, Fixed
      <3> HIDE DEF ks, n
      <3>3. d2 \in Devices
        BY <1>1, <3>1, KeysType, NoType
      <3> HIDE DEF d2
      <3>4. e \in Devices
        BY <3>3 DEF Devices
      <3> HIDE DEF e
      <3> QED BY <1>2, <2>2, <3>2, <3>4
    <2> QED BY <2>1, <2>2
  <1>6. CASE Up
    <2> PICK c \in Chars :
          dev' = IF c.key \in dev.keys
                 THEN SendReport([dev EXCEPT !.keys = @ \ {c.key}, !.valid = TRUE])
                 ELSE dev
      BY <1>6 DEF Up
    <2> DEFINE ks == dev.keys \ {c.key}
               d1 == [dev EXCEPT !.keys = ks]
               e == [d1 EXCEPT !.valid = TRUE]
    <2>1. dev' = SendReport(e) \/ dev' = dev
      OBVIOUS
    <2>2. ks \in SUBSET KEYS
      BY <1>1 DEF Devices
    <2>3. Registers(e, dev)
      BY <1>1 DEF Devices, Registers, Fixed
    <2> HIDE DEF ks
    <2>4. d1 \in Devices
      BY <1>1, <2>2, KeysType
    <2> HIDE DEF d1
    <2>5. e \in Devices
      BY <2>4 DEF Devices
    <2> HIDE DEF e
    <2>6. CASE dev' = dev
      BY <2>6 DEF Counts, Banked
    <2>7. CASE dev' = SendReport(e)
      BY <1>2, <2>3, <2>5, <2>7
    <2> QED BY <2>1, <2>6, <2>7
  <1> QED BY <1>3, <1>4, <1>5, <1>6

Counted == Counts(dev)

LEMMA StepCounts ==
  ASSUME TypeOK, Together, Counts(dev), [Next]_vars
  PROVE  Counts(dev')
  <1>1. CASE dev' = dev
    BY <1>1 DEF Counts, Banked
  <1>2. CASE UNCHANGED vars
    BY <1>1, <1>2 DEF vars
  <1>3. ASSUME NEW text \in Texts(MAX_CHARS), LongPress(text)
        PROVE  Counts(dev')
    BY <1>1, <1>3 DEF LongPress
  <1>4. CASE SkipUnmapped \/ PollNothing \/ SetAddress
    BY <1>1, <1>4 DEF SkipUnmapped, PollNothing, SetAddress
  <1>5. CASE ModifierDown \/ Down \/ Up \/ ModifierUp
    BY <1>5, CallsCounts
  <1>6. CASE PollData
    BY <1>6, PollDataCounts
  <1>7. CASE HaltSent \/ AllSent \/ NextBank \/ LoadAndSend
    BY <1>7, InterruptCounts
  <1>8. CASE \/ BusReset \/ SetConfiguration \/ SetConfigurationAgain
             \/ Unconfigure \/ SetInterface \/ SetHalt \/ ClearHalt
    BY <1>8, RequestCounts
  <1> QED
    BY <1>2, <1>3, <1>4, <1>5, <1>6, <1>7, <1>8
    DEF Next, SendKeys, UdpInterrupt, Host, Faults

(* The banks counted are the packets of the FIFO, through every job that is   *)
(* started by the callback of another, every abort and every halt.            *)
THEOREM BanksAlwaysCounted == Spec => []BanksCounted
  <1>1. Init => Together /\ Counted
    <2> SUFFICES ASSUME Init PROVE Together /\ Counted
      OBVIOUS
    <2>1. dev.enabled = FALSE /\ Together
      BY DEF Init, Together, Agree, Off
    <2> QED BY <2>1 DEF Counted, Counts
  <1>2. TypeOK /\ TypeOK' /\ Together /\ Counted /\ [Next]_vars
          => Together' /\ Counted'
    <2> SUFFICES ASSUME TypeOK, TypeOK', Together, Counts(dev), [Next]_vars
                 PROVE  Together' /\ Counted'
      BY DEF Counted
    <2>1. Counts(dev')
      BY StepCounts
    <2> QED BY <2>1, StepAgrees DEF Counted, Counts, Banked
  <1>3. Counted => BanksCounted
    BY DEF Counted, Counts, Banked, BanksCounted
  <1> QED BY <1>1, <1>2, <1>3, TypeCorrect, PTL DEF Spec

-----------------------------------------------------------------------------
(* The text, letter for letter.  A prompt host and the delays of send_keys    *)
(* leave at most one report under way: none (Idle), one in the FIFO (Loaded), *)
(* or one taken and not acknowledged (Taken), when send_keys still waits.  So *)
(* what is typed is all that was struck, but for the key of a loaded report.  *)

Calm(d) == ~d.left /\ ~d.valid /\ ~d.stallRequested

Idle(d) ==
  /\ Calm(d) /\ ~d.busy /\ d.fifo = <<>> /\ d.bank = 0
  /\ ~d.ready /\ ~d.complete

Loaded(d) ==
  /\ Calm(d) /\ d.busy /\ d.fifo = <<Report(d)>> /\ d.bank = 1 /\ d.bufEnd
  /\ d.ready /\ ~d.complete /\ d.irq

Taken(d) ==
  /\ Calm(d) /\ d.busy /\ d.fifo = <<>> /\ d.bank = 1 /\ d.bufEnd
  /\ ~d.ready /\ d.complete /\ d.irq

Copied(t, s, n) ==
  /\ Len(t) = n
  /\ \A i \in 1..n : t[i].key = s[i].key /\ t[i].shift = s[i].shift

Awaits(d, h, t, s) ==
  IF d.keys \subseteq h.keys THEN Copied(t, s, Len(s))
  ELSE /\ Len(s) > 0 /\ Copied(t, s, Len(s) - 1)
       /\ d.keys = {s[Len(s)].key} /\ d.shift = s[Len(s)].shift

Letters == [key : KEYS, shift : BOOLEAN]

Exact ==
  /\ \A i \in 1..Len(sent) : sent[i] \in Letters
  /\ prompt /\ ~dev.lost =>
       \/ (Idle(dev) \/ Taken(dev)) /\ Copied(typed, sent, Len(sent))
       \/ Loaded(dev) /\ polls = 0 /\ Awaits(dev, host, typed, sent)

(* A call of an idle endpoint loads its report, unless it is refused.         *)
LEMMA CallLoads ==
  ASSUME NEW e \in Devices, e.valid, ~e.ongoing, ~e.left, e.fifo = <<>>,
         e.bank = 0, ~e.ready, ~e.complete, ~e.stallRequested,
         NEW g, g = SendReport(e), ~g.lost
  PROVE  /\ Loaded(g) /\ g.shift = e.shift /\ g.keys = e.keys /\ ~e.lost
  <1> DEFINE r == Report(e)
             taken == [e EXCEPT !.trans = r, !.valid = FALSE]
             job == [taken EXCEPT !.busy = TRUE, !.left = TRUE, !.bufEnd = FALSE,
                                  !.irq = TRUE]
             sent1 == EpInSent(job, TRUE)
  <1>1. r \in Reports /\ r = [shift |-> e.shift, keys |-> e.keys, no |-> e.no]
    BY DEF Report, Reports, Devices
  <1> HIDE DEF r
  <1>2. /\ taken \in Devices /\ taken.trans = r /\ taken.valid = FALSE
        /\ taken.shift = e.shift /\ taken.keys = e.keys /\ taken.no = e.no
        /\ taken.fifo = <<>> /\ taken.bank = 0 /\ ~taken.ready
        /\ ~taken.complete /\ ~taken.stallRequested /\ taken.lost = e.lost
    BY <1>1 DEF Devices
  <1>3. g = IF Refuses(taken) THEN [taken EXCEPT !.lost = TRUE]
            ELSE [EpRun(taken) EXCEPT !.ongoing = TRUE]
    BY <1>1 DEF SendReport, r
  <1> HIDE DEF taken
  <1>4. [taken EXCEPT !.lost = TRUE].lost = TRUE
    BY <1>2 DEF Devices
  <1>5. g = [EpRun(taken) EXCEPT !.ongoing = TRUE]
    BY <1>3, <1>4
  <1>6. EpRun(taken) = sent1
    BY <1>2 DEF EpRun
  <1>7. /\ job \in Devices /\ job.trans = r /\ job.valid = FALSE
        /\ job.shift = e.shift /\ job.keys = e.keys /\ job.no = e.no
        /\ job.fifo = <<>> /\ job.bank = 0 /\ job.left = TRUE
        /\ ~job.complete /\ ~job.stallRequested /\ job.lost = e.lost
        /\ job.busy = TRUE /\ job.irq = TRUE
    BY <1>2 DEF Devices
  <1> HIDE DEF job
  <1>8. sent1 = [job EXCEPT !.fifo = Append(<<>>, r), !.bank = 1, !.left = FALSE,
                            !.bufEnd = TRUE, !.ready = TRUE]
    <2>1. ~(job.bank >= BANKS \/ ~job.left)
      BY <1>7
    <2>2. sent1 = [job EXCEPT !.fifo = Append(job.fifo, job.trans),
                              !.bank = job.bank + 1, !.left = FALSE,
                              !.bufEnd = TRUE, !.ready = TRUE]
      BY <2>1 DEF EpInSent
    <2>3. job.fifo = <<>> /\ job.trans = r /\ job.bank + 1 = 1
      BY <1>7
    <2> QED BY <2>2, <2>3, Zenon
  <1>9. Append(<<>>, r) = <<r>>
    OBVIOUS
  <1> DEFINE q == [job EXCEPT !.fifo = <<r>>, !.bank = 1, !.left = FALSE,
                              !.bufEnd = TRUE, !.ready = TRUE]
             w == [q EXCEPT !.ongoing = TRUE]
  <1>10. g = w
    BY <1>5, <1>6, <1>8, <1>9
  <1>11. /\ w.fifo = <<r>> /\ w.bank = 1 /\ w.left = FALSE /\ w.bufEnd = TRUE
         /\ w.ready = TRUE /\ w.valid = FALSE /\ w.busy = TRUE /\ w.irq = TRUE
         /\ w.shift = e.shift /\ w.keys = e.keys /\ w.no = e.no
         /\ ~w.complete /\ ~w.stallRequested /\ w.lost = e.lost
    BY <1>7 DEF Devices
  <1> HIDE DEF w
  <1>12. Report(w) = r
    BY <1>1, <1>11 DEF Report
  <1> QED BY <1>10, <1>11, <1>12 DEF Loaded, Calm

(* send_keys makes its next call when the last report is acknowledged.        *)
LEMMA CallWhenIdle ==
  ASSUME TypeOK, Together, Exact, DelayOver, prompt, ~dev.lost
  PROVE  Idle(dev) /\ Copied(typed, sent, Len(sent))
  <1>1. CASE bus = "configured"
    BY <1>1 DEF Exact, DelayOver, Served, Taken
  <1>2. CASE bus # "configured"
    BY <1>2 DEF Exact, Together, Off, Taken, Loaded
  <1> QED BY <1>1, <1>2

LEMMA CallExact ==
  ASSUME TypeOK, Together, Exact, DelayOver,
         UNCHANGED <<prompt, host, typed>>, polls' = 0,
         NEW e \in Devices, dev' = SendReport(e), e.valid,
         e.ongoing = dev.ongoing, e.left = dev.left, e.fifo = dev.fifo,
         e.bank = dev.bank, e.ready = dev.ready, e.complete = dev.complete,
         e.stallRequested = dev.stallRequested, e.lost = dev.lost,
         \A i \in 1..Len(sent') : sent'[i] \in Letters,
         prompt /\ ~dev.lost => Awaits(e, host, typed, sent')
  PROVE  Exact'
  <1> SUFFICES ASSUME prompt, ~dev'.lost
               PROVE  (Loaded(dev) /\ Awaits(dev, host, typed, sent))'
    BY DEF Exact
  <1> PICK g : g = dev'
    OBVIOUS
  <1>1. ~e.lost
    BY CallKeeps
  <1>2. Idle(dev)
    BY <1>1, CallWhenIdle
  <1>3. ~e.ongoing
    BY <1>2 DEF Idle, Together, Agree
  <1>4. Loaded(g) /\ g.shift = e.shift /\ g.keys = e.keys
    <2>1. /\ ~e.left /\ e.fifo = <<>> /\ e.bank = 0 /\ ~e.ready /\ ~e.complete
          /\ ~e.stallRequested
      BY <1>2 DEF Idle, Calm
    <2> QED BY <1>3, <2>1, CallLoads
  <1>5. Awaits(e, host, typed, sent')
    BY <1>1
  <1> PICK s : s = sent'
    OBVIOUS
  <1>6. Awaits(g, host, typed, s)
    BY <1>4, <1>5 DEF Awaits
  <1> QED BY <1>4, <1>6 DEF Loaded, Calm, Awaits, Copied

(* The other calls send a report without a key.                               *)
LEMMA CallsExact ==
  ASSUME TypeOK, Together, Ordered, Exact, ModifierDown \/ Up \/ ModifierUp
  PROVE  Exact'
  <1>1. dev \in Devices /\ dev.shift \in BOOLEAN
    BY DEF TypeOK, Devices
  <1>2. UNCHANGED <<prompt, host, typed, sent>> /\ polls' = 0 /\ DelayOver
    BY DEF ModifierDown, Up, ModifierUp, Call
  <1>3. ASSUME NEW e \in Devices, dev' = SendReport(e), e.valid, e.keys = {},
               e.ongoing = dev.ongoing, e.left = dev.left, e.fifo = dev.fifo,
               e.bank = dev.bank, e.ready = dev.ready,
               e.complete = dev.complete,
               e.stallRequested = dev.stallRequested, e.lost = dev.lost
        PROVE  Exact'
    <2>1. prompt /\ ~dev.lost => Awaits(e, host, typed, sent)
      BY <1>2, <1>3, CallWhenIdle DEF Awaits
    <2>2. \A i \in 1..Len(sent') : sent'[i] \in Letters
      BY <1>2 DEF Exact
    <2>3. prompt /\ ~dev.lost => Awaits(e, host, typed, sent')
      BY <1>2, <2>1
    <2> QED BY <1>2, <1>3, <2>2, <2>3, CallExact
  <1>4. CASE dev' = dev
    <2>1. prompt /\ ~dev.lost => Idle(dev) /\ Copied(typed, sent, Len(sent))
      BY <1>2, CallWhenIdle
    <2> QED BY <1>2, <1>4, <2>1 DEF Exact, Idle, Calm, Copied
  <1>5. CASE ModifierDown
    <2> PICK c \in Chars :
          /\ step = "modifier_down"
          /\ dev' = SendReport([dev EXCEPT !.shift = @ \/ c.shift, !.valid = TRUE])
      BY <1>5 DEF ModifierDown, Call
    <2> DEFINE sh == dev.shift \/ c.shift
               e == [dev EXCEPT !.shift = sh, !.valid = TRUE]
    <2>1. sh \in BOOLEAN /\ dev' = SendReport(e)
      OBVIOUS
    <2>2. dev.keys = {}
      BY DEF Ordered, Rhythm
    <2> HIDE DEF sh
    <2>3. /\ e \in Devices /\ e.valid /\ e.keys = {}
          /\ e.ongoing = dev.ongoing /\ e.left = dev.left /\ e.fifo = dev.fifo
          /\ e.bank = dev.bank /\ e.ready = dev.ready
          /\ e.complete = dev.complete
          /\ e.stallRequested = dev.stallRequested /\ e.lost = dev.lost
      BY <1>1, <2>1, <2>2 DEF Devices
    <2> HIDE DEF e
    <2> QED BY <1>3, <2>1, <2>3
  <1>6. CASE ModifierUp
    <2> PICK c \in Chars :
          /\ step = "modifier_up"
          /\ dev' = SendReport([dev EXCEPT !.shift = @ /\ ~c.shift, !.valid = TRUE])
      BY <1>6 DEF ModifierUp, Call
    <2> DEFINE sh == dev.shift /\ ~c.shift
               e == [dev EXCEPT !.shift = sh, !.valid = TRUE]
    <2>1. sh \in BOOLEAN /\ dev' = SendReport(e)
      OBVIOUS
    <2>2. dev.keys = {}
      BY DEF Ordered, Rhythm
    <2> HIDE DEF sh
    <2>3. /\ e \in Devices /\ e.valid /\ e.keys = {}
          /\ e.ongoing = dev.ongoing /\ e.left = dev.left /\ e.fifo = dev.fifo
          /\ e.bank = dev.bank /\ e.ready = dev.ready
          /\ e.complete = dev.complete
          /\ e.stallRequested = dev.stallRequested /\ e.lost = dev.lost
      BY <1>1, <2>1, <2>2 DEF Devices
    <2> HIDE DEF e
    <2> QED BY <1>3, <2>1, <2>3
  <1>7. CASE Up
    <2> PICK c \in Chars :
          /\ step = "up" /\ c = Head(todo)
          /\ dev' = IF c.key \in dev.keys
                    THEN SendReport([dev EXCEPT !.keys = @ \ {c.key}, !.valid = TRUE])
                    ELSE dev
      BY <1>7 DEF Up, Call
    <2> DEFINE ks == dev.keys \ {c.key}
               d1 == [dev EXCEPT !.keys = ks]
               e == [d1 EXCEPT !.valid = TRUE]
    <2>1. dev' = SendReport(e) \/ dev' = dev
      OBVIOUS
    <2>2. ks = {} /\ ks \in SUBSET KEYS
      BY DEF Ordered, Rhythm
    <2> HIDE DEF ks
    <2>3. d1 \in Devices
      BY <1>1, <2>2, KeysType
    <2>4. /\ e.valid /\ e.keys = {}
          /\ e.ongoing = dev.ongoing /\ e.left = dev.left /\ e.fifo = dev.fifo
          /\ e.bank = dev.bank /\ e.ready = dev.ready
          /\ e.complete = dev.complete
          /\ e.stallRequested = dev.stallRequested /\ e.lost = dev.lost
      BY <1>1, <2>2 DEF Devices
    <2> HIDE DEF d1
    <2>5. e \in Devices
      BY <2>3 DEF Devices
    <2> HIDE DEF e
    <2> QED BY <1>3, <1>4, <2>1, <2>4, <2>5
  <1> QED BY <1>5, <1>6, <1>7

(* A key is struck when the host holds none, so it will type this one.        *)
LEMMA DownExact ==
  ASSUME TypeOK, Together, Ordered, Cased, Delivered, Exact, Down
  PROVE  Exact'
  <1> PICK c \in Chars :
        /\ Call("down", "up", c)
        /\ \/ UNCHANGED <<dev, sent>>
           \/ /\ dev' = SendReport([dev EXCEPT !.keys = @ \cup {c.key},
                                     !.no = @ + 1, !.valid = TRUE])
              /\ sent' = Append(sent, c)
    BY DEF Down
  <1> DEFINE ks == dev.keys \cup {c.key}
             n == dev.no + 1
             d1 == [dev EXCEPT !.keys = ks]
             d2 == [d1 EXCEPT !.no = n]
             e == [d2 EXCEPT !.valid = TRUE]
  <1>1. /\ step = "down" /\ todo # <<>> /\ c = Head(todo) /\ c # UNMAPPED
        /\ UNCHANGED <<prompt, host, typed>> /\ polls' = 0 /\ DelayOver
    BY DEF Call
  <1>2. dev \in Devices /\ sent \in Seq(Chars) /\ c \in Letters
    BY <1>1 DEF TypeOK, Chars, Letters
  <1>3. CASE UNCHANGED <<dev, sent>>
    <2>1. prompt /\ ~dev.lost => Idle(dev) /\ Copied(typed, sent, Len(sent))
      BY <1>1, CallWhenIdle
    <2> QED BY <1>1, <1>3, <2>1 DEF Exact, Idle, Calm, Copied
  <1>4. CASE dev' = SendReport(e) /\ sent' = Append(sent, c)
    <2>1. ks \in SUBSET KEYS /\ n \in Nat /\ ks = {c.key}
      BY <1>1, <1>2 DEF Devices, Letters, Ordered, Rhythm
    <2>2. /\ e.valid /\ e.shift = dev.shift /\ e.keys = ks
          /\ e.ongoing = dev.ongoing /\ e.left = dev.left /\ e.fifo = dev.fifo
          /\ e.bank = dev.bank /\ e.ready = dev.ready
          /\ e.complete = dev.complete
          /\ e.stallRequested = dev.stallRequested /\ e.lost = dev.lost
      BY <1>2 DEF Devices
    <2> HIDE DEF ks, n
    <2>3. d2 \in Devices
      BY <1>2, <2>1, KeysType, NoType
    <2> HIDE DEF d2
    <2>4. e \in Devices
      BY <2>3 DEF Devices
    <2> HIDE DEF e
    <2>5. PICK s : s = sent'
      OBVIOUS
    <2>6. /\ Len(s) = Len(sent) + 1 /\ s[Len(sent) + 1] = c /\ Len(sent) \in Nat
          /\ \A i \in 1..Len(sent) : i \in 1..Len(s) /\ s[i] = sent[i]
      BY <1>2, <1>4, <2>5
    <2>7. \A i \in 1..Len(s) : s[i] \in Letters
      BY <1>2, <2>6 DEF Exact
    <2>8. ASSUME prompt, ~dev.lost
          PROVE  Awaits(e, host, typed, s)
      <3>1. Idle(dev) /\ Copied(typed, sent, Len(sent))
        BY <1>1, <2>8, CallWhenIdle
      <3>2. Copied(typed, s, Len(s) - 1)
        BY <2>6, <3>1 DEF Copied
      <3>3. e.shift = c.shift
        BY <1>1, <2>2, <2>8 DEF Cased, Shifted
      <3>4. host.keys = {}
        <4>1. dev.keys = {}
          BY <1>1 DEF Ordered, Rhythm
        <4> QED BY <2>8, <3>1, <4>1 DEF Delivered, NoMore, Latest, Idle, Calm
      <3> QED BY <2>1, <2>2, <2>6, <3>2, <3>3, <3>4 DEF Awaits
    <2>9. prompt /\ ~dev.lost => Awaits(e, host, typed, sent')
      BY <2>5, <2>8
    <2> QED BY <1>1, <1>4, <2>2, <2>4, <2>5, <2>7, <2>9, CallExact
  <1> QED BY <1>3, <1>4

(* The host takes the loaded report, and types its key if it is a new one.    *)
LEMMA PollDataExact ==
  ASSUME TypeOK, Exact, PollData
  PROVE  Exact'
  <1> SUFFICES ASSUME prompt, ~dev'.lost
               PROVE  (Taken(dev) /\ Copied(typed, sent, Len(sent)))'
    BY DEF Exact, PollData
  <1>1. dev \in Devices /\ dev.ready /\ Report(dev) \in Reports
    BY DEF PollData, TypeOK, Report, Reports, Devices
  <1>2. /\ dev'.ready = FALSE /\ dev'.complete = TRUE
        /\ dev'.fifo = IF dev.fifo = <<>> THEN dev.fifo ELSE Tail(dev.fifo)
        /\ dev'.left = dev.left /\ dev'.valid = dev.valid
        /\ dev'.stallRequested = dev.stallRequested /\ dev'.busy = dev.busy
        /\ dev'.bank = dev.bank /\ dev'.bufEnd = dev.bufEnd
        /\ dev'.irq = dev.irq /\ dev'.lost = dev.lost
    BY <1>1 DEF PollData, Devices
  <1>3. Loaded(dev) /\ Awaits(dev, host, typed, sent)
    BY <1>1, <1>2 DEF Exact, Idle, Taken, PollData
  <1>4. PICK r \in Reports : r = Report(dev)
    BY <1>1
  <1>5. dev.fifo = <<r>> /\ r.keys = dev.keys /\ r.shift = dev.shift
    BY <1>3, <1>4 DEF Loaded, Report
  <1>6. <<r>> # <<>> /\ Tail(<<r>>) = <<>> /\ Head(<<r>>) = r
    OBVIOUS
  <1>7. Taken(dev')
    BY <1>2, <1>3, <1>5, <1>6 DEF Loaded, Taken, Calm
  <1>8. Take(r) /\ sent' = sent
    BY <1>5, <1>6 DEF PollData
  <1>9. /\ typed \in Seq([key : KEYS, shift : BOOLEAN, no : Nat])
        /\ sent \in Seq(Chars)
    BY DEF TypeOK
  <1>10. CASE r.keys \subseteq host.keys
    <2>1. r.keys \ host.keys = {}
      BY <1>10
    <2>2. typed' = typed
      BY <1>8, <2>1 DEF Take
    <2> QED BY <1>3, <1>5, <1>7, <1>8, <1>10, <2>2 DEF Awaits, Copied
  <1>11. CASE ~(r.keys \subseteq host.keys)
    <2>1. /\ Len(sent) > 0 /\ Copied(typed, sent, Len(sent) - 1)
          /\ r.keys = {sent[Len(sent)].key} /\ r.shift = sent[Len(sent)].shift
      BY <1>3, <1>5, <1>11 DEF Awaits
    <2>2. PICK k \in r.keys \ host.keys :
            typed' = Append(typed, [key |-> k, shift |-> r.shift, no |-> r.no])
      BY <1>8, <1>11 DEF Take
    <2>3. PICK new : new = [key |-> k, shift |-> r.shift, no |-> r.no]
      OBVIOUS
    <2>4. PICK n \in Nat : n = Len(sent)
      BY <1>9
    <2>5. new.key = sent[n].key /\ new.shift = sent[n].shift
      BY <2>1, <2>2, <2>3, <2>4
    <2>6. PICK z : z = typed'
      OBVIOUS
    <2>7. Len(typed) = n - 1
      BY <2>1, <2>4 DEF Copied
    <2>8. /\ Len(z) = Len(typed) + 1 /\ z[Len(typed) + 1] = new
          /\ \A i \in 1..Len(typed) : z[i] = typed[i]
      BY <1>9, <2>2, <2>3, <2>6
    <2>9. Len(z) = n /\ z[n] = new
      BY <2>4, <2>7, <2>8
    <2>10. \A i \in 1..n : i \in 1..Len(typed) \/ i = n
      BY <2>4, <2>7
    <2>11. \A i \in 1..n : z[i].key = sent[i].key /\ z[i].shift = sent[i].shift
      BY <2>1, <2>4, <2>5, <2>7, <2>8, <2>9, <2>10 DEF Copied
    <2>12. Copied(z, sent, n)
      BY <2>9, <2>11 DEF Copied
    <2> QED BY <1>7, <1>8, <2>4, <2>6, <2>12
  <1> QED BY <1>10, <1>11

(* Acknowledging the packet finishes the job, and none is started.            *)
LEMMA TakenAcknowledged ==
  ASSUME NEW d \in Devices, Taken(d), NEW g, g = AfterSent(d)
  PROVE  /\ g \in Devices /\ Calm(g) /\ ~g.busy /\ g.fifo = <<>> /\ g.bank = 0
         /\ ~g.ready
  <1> DEFINE b == [d EXCEPT !.bank = 0]
             j == [b EXCEPT !.bufEnd = FALSE, !.left = FALSE]
             k == [j EXCEPT !.busy = FALSE]
             m == [k EXCEPT !.ongoing = FALSE]
  <1>1. OneBankLess(d) = b
    <2>1. PICK n \in Int : n = d.bank
      BY DEF Devices
    <2>2. n = 1 /\ (n + 4 - 1) % 4 = 0
      BY <2>1 DEF Taken
    <2> QED BY <2>1, <2>2 DEF OneBankLess
  <1>2. b \in Devices
    <2>1. 0 \in 0..3
      OBVIOUS
    <2> QED BY <2>1, BankType
  <1>3. /\ b.bank = 0 /\ b.bufEnd /\ b.busy /\ b.valid = FALSE /\ b.fifo = <<>>
        /\ b.ready = FALSE /\ b.stallRequested = FALSE
    BY DEF Taken, Calm, Devices
  <1> HIDE DEF b
  <1>4. g = FinishJob(j)
    BY <1>1, <1>3 DEF AfterSent
  <1>5. /\ j \in Devices /\ j.bank = 0 /\ j.busy /\ j.valid = FALSE
        /\ j.fifo = <<>> /\ j.left = FALSE
        /\ j.ready = FALSE /\ j.stallRequested = FALSE
    <2>1. j \in Devices
      BY <1>2 DEF Devices
    <2>2. /\ j.bank = b.bank /\ j.busy = b.busy /\ j.valid = b.valid
          /\ j.fifo = b.fifo /\ j.left = FALSE
          /\ j.ready = b.ready /\ j.stallRequested = b.stallRequested
      BY <1>2 DEF Devices
    <2> QED BY <1>3, <2>1, <2>2
  <1> HIDE DEF j
  <1>6. g = ReportSent(k)
    <2>1. j.busy
      BY <1>5
    <2> QED BY <1>4, <2>1, Zenon DEF FinishJob
  <1>7. /\ k \in Devices /\ k.bank = 0 /\ k.busy = FALSE /\ k.valid = FALSE
        /\ k.fifo = <<>> /\ k.left = FALSE
        /\ k.ready = FALSE /\ k.stallRequested = FALSE
    BY <1>5 DEF Devices
  <1> HIDE DEF k
  <1>8. g = m
    BY <1>6, <1>7 DEF ReportSent
  <1>9. /\ m \in Devices /\ m.bank = 0 /\ m.busy = FALSE /\ m.valid = FALSE
        /\ m.fifo = <<>> /\ m.left = FALSE
        /\ m.ready = FALSE /\ m.stallRequested = FALSE
    BY <1>7 DEF Devices
  <1> HIDE DEF m
  <1> QED BY <1>8, <1>9 DEF Calm

LEMMA InterruptExact ==
  ASSUME TypeOK, Exact, HaltSent \/ AllSent \/ NextBank \/ LoadAndSend
  PROVE  Exact'
  <1>1. /\ dev \in Devices /\ UNCHANGED <<prompt, typed, sent, polls, host>>
        /\ dev.complete
    BY DEF TypeOK, HaltSent, AllSent, NextBank, LoadAndSend, Interrupt
  <1> SUFFICES ASSUME prompt, ~dev'.lost
               PROVE  Idle(dev') /\ Copied(typed, sent, Len(sent))
    BY <1>1 DEF Exact, Copied
  <1>2. ~dev.lost
    BY InterruptFrom DEF From
  <1>3. Taken(dev) /\ Copied(typed, sent, Len(sent))
    BY <1>1, <1>2 DEF Exact, Idle, Loaded
  <1> PICK g : g = AfterSent(dev)
    OBVIOUS
  <1>4. /\ g \in Devices /\ Calm(g) /\ ~g.busy /\ g.fifo = <<>> /\ g.bank = 0
        /\ ~g.ready
    BY <1>1, <1>3, TakenAcknowledged
  <1>5. dev' = [g EXCEPT !.irq = FALSE, !.complete = FALSE]
    <2>1. ~dev.stallRequested
      BY <1>3 DEF Taken, Calm
    <2>2. ~(g.bank > 0) /\ ~g.left
      BY <1>4 DEF Calm
    <2>3. ~HaltSent
      BY <2>1 DEF HaltSent
    <2>4. ~NextBank
      BY <2>2, Zenon DEF NextBank
    <2>5. ~LoadAndSend
      BY <2>2, Zenon DEF LoadAndSend
    <2>6. AllSent
      BY <2>3, <2>4, <2>5
    <2> QED BY <2>6, Zenon DEF AllSent
  <1>6. Idle(dev')
    BY <1>4, <1>5 DEF Idle, Calm, Devices
  <1> QED BY <1>3, <1>6

(* A request that loses nothing meets an endpoint without a job, and leaves   *)
(* it idle.                                                                   *)
Spares(e, d) == e.lost \/ (~d.lost /\ ~d.busy /\ (Idle(d) => Idle(e)))

Still(e, d) ==
  /\ e.left = d.left /\ e.valid = d.valid /\ e.busy = d.busy
  /\ e.stallRequested = d.stallRequested
  /\ e.bank = d.bank /\ e.ready = d.ready /\ e.complete = d.complete

LEMMA ResetStill ==
  ASSUME NEW d \in Devices
  PROVE  LET e == [d EXCEPT !.enabled = FALSE, !.ready = FALSE,
                            !.complete = FALSE, !.stall = FALSE, !.irq = FALSE]
         IN  /\ e.left = d.left /\ e.valid = d.valid /\ e.busy = d.busy
             /\ e.stallRequested = d.stallRequested /\ e.bank = d.bank
             /\ e.ready = FALSE /\ e.complete = FALSE
  BY DEF Devices

LEMMA ResetSpares ==
  ASSUME TypeOK, BusReset
  PROVE  Spares(dev', dev)
  <1> DEFINE d1 == [dev EXCEPT !.enabled = FALSE, !.ready = FALSE,
                      !.complete = FALSE, !.stall = FALSE, !.irq = FALSE]
             lo == dev.lost \/ dev.fifo # <<>>
             d2 == [d1 EXCEPT !.lost = lo]
             d3 == [d2 EXCEPT !.fifo = <<>>]
  <1>1. dev \in Devices /\ dev' = AbortJob(d3)
    BY DEF TypeOK, BusReset
  <1>2. lo \in BOOLEAN /\ lo = (dev.lost \/ dev.fifo # <<>>)
    OBVIOUS
  <1> HIDE DEF lo
  <1>3. /\ d1 \in Devices /\ d1.left = dev.left /\ d1.valid = dev.valid
        /\ d1.busy = dev.busy /\ d1.stallRequested = dev.stallRequested
        /\ d1.bank = dev.bank /\ d1.ready = FALSE /\ d1.complete = FALSE
    BY <1>1, ResetType, ResetStill
  <1> HIDE DEF d1
  <1>4. d2 \in Devices /\ Still(d2, d1) /\ d2.lost = lo
    BY <1>2, <1>3 DEF Devices, Still
  <1> HIDE DEF d2
  <1>5. d3 \in Devices
    BY <1>4, FifoType, EmptySequence
  <1>6. Still(d3, d2) /\ d3.lost = d2.lost /\ d3.fifo = <<>>
    BY <1>4 DEF Devices, Still
  <1> HIDE DEF d3
  <1>7. dev'.lost \/ (~d3.busy /\ ~d3.lost /\ dev' = d3)
    BY <1>1, <1>5, AbortJobQuiet
  <1> QED
    BY <1>2, <1>3, <1>4, <1>6, <1>7 DEF Still, Spares, Idle, Calm

LEMMA HaltSpares ==
  ASSUME TypeOK, SetHalt
  PROVE  Spares(dev', dev)
  <1> DEFINE d1 == [dev EXCEPT !.irq = FALSE, !.ready = FALSE, !.complete = FALSE]
             d2 == [d1 EXCEPT !.bank = 0]
             lo == dev.lost \/ dev.fifo # <<>>
             d3 == [d2 EXCEPT !.lost = lo]
             d4 == [d3 EXCEPT !.fifo = <<>>]
             d == EpAbort(dev)
             e == [d EXCEPT !.stall = TRUE, !.irq = TRUE]
             q == [d EXCEPT !.stallRequested = TRUE, !.irq = TRUE]
  <1>1. dev \in Devices /\ d = AbortJob(d4)
    BY DEF TypeOK, EpAbort
  <1>2. lo \in BOOLEAN /\ 0 \in 0..3 /\ lo = (dev.lost \/ dev.fifo # <<>>)
    OBVIOUS
  <1> HIDE DEF lo
  <1>3. /\ d1 \in Devices /\ d1.left = dev.left /\ d1.valid = dev.valid
        /\ d1.busy = dev.busy /\ d1.stallRequested = dev.stallRequested
        /\ d1.ready = FALSE /\ d1.complete = FALSE
    BY <1>1 DEF Devices
  <1> HIDE DEF d1
  <1>4. d2 \in Devices
    BY <1>2, <1>3, BankType
  <1>5. /\ d2.left = d1.left /\ d2.valid = d1.valid /\ d2.busy = d1.busy
        /\ d2.stallRequested = d1.stallRequested /\ d2.bank = 0
        /\ d2.ready = d1.ready /\ d2.complete = d1.complete
    BY <1>3 DEF Devices
  <1> HIDE DEF d2
  <1>6. d3 \in Devices /\ Still(d3, d2) /\ d3.lost = lo
    BY <1>2, <1>4 DEF Devices, Still
  <1> HIDE DEF d3
  <1>7. d4 \in Devices
    BY <1>6, FifoType, EmptySequence
  <1>8. Still(d4, d3) /\ d4.lost = d3.lost /\ d4.fifo = <<>>
    BY <1>6 DEF Devices, Still
  <1> HIDE DEF d4
  <1>9. d.lost \/ (~d4.busy /\ ~d4.lost /\ d = d4)
    BY <1>1, <1>7, AbortJobQuiet
  <1>10. d \in Devices /\ dev' = IF d.ready \/ d.bank > 1 THEN q ELSE e
    BY <1>1, EpAbortType DEF SetHalt
  <1> HIDE DEF d
  <1>11. CASE d.lost
    <2>1. q.lost /\ e.lost
      BY <1>10, <1>11 DEF Devices
    <2> QED BY <1>10, <2>1 DEF Spares
  <1>12. CASE ~d4.busy /\ ~d4.lost /\ d = d4
    <2>1. d.ready = FALSE /\ d.bank = 0
      BY <1>3, <1>5, <1>6, <1>8, <1>12 DEF Still
    <2>2. ~(d.bank > 1)
      BY <2>1
    <2>3. dev' = e
      BY <1>10, <2>1, <2>2
    <2>4. Still(e, d) /\ e.fifo = d.fifo
      BY <1>10 DEF Devices, Still
    <2> HIDE DEF e
    <2> QED
      BY <1>2, <1>3, <1>5, <1>6, <1>8, <1>12, <2>3, <2>4
      DEF Still, Spares, Idle, Calm
  <1> QED BY <1>9, <1>11, <1>12

LEMMA ClearHaltSpares ==
  ASSUME TypeOK, ClearHalt, ~dev.stallRequested
  PROVE  Spares(dev', dev)
  <1> DEFINE d == [dev EXCEPT !.stallRequested = FALSE]
             e == [d EXCEPT !.stall = FALSE]
             lo == d.lost \/ d.busy \/ d.fifo # <<>>
             g == [e EXCEPT !.lost = lo]
             k == [g EXCEPT !.fifo = <<>>]
  <1>1. dev \in Devices /\ dev.stall
    BY DEF TypeOK, ClearHalt
  <1>2. d \in Devices /\ Still(d, dev) /\ d.lost = dev.lost /\ d.fifo = dev.fifo
    BY <1>1 DEF Devices, Still
  <1>3. dev' = FinishJob(k)
    BY <1>1 DEF ClearHalt
  <1>4. lo \in BOOLEAN /\ lo = (d.lost \/ d.busy \/ d.fifo # <<>>)
    OBVIOUS
  <1> HIDE DEF d, lo
  <1>5. e \in Devices /\ Still(e, d)
    BY <1>2 DEF Devices, Still
  <1> HIDE DEF e
  <1>6. g \in Devices /\ Still(g, e) /\ g.lost = lo
    BY <1>4, <1>5 DEF Devices, Still
  <1> HIDE DEF g
  <1>7. k \in Devices
    BY <1>6, FifoType, EmptySequence
  <1>8. Still(k, g) /\ k.lost = g.lost /\ k.fifo = <<>>
    BY <1>6 DEF Devices, Still
  <1> HIDE DEF k
  <1>9. CASE k.lost
    <2>1. FinishJob(k).lost
      BY <1>7, <1>9, FinishJobFrom DEF From
    <2> QED BY <1>3, <2>1 DEF Spares
  <1>10. CASE ~k.lost
    <2>1. ~k.busy
      BY <1>2, <1>4, <1>5, <1>6, <1>8, <1>10 DEF Still
    <2>2. dev' = k
      BY <1>3, <2>1 DEF FinishJob
    <2> QED
      BY <1>2, <1>4, <1>5, <1>6, <1>8, <1>10, <2>1, <2>2
      DEF Still, Spares, Idle, Calm
  <1> QED BY <1>9, <1>10

LEMMA FreeSpares ==
  ASSUME NEW d \in Devices
  PROVE  Spares(EpFree(d), d)
  <1> DEFINE e == [d EXCEPT !.enabled = FALSE]
  <1>1. e \in Devices /\ Still(e, d) /\ e.lost = d.lost /\ e.fifo = d.fifo
    BY DEF Still, Devices
  <1>2. EpFree(d) = AbortJob(e)
    BY DEF EpFree
  <1> HIDE DEF e
  <1> PICK a : a = EpFree(d)
    OBVIOUS
  <1>3. a.lost \/ (~e.busy /\ ~e.lost /\ a = e)
    BY <1>1, <1>2, AbortJobQuiet
  <1> QED BY <1>1, <1>3 DEF Still, Spares, Idle, Calm

(* An endpoint without a job is set up anew.                                  *)
LEMMA AllocSpares ==
  ASSUME NEW d \in Devices, ~d.busy, NEW keep \in BOOLEAN,
         NEW g, g = HidEnable(EpAlloc(d, keep))
  PROVE  Spares(g, d)
  <1> DEFINE e == EpAlloc(d, keep)
             ef == (d.lost \/ d.fifo # <<>>)
             lo == e.lost \/ e.shift \/ e.keys # {}
             r == IF keep THEN d.ready ELSE FALSE
             c == IF keep THEN d.complete ELSE FALSE
  <1>1. e \in Devices
    BY EpAllocType
  <1>2. lo \in BOOLEAN
    OBVIOUS
  <1>3. /\ e.left = d.left /\ e.busy = d.busy /\ e.bank = 0
        /\ e.stallRequested = FALSE /\ e.fifo = <<>> /\ e.lost = ef
        /\ e.ready = r /\ e.complete = c
    BY DEF EpAlloc, Devices
  <1>4. (~d.ready => ~r) /\ (~d.complete => ~c)
    OBVIOUS
  <1> HIDE DEF e, r, c
  <1>5. /\ g.left = e.left /\ g.busy = e.busy /\ g.bank = e.bank
        /\ g.stallRequested = e.stallRequested /\ g.fifo = e.fifo
        /\ g.ready = e.ready /\ g.complete = e.complete
        /\ g.valid = FALSE /\ g.lost = lo
    BY <1>1 DEF HidEnable, Devices, e
  <1> QED BY <1>2, <1>3, <1>4, <1>5 DEF Spares, Idle, Calm

LEMMA RequestExact ==
  ASSUME TypeOK, Together, Exact,
         \/ BusReset \/ SetConfiguration \/ SetConfigurationAgain
         \/ Unconfigure \/ SetInterface \/ SetHalt \/ ClearHalt
  PROVE  Exact'
  <1>1. dev \in Devices /\ UNCHANGED <<prompt, typed, sent>>
    BY DEF TypeOK, BusReset, SetConfiguration, SetConfigurationAgain,
           Unconfigure, SetInterface, SetHalt, ClearHalt, Event
  <1> SUFFICES ASSUME prompt, ~dev'.lost
               PROVE  Idle(dev') /\ Copied(typed, sent, Len(sent))
    BY <1>1 DEF Exact, Copied
  <1>2. ASSUME Spares(dev', dev)
        PROVE  Idle(dev') /\ Copied(typed, sent, Len(sent))
    <2>1. ~dev.lost /\ ~dev.busy
      BY <1>2 DEF Spares
    <2>2. Idle(dev) /\ Copied(typed, sent, Len(sent))
      BY <2>1 DEF Exact, Taken, Loaded
    <2> QED BY <1>2, <2>2 DEF Spares
  <1>3. ASSUME NEW keep \in BOOLEAN, NEW g, g = Configured(dev, keep)
        PROVE  Spares(g, dev)
    <2> PICK d : d = EpFree(dev)
      OBVIOUS
    <2>1. d \in Devices /\ Spares(d, dev) /\ ~d.busy
      <3>1. EpFree(dev).busy = FALSE
        BY <1>1, EpFreeOff DEF Together, Off
      <3> QED BY <1>1, <3>1, EpFreeType, FreeSpares
    <2>2. g = HidEnable(EpAlloc(d, keep))
      BY <1>3 DEF Configured
    <2>3. Spares(g, d)
      BY <2>1, <2>2, AllocSpares
    <2> QED BY <2>1, <2>3 DEF Spares
  <1>4. CASE BusReset
    BY <1>2, <1>4, ResetSpares
  <1>5. CASE SetHalt
    BY <1>2, <1>5, HaltSpares
  <1>6. CASE ClearHalt
    <2>1. ~dev.lost
      BY <1>6, RequestFrom DEF From, Cleared
    <2>2. ~dev.stallRequested
      BY <2>1 DEF Exact, Idle, Taken, Loaded, Calm
    <2> QED BY <1>2, <1>6, <2>2, ClearHaltSpares
  <1>7. CASE Unconfigure
    <2>1. dev' = EpFree(dev)
      BY <1>7 DEF Unconfigure
    <2> QED BY <1>1, <1>2, <2>1, FreeSpares
  <1>8. CASE SetConfigurationAgain \/ SetInterface
    <2>1. PICK keep \in BOOLEAN : dev' = Configured(dev, keep)
      BY <1>8 DEF SetConfigurationAgain, SetInterface
    <2> QED BY <1>2, <1>3, <2>1
  <1>9. CASE SetConfiguration
    <2>1. PICK keep \in BOOLEAN : dev' = HidEnable(EpAlloc(dev, keep))
      BY <1>9 DEF SetConfiguration
    <2>2. ~dev.busy
      BY <1>9 DEF SetConfiguration, Together, Off
    <2>3. Spares(dev', dev)
      BY <1>1, <2>1, <2>2, AllocSpares
    <2> QED BY <1>2, <2>3
  <1> QED BY <1>4, <1>5, <1>6, <1>7, <1>8, <1>9

(* A prompt host finds nothing to poll for only when the endpoint is idle.    *)
LEMMA PollNothingExact ==
  ASSUME Exact, PollNothing
  PROVE  Exact'
  <1>1. /\ UNCHANGED <<dev, prompt, host, typed, sent>>
        /\ ~dev.ready /\ (prompt => Served)
    BY DEF PollNothing, CanPoll
  <1>2. ~Loaded(dev) /\ (prompt => ~Taken(dev))
    BY <1>1 DEF Loaded, Taken, Served
  <1> QED BY <1>1, <1>2 DEF Exact, Idle, Calm, Copied

LEMMA StepExact ==
  ASSUME TypeOK, Together, Ordered, Cased, Delivered, Exact, [Next]_vars
  PROVE  Exact'
  <1>1. ASSUME UNCHANGED <<dev, prompt, polls, host, typed, sent>>
        PROVE  Exact'
    BY <1>1 DEF Exact, Idle, Loaded, Taken, Calm, Copied, Awaits
  <1>2. CASE UNCHANGED vars
    BY <1>1, <1>2 DEF vars
  <1>3. ASSUME NEW text \in Texts(MAX_CHARS), LongPress(text)
        PROVE  Exact'
    BY <1>1, <1>3 DEF LongPress
  <1>4. CASE SkipUnmapped \/ SetAddress
    BY <1>1, <1>4 DEF SkipUnmapped, SetAddress
  <1>5. CASE ModifierDown \/ Up \/ ModifierUp
    BY <1>5, CallsExact
  <1>6. CASE Down
    BY <1>6, DownExact
  <1>7. CASE PollData
    BY <1>7, PollDataExact
  <1>8. CASE PollNothing
    BY <1>8, PollNothingExact
  <1>9. CASE HaltSent \/ AllSent \/ NextBank \/ LoadAndSend
    BY <1>9, InterruptExact
  <1>10. CASE \/ BusReset \/ SetConfiguration \/ SetConfigurationAgain
              \/ Unconfigure \/ SetInterface \/ SetHalt \/ ClearHalt
    BY <1>10, RequestExact
  <1> QED
    BY <1>2, <1>3, <1>4, <1>5, <1>6, <1>7, <1>8, <1>9, <1>10
    DEF Next, SendKeys, UdpInterrupt, Host, Faults

(* A host that polls in time types the text as it was sent, letter for letter *)
(* and in case, unless a report was dropped.                                  *)
THEOREM AlwaysTypedExactly == Spec => []TypedExactly
  <1>1. Init => Together /\ Ordered /\ Cased /\ Delivered /\ Exact
    <2> SUFFICES ASSUME Init
                 PROVE  Together /\ Ordered /\ Cased /\ Delivered /\ Exact
      OBVIOUS
    <2>1. Together
      BY DEF Init, Together, Agree, Off
    <2>2. Delivered
      BY DEF Init, Released, Delivered, Job
    <2>3. Idle(dev) /\ typed = <<>> /\ sent = <<>>
      BY DEF Init, Idle, Calm
    <2>4. Exact
      BY <2>3 DEF Exact, Copied
    <2> QED BY <2>1, <2>2, <2>4, InitOrdered, InitCased
  <1>2. /\ TypeOK /\ TypeOK' /\ Together /\ Ordered /\ Cased /\ Delivered /\ Exact
        /\ [Next]_vars
        => Together' /\ Ordered' /\ Cased' /\ Delivered' /\ Exact'
    BY StepAgrees, StepOrdered, StepCased, StepDelivered, StepExact
  <1>3. TypeOK /\ Together /\ Exact => TypedExactly
    <2> SUFFICES ASSUME TypeOK, Together, Exact, prompt, AtRest, ~dev.lost
                 PROVE  [i \in DOMAIN typed |->
                           [key |-> typed[i].key, shift |-> typed[i].shift]] = sent
      BY DEF TypedExactly
    <2>1. Copied(typed, sent, Len(sent))
      BY DEF AtRest, Together, Agree, Exact, Loaded
    <2>2. PICK n \in Nat : n = Len(sent)
      BY DEF TypeOK
    <2>3. DOMAIN typed = 1..n /\ sent = [i \in 1..n |-> sent[i]]
      <3>1. Len(typed) = n
        BY <2>1, <2>2 DEF Copied
      <3>2. DOMAIN typed = 1..Len(typed)
        BY DEF TypeOK
      <3>3. sent = [i \in 1..Len(sent) |-> sent[i]]
        BY DEF TypeOK
      <3> QED BY <2>2, <3>1, <3>2, <3>3
    <2>4. ASSUME NEW i \in 1..n
          PROVE  [key |-> typed[i].key, shift |-> typed[i].shift] = sent[i]
      <3>1. typed[i].key = sent[i].key /\ typed[i].shift = sent[i].shift
        BY <2>1, <2>2 DEF Copied
      <3>2. PICK c \in Letters : c = sent[i]
        BY <2>2 DEF Exact
      <3>3. c = [key |-> c.key, shift |-> c.shift]
        BY DEF Letters
      <3> QED BY <3>1, <3>2, <3>3
    <2> QED BY <2>3, <2>4
  <1> QED BY <1>1, <1>2, <1>3, TypeCorrect, PTL DEF Spec
=============================================================================
