------------------------------ MODULE Keyboard ------------------------------
(* How a list entry reaches the host: send_keys (send_keys.c), the report of  *)
(* the HID keyboard (udi_hid_kbd.c), the transfer job of its interrupt        *)
(* endpoint and the interrupt that serves it (udp_device.c), the requests     *)
(* that configure and halt the endpoint (udc.c), and the host.                *)
(*                                                                            *)
(* send_keys runs in the SysTick handler.  Each of its calls runs with the    *)
(* interrupts off; between two of them it waits, and the USB interrupt, which *)
(* has the higher priority, and the host go on.                               *)
(*                                                                            *)
(* A report fits one packet and one packet one bank, so a job is either       *)
(* written to the FIFO or not (left), and never asks for a short packet.      *)
EXTENDS Integers, Sequences, FiniteSets

CONSTANTS
  KEYS,                 \* the keys of the map in send_keys.c
  UNMAPPED,                \* a character that is not in that map
  MAX_CHARS,            \* bound: the characters of all the texts sent
  MAX_EVENTS            \* bound: resets, halts and repeated configurations

ASSUME KeysAssumption == UNMAPPED \notin KEYS
ASSUME BoundsAssumption == MAX_CHARS \in Nat /\ MAX_EVENTS \in Nat

BANKS == 2              \* banks of endpoint 1: udd_get_endpoint_bank_max_nbr
BANK_RANGE == 4         \* bank is a field of two bits
REPORT_SLOTS == 6       \* keys a report has room for
POLLS_PER_DELAY == 2    \* KEY_DELAY_MS over the endpoint's bInterval

Chars == [key : KEYS, shift : BOOLEAN] \cup {UNMAPPED}

(* "no" is no part of a report: it is the number of the last key struck when  *)
(* the report was taken, and only the properties read it.                     *)
Reports == [shift : BOOLEAN, keys : SUBSET KEYS, no : Nat]

VARIABLES
  dev,          \* the report, the job of the endpoint and its registers
  bus,          \* "default", "address" or "configured": the device's state
  todo,         \* the characters send_keys has still to send
  step,         \* the call send_keys makes next
  prompt,       \* does the host poll as often as the endpoint asks for?
  polls,        \* polls since the last call of send_keys
  host,         \* the last report the host took
  typed,        \* the keys the host typed
  sent,         \* the keys struck: history
  events        \* resets, halts and repeated configurations so far

vars == <<dev, bus, todo, step, prompt, polls, host, typed, sent, events>>

Released(n) == [shift |-> FALSE, keys |-> {}, no |-> n]

Init ==
  /\ dev = [shift |-> FALSE, keys |-> {}, no |-> 0,
            valid |-> FALSE, ongoing |-> FALSE, trans |-> Released(0),
            busy |-> FALSE, left |-> FALSE, bufEnd |-> FALSE,
            stallRequested |-> FALSE, bank |-> 0,
            enabled |-> FALSE, ready |-> FALSE, complete |-> FALSE,
            stall |-> FALSE, irq |-> FALSE, fifo |-> <<>>,
            lost |-> FALSE, torn |-> FALSE]
  /\ bus = "default"
  /\ todo = <<>> /\ step = "modifier_down"
  /\ prompt \in BOOLEAN /\ polls = 0
  /\ host = Released(0) /\ typed = <<>> /\ sent = <<>> /\ events = 0

-----------------------------------------------------------------------------
(* The endpoint's job.  Every operator takes the device's state and returns   *)
(* the state after the call.                                                  *)

Report(d) == [shift |-> d.shift, keys |-> d.keys, no |-> d.no]

EpInSentUnchecked(d, transmit) ==       \* mutant: no look at the banks
  IF ~d.left
  THEN d
  ELSE [d EXCEPT !.fifo = Append(@, d.trans), !.bank = @ + 1, !.left = FALSE,
                 !.bufEnd = TRUE,
                 !.ready = IF transmit THEN TRUE ELSE @]

(* udd_ep_in_sent: the report goes to a free bank. *)
EpInSent(d, transmit) ==
  IF d.bank >= BANKS \/ ~d.left
  THEN d
  ELSE [d EXCEPT !.fifo = Append(@, d.trans), !.bank = @ + 1, !.left = FALSE,
                 !.bufEnd = TRUE,
                 !.ready = IF transmit THEN TRUE ELSE @]

Refuses(d) == ~d.enabled \/ d.stallRequested \/ d.stall \/ d.busy

EpRunUnannounced(d) ==          \* mutant: the interrupt is not enabled
  LET job == [d EXCEPT !.busy = TRUE, !.left = TRUE, !.bufEnd = FALSE]
  IN  IF d.ready \/ d.complete THEN job ELSE EpInSent(job, TRUE)

(* udd_ep_run: while a packet is pending the interrupt will append the data.  *)
EpRun(d) ==
  LET job == [d EXCEPT !.busy = TRUE, !.left = TRUE, !.bufEnd = FALSE,
                       !.irq = TRUE]
  IN  IF d.ready \/ d.complete THEN job ELSE EpInSent(job, TRUE)

SendReportDropping(d) ==        \* mutant: a report in the way is forgotten
  LET taken == [d EXCEPT !.trans = Report(d), !.valid = FALSE]
  IN  IF d.ongoing THEN [d EXCEPT !.valid = FALSE]
      ELSE IF Refuses(taken) THEN [taken EXCEPT !.lost = TRUE]
      ELSE [EpRun(taken) EXCEPT !.ongoing = TRUE]

(* udi_hid_kbd_send_report; a report the endpoint refuses is gone (lost).     *)
SendReport(d) ==
  LET taken == [d EXCEPT !.trans = Report(d), !.valid = FALSE]
  IN  IF d.ongoing THEN d
      ELSE IF Refuses(taken) THEN [taken EXCEPT !.lost = TRUE]
      ELSE [EpRun(taken) EXCEPT !.ongoing = TRUE]

ReportSentForgetting(d) ==      \* mutant: what was held back is not sent
  [d EXCEPT !.ongoing = FALSE]

(* udi_hid_kbd_report_sent *)
ReportSent(d) ==
  LET idle == [d EXCEPT !.ongoing = FALSE]
  IN  IF d.valid THEN SendReport(idle) ELSE idle

FinishJobSilently(d) ==         \* mutant: the callback is not called
  [d EXCEPT !.busy = FALSE]

(* udd_ep_finish_job *)
FinishJob(d) == IF d.busy THEN ReportSent([d EXCEPT !.busy = FALSE]) ELSE d

AbortJob(d) == FinishJob([d EXCEPT !.lost = @ \/ d.busy])

-----------------------------------------------------------------------------
(* send_keys.  The delay after a call gives a prompt host time for its polls  *)
(* and the interrupt time to be served.                                       *)

Served == ~(dev.irq /\ dev.complete)

NoDelay == TRUE                 \* mutant: send_keys does not wait

DelayOver ==
  prompt => Served /\ (bus = "configured" => polls = POLLS_PER_DELAY)

(* A long press on a list entry; send_keys returns before the next one.       *)
LongPress(text) ==
  /\ todo = <<>>
  /\ Len(sent) + Len(text) <= MAX_CHARS
  /\ todo' = text
  /\ UNCHANGED <<dev, bus, step, prompt, polls, host, typed, sent, events>>

SkipUnmapped ==
  /\ todo # <<>> /\ Head(todo) = UNMAPPED
  /\ todo' = Tail(todo)
  /\ UNCHANGED <<dev, bus, step, prompt, polls, host, typed, sent, events>>

(* The part every call shares: it is c's turn, and the delay starts again.    *)
Call(call, next, c) ==
  /\ todo # <<>> /\ Head(todo) # UNMAPPED /\ c = Head(todo)
  /\ step = call /\ DelayOver
  /\ step' = next
  /\ polls' = 0
  /\ UNCHANGED <<bus, prompt, host, typed, events>>

ModifierDown == \E c \in Chars :
  /\ Call("modifier_down", "down", c)
  /\ dev' = SendReport([dev EXCEPT !.shift = @ \/ c.shift, !.valid = TRUE])
  /\ UNCHANGED <<todo, sent>>

(* udi_hid_kbd_down: a key that is down already, or one too many, is ignored. *)
Down == \E c \in Chars :
  /\ Call("down", "up", c)
  /\ LET struck == [dev EXCEPT !.keys = @ \cup {c.key}, !.no = @ + 1,
                               !.valid = TRUE]
     IN  IF c.key \in dev.keys \/ Cardinality(dev.keys) >= REPORT_SLOTS
         THEN UNCHANGED <<dev, sent>>
         ELSE dev' = SendReport(struck) /\ sent' = Append(sent, c)
  /\ UNCHANGED todo

UpKeepingKey == \E c \in Chars :       \* mutant: the key stays in the report
  /\ Call("up", "modifier_up", c)
  /\ dev' = IF c.key \in dev.keys
            THEN SendReport([dev EXCEPT !.valid = TRUE])
            ELSE dev
  /\ UNCHANGED <<todo, sent>>

(* udi_hid_kbd_up: a key that is not in the report sends nothing.             *)
Up == \E c \in Chars :
  /\ Call("up", "modifier_up", c)
  /\ dev' = IF c.key \in dev.keys
            THEN SendReport([dev EXCEPT !.keys = @ \ {c.key}, !.valid = TRUE])
            ELSE dev
  /\ UNCHANGED <<todo, sent>>

ModifierUpKeepingShift == \E c \in Chars :     \* mutant: nothing is cleared
  /\ Call("modifier_up", "modifier_down", c)
  /\ dev' = SendReport([dev EXCEPT !.valid = TRUE])
  /\ todo' = Tail(todo)
  /\ UNCHANGED sent

ModifierUp == \E c \in Chars :
  /\ Call("modifier_up", "modifier_down", c)
  /\ dev' = SendReport([dev EXCEPT !.shift = @ /\ ~c.shift, !.valid = TRUE])
  /\ todo' = Tail(todo)
  /\ UNCHANGED sent

-----------------------------------------------------------------------------
(* The host takes a packet: it types the key that is down in this report and  *)
(* was not in the last one.  A packet without data changes nothing for it.    *)

Take(r) ==
  /\ host' = r
  /\ LET fresh == r.keys \ host.keys
     IN  \/ fresh = {} /\ UNCHANGED typed
         \/ \E k \in fresh :
              typed' = Append(typed, [key |-> k, shift |-> r.shift, no |-> r.no])

CanPoll ==
  /\ bus = "configured" /\ dev.enabled /\ ~dev.stall
  /\ prompt => Served

Polled == polls' = IF polls < POLLS_PER_DELAY THEN polls + 1 ELSE polls

PollData ==
  /\ CanPoll /\ dev.ready
  /\ dev' = [dev EXCEPT !.ready = FALSE, !.complete = TRUE,
                        !.fifo = IF @ = <<>> THEN @ ELSE Tail(@)]
  /\ IF dev.fifo = <<>> THEN UNCHANGED <<host, typed>> ELSE Take(Head(dev.fifo))
  /\ Polled
  /\ UNCHANGED <<bus, todo, step, prompt, sent, events>>

PollNothing ==
  /\ CanPoll /\ ~dev.ready /\ polls < POLLS_PER_DELAY
  /\ Polled
  /\ UNCHANGED <<dev, bus, todo, step, prompt, host, typed, sent, events>>

-----------------------------------------------------------------------------
(* udd_ep_interrupt: a packet has been taken.  The number of banks is counted *)
(* down first, in a field of two bits; then one of five cases.                *)

OneBankLess(d) == [d EXCEPT !.bank = (@ + BANK_RANGE - 1) % BANK_RANGE]

(* The end of the buffer was in the packet: the job is finished, and its      *)
(* callback may have started the next one.                                    *)
AfterSent(d) ==
  LET b == OneBankLess(d)
  IN  IF b.bufEnd
      THEN FinishJob([b EXCEPT !.bufEnd = FALSE, !.left = FALSE])
      ELSE b

Interrupt ==
  /\ dev.irq /\ dev.complete
  /\ UNCHANGED <<bus, todo, step, prompt, polls, host, typed, sent, events>>

(* A halt waits for the packet: the endpoint stalls once no bank is left.     *)
HaltSent ==
  LET d == OneBankLess(dev) IN
  /\ Interrupt /\ dev.stallRequested
  /\ dev' = IF d.bank # 0
            THEN [d EXCEPT !.ready = TRUE, !.complete = FALSE]
            ELSE [d EXCEPT !.complete = FALSE, !.stall = TRUE,
                           !.stallRequested = FALSE]

AllSent ==
  LET d == AfterSent(dev) IN
  /\ Interrupt /\ ~dev.stallRequested
  /\ ~d.left /\ d.bank = 0
  /\ dev' = [d EXCEPT !.irq = FALSE, !.complete = FALSE]

NextBank ==
  LET d == AfterSent(dev) IN
  /\ Interrupt /\ ~dev.stallRequested
  /\ d.bank > 0
  /\ dev' = EpInSent([d EXCEPT !.ready = TRUE, !.complete = FALSE], FALSE)

(* A job waits and every bank is free: its data is loaded and its callback    *)
(* called at once, before the packet is taken.                                *)
LoadAndSend ==
  LET d == AfterSent(dev)
      loaded == FinishJob([EpInSent(d, TRUE) EXCEPT !.bufEnd = FALSE,
                                                    !.left = FALSE])
  IN
  /\ Interrupt /\ ~dev.stallRequested
  /\ d.left /\ d.bank = 0
  /\ dev' = EpInSent([loaded EXCEPT !.complete = FALSE], FALSE)

-----------------------------------------------------------------------------
(* The bus and the requests of the host.                                      *)

(* udd_ep_free *)
EpFree(d) == AbortJob([d EXCEPT !.enabled = FALSE])

(* udd_ep_alloc.  Resetting an endpoint empties its FIFO; whether the flags   *)
(* of the packet survive is up to the device, and udd_ep_abort does not rely  *)
(* on it either.  A packet that was pending is lost, and its flags may be     *)
(* taken for one of a new packet (torn).                                      *)
EpAlloc(d, keep) ==
  [d EXCEPT !.bank = 0, !.bufEnd = FALSE, !.stallRequested = FALSE,
            !.fifo = <<>>, !.enabled = TRUE,
            !.ready = IF keep THEN @ ELSE FALSE,
            !.complete = IF keep THEN @ ELSE FALSE,
            !.lost = @ \/ d.fifo # <<>>,
            !.torn = @ \/ d.ready \/ d.complete]

(* udi_hid_kbd_enable *)
HidEnable(d) ==
  [d EXCEPT !.ongoing = FALSE, !.shift = FALSE, !.keys = {}, !.valid = FALSE,
            !.lost = @ \/ d.shift \/ d.keys # {}]

Event ==
  /\ events < MAX_EVENTS
  /\ events' = events + 1
  /\ UNCHANGED <<todo, step, prompt, polls, sent>>

(* The registers are reset by the bus; the handler kills the job and          *)
(* unconfigures the device.  The host forgets the keys that were down.        *)
BusReset ==
  /\ Event
  /\ bus' = "default"
  /\ dev' = AbortJob([dev EXCEPT !.enabled = FALSE, !.ready = FALSE,
                        !.complete = FALSE, !.stall = FALSE, !.irq = FALSE,
                        !.lost = @ \/ dev.fifo # <<>>, !.fifo = <<>>])
  /\ host' = Released(host.no)
  /\ UNCHANGED typed

SetAddress ==
  /\ bus = "default"
  /\ bus' = "address"
  /\ UNCHANGED <<dev, todo, step, prompt, polls, host, typed, sent, events>>

Configured(d, keep) == HidEnable(EpAlloc(EpFree(d), keep))

(* udc_req_std_dev_set_configuration; only a configured device has an endpoint *)
(* to free.                                                                   *)
SetConfiguration == \E keep \in BOOLEAN :
  /\ bus = "address"
  /\ bus' = "configured"
  /\ dev' = HidEnable(EpAlloc(dev, keep))
  /\ UNCHANGED <<todo, step, prompt, polls, host, typed, sent, events>>

SetConfigurationAgain == \E keep \in BOOLEAN :
  /\ Event
  /\ bus = "configured" /\ UNCHANGED bus
  /\ dev' = Configured(dev, keep)
  /\ host' = Released(host.no)
  /\ UNCHANGED typed

Unconfigure ==
  /\ Event
  /\ bus = "configured" /\ bus' = "address"
  /\ dev' = EpFree(dev)
  /\ host' = Released(host.no)
  /\ UNCHANGED typed

SetInterface == \E keep \in BOOLEAN :
  /\ Event
  /\ bus = "configured" /\ UNCHANGED bus
  /\ dev' = Configured(dev, keep)
  /\ UNCHANGED <<host, typed>>

(* udc_req_std_ep_set_feature: udd_ep_abort, whose callback may start a job,  *)
(* then udd_ep_set_halt, which lets that job's packet out first.              *)
EpAbortKeepingBank(d) ==        \* mutant: the banks stay counted
  AbortJob([d EXCEPT !.irq = FALSE, !.ready = FALSE, !.complete = FALSE,
                     !.lost = @ \/ d.fifo # <<>>, !.fifo = <<>>])

EpAbort(d) ==
  AbortJob([d EXCEPT !.irq = FALSE, !.ready = FALSE, !.complete = FALSE,
                     !.bank = 0, !.lost = @ \/ d.fifo # <<>>, !.fifo = <<>>])

SetHalt ==
  LET d == EpAbort(dev) IN
  /\ Event
  /\ bus = "configured" /\ UNCHANGED bus
  /\ dev' = IF d.ready \/ d.bank > 1
            THEN [d EXCEPT !.stallRequested = TRUE, !.irq = TRUE]
            ELSE [d EXCEPT !.stall = TRUE, !.irq = TRUE]
  /\ UNCHANGED <<host, typed>>

(* udd_ep_clear_halt: a job that was caught by the halt is called back.       *)
ClearHalt ==
  LET d == [dev EXCEPT !.stallRequested = FALSE] IN
  /\ bus = "configured" /\ (dev.stall \/ dev.stallRequested)
  /\ dev' = IF dev.stall
            THEN FinishJob([d EXCEPT !.stall = FALSE,
                                     !.lost = @ \/ d.busy \/ d.fifo # <<>>,
                                     !.fifo = <<>>])
            ELSE d
  /\ UNCHANGED <<bus, todo, step, prompt, polls, host, typed, sent, events>>

-----------------------------------------------------------------------------
SendKeys == SkipUnmapped \/ ModifierDown \/ Down \/ Up \/ ModifierUp

UdpInterrupt ==
  HaltSent \/ AllSent \/ NextBank \/ LoadAndSend

Host ==
  PollData \/ PollNothing \/ SetAddress \/ SetConfiguration \/ ClearHalt

Faults ==
  BusReset \/ SetConfigurationAgain \/ Unconfigure \/ SetInterface \/ SetHalt

(* The texts: those of up to n characters. *)
Texts(n) == UNION {[1..m -> Chars] : m \in 1..n}

Next ==
  \/ \E text \in Texts(MAX_CHARS) : LongPress(text)
  \/ SendKeys \/ UdpInterrupt \/ Host \/ Faults

Spec == Init /\ [][Next]_vars

(* send_keys and the interrupt run on; a host goes on polling a configured    *)
(* device, enumerates one it has reset, and clears a halt it meets.  Nobody   *)
(* has to press a key, and no fault has to come.                              *)
Fairness ==
  /\ WF_vars(SendKeys) /\ WF_vars(UdpInterrupt)
  /\ WF_vars(PollData) /\ WF_vars(PollNothing)
  /\ WF_vars(SetAddress) /\ WF_vars(SetConfiguration) /\ WF_vars(ClearHalt)

FairSpec == Spec /\ Fairness

-----------------------------------------------------------------------------
Devices ==
  [shift : BOOLEAN, keys : SUBSET KEYS, no : Nat, valid : BOOLEAN,
   ongoing : BOOLEAN, trans : Reports, busy : BOOLEAN, left : BOOLEAN,
   bufEnd : BOOLEAN, stallRequested : BOOLEAN, bank : 0..(BANK_RANGE - 1),
   enabled : BOOLEAN, ready : BOOLEAN, complete : BOOLEAN, stall : BOOLEAN,
   irq : BOOLEAN, fifo : Seq(Reports), lost : BOOLEAN, torn : BOOLEAN]

TypeOK ==
  /\ dev \in Devices
  /\ bus \in {"default", "address", "configured"}
  /\ todo \in Seq(Chars)
  /\ step \in {"modifier_down", "down", "up", "modifier_up"}
  /\ prompt \in BOOLEAN /\ polls \in 0..POLLS_PER_DELAY
  /\ host \in Reports
  /\ typed \in Seq([key : KEYS, shift : BOOLEAN, no : Nat])
  /\ sent \in Seq(Chars)
  /\ events \in 0..MAX_EVENTS

(* The keyboard and its endpoint agree whether a report is under way, and a   *)
(* report is held back only by a job that will send it when it is called      *)
(* back: were udi_hid_kbd to wait for a job that udp_device no longer has, it *)
(* would never send again, and no later call would notice.                    *)
JobsAgree ==
  /\ dev.ongoing = dev.busy
  /\ dev.valid => dev.busy

(* The packets announced to the host, and the banks counted, are those of the *)
(* FIFO, as long as no endpoint was set up anew under a pending packet.       *)
BanksCounted ==
  ~dev.torn /\ dev.enabled =>
    /\ dev.bank = Len(dev.fifo) + (IF dev.complete THEN 1 ELSE 0)
    /\ dev.ready => dev.fifo # <<>>

(* At rest nothing is under way. *)
AtRest == todo = <<>> /\ ~dev.ongoing /\ dev.fifo = <<>>

(* The last report the host took is the keyboard's report, nothing held down, *)
(* when send_keys is done and no report was dropped on the way.               *)
ReleasedAtRest ==
  bus = "configured" /\ AtRest /\ ~dev.lost => host.keys = {} /\ ~host.shift

(* A host that polls in time types the text, letter for letter and in case.   *)
TypedExactly ==
  prompt /\ AtRest /\ ~dev.lost =>
    [i \in DOMAIN typed |-> [key |-> typed[i].key, shift |-> typed[i].shift]]
      = sent

(* A key is typed in the case of its character unless reports were dropped.   *)
TypedInCase ==
  ~dev.lost => \A i \in DOMAIN typed : typed[i].shift = sent[typed[i].no].shift

(* What the host types is a selection of the keys struck, in their order.     *)
KeysOf(s) == [i \in DOMAIN s |-> s[i].key]
LastTyped == IF typed = <<>> THEN 0 ELSE typed[Len(typed)].no
AsTypist == INSTANCE Typist WITH sent <- KeysOf(sent),
                                 typed <- KeysOf(typed), last <- LastTyped
TypedInOrder == AsTypist!Spec

(* Every transfer ends, whatever the host does to the endpoint. *)
TransfersEnd == dev.ongoing ~> ~dev.ongoing
=============================================================================
