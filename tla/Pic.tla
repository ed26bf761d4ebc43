---------------------------------- MODULE Pic ----------------------------------
(***************************************************************************)
(* The programmable interrupt controller (interrupt/pic.cpp) with the one  *)
(* target processor, iTarget 0, that the platform has.  The channel behind *)
(* irq_recv_xport is module InterruptChannel; here a source arrives at any *)
(* moment.                                                                 *)
(*                                                                         *)
(* m_register_vec has one byte instead of the PIC_REGS_SIZE of Pic_regs_t, *)
(* so a handler reads a word that is anything, and the assertion on that   *)
(* size ends the simulation at the first write of a build with assertions. *)
(* m_target_select starts with M, which is no source: until software       *)
(* selects one, SOURCE and TARGETS access vectors beyond their end.        *)
(***************************************************************************)
EXTENDS TargetPort, Integers, FiniteSets, Sequences

CONSTANTS MaxIrq,       \* Memory_map::max_irq()
          Priorities,   \* the eight bits of a priority; TARGET only makes masks 0 and 1
          Assertions,   \* the build evaluates sc_assert
          PicSends,     \* irq_send_port.size()
          MaxPicAccesses, MaxArrivals  \* bounds

M == 32
Sources == 0 .. MaxIrq
InvalidIrq == -2        \* uint32_t(~0ul - 1)

ASSUME PicAssumption == MaxIrq \in 0 .. M - 1 /\ Priorities \subseteq 0 .. 255
                        /\ Assertions \in BOOLEAN /\ PicSends \in 1 .. M

VARIABLES picSize,      \* m_target_size
          source,       \* m_source_irq
          targeted,     \* source: m_source_targets[source].test( 0 )
          clearall, enabled, mask,   \* m_target_irq[0]
          level,        \* m_target_level[0]
          select,       \* m_target_select[0]
          next,         \* what the last read of NEXT returned
          outcome,      \* history: whether the last step "answered" a read of NEXT
                        \* or "notified" the processor
          fatal,        \* the simulation ended with an error
          picResponse,  \* response status of the last access
          picAccesses, arrivals  \* bounds

irqState == <<source, targeted, clearall, enabled, mask, level, select>>
picVars == <<picSize, irqState, next, outcome, fatal, picResponse, picAccesses, arrivals>>

Source == [pending : BOOLEAN, active : BOOLEAN, enabled : BOOLEAN, priority : 0 .. 255]

PicInit ==
  /\ picSize \in Sizes
  /\ source = [s \in Sources |->
                [pending |-> FALSE, active |-> FALSE, enabled |-> FALSE, priority |-> 0]]
  /\ targeted = [s \in Sources |-> FALSE]
  /\ clearall = FALSE /\ enabled = FALSE /\ mask = 0
  /\ level = <<>>
  /\ select = M
  /\ next = InvalidIrq
  /\ outcome = "none"
  /\ fatal = FALSE
  /\ picResponse = "none"
  /\ picAccesses = 0 /\ arrivals = 0

-----------------------------------------------------------------------------
(* write_actions *)

\* A vector indexed with M: what it hits is not modelled, or the program dies.
OutOfRange == fatal' \in BOOLEAN /\ UNCHANGED irqState

\* The level is popped from a list that can be empty, which ends the program.
WriteDone ==
  /\ source' = IF select \in Sources THEN [source EXCEPT ![select].active = FALSE] ELSE source
  /\ fatal' = (level = <<>>)
  /\ level' = IF level = <<>> THEN level ELSE Tail(level)
  /\ UNCHANGED <<targeted, clearall, enabled, mask, select>>

WriteTargetPushes ==
  \E nonzero \in BOOLEAN :
    /\ clearall' = nonzero /\ enabled' = nonzero
    /\ mask' = IF nonzero THEN 1 ELSE 0
    /\ level' = Append(level, mask')
    /\ UNCHANGED <<source, targeted, select, fatal>>

\* The fields are made with && instead of &, so each is 1 if any bit of the word
\* is set, and everything pending or active is cleared with them.
WriteTarget ==
  \E nonzero \in BOOLEAN :
    /\ clearall' = nonzero /\ enabled' = nonzero
    /\ mask' = IF nonzero THEN 1 ELSE 0
    /\ level' = Append(IF level = <<>> THEN level ELSE SubSeq(level, 1, Len(level) - 1), mask')
    /\ source' = IF nonzero
                   THEN [s \in Sources |->
                          [source[s] EXCEPT !.pending = FALSE, !.active = FALSE]]
                   ELSE source
    /\ UNCHANGED <<targeted, select, fatal>>

WriteSelect ==
  /\ select' \in Sources \cup {M}
  /\ UNCHANGED <<source, targeted, clearall, enabled, mask, level, fatal>>

WriteSource ==
  IF select \in Sources
    THEN /\ \E pending, on \in BOOLEAN, priority \in Priorities :
              source' = [source EXCEPT ![select] =
                          [@ EXCEPT !.pending = pending, !.enabled = on,
                                    !.priority = priority]]
         /\ UNCHANGED <<targeted, clearall, enabled, mask, level, select, fatal>>
    ELSE OutOfRange

WriteTargets ==
  IF select \in Sources
    THEN /\ \E on \in BOOLEAN : targeted' = [targeted EXCEPT ![select] = on]
         /\ UNCHANGED <<source, clearall, enabled, mask, level, select, fatal>>
    ELSE OutOfRange

\* NEXT, IDENT and CONFIG are ignored; any other address is fatal.
PicWriteActions(address) ==
  /\ CASE Assertions    -> fatal' = TRUE /\ UNCHANGED irqState
       [] ~Assertions /\ address = 4  -> WriteDone
       [] ~Assertions /\ address = 8  -> WriteTarget
       [] ~Assertions /\ address = 20 -> WriteSelect
       [] ~Assertions /\ address = 24 -> WriteSource
       [] ~Assertions /\ address = 28 -> WriteTargets
       [] OTHER -> fatal' = (address \notin {0, 12, 16}) /\ UNCHANGED irqState
  /\ UNCHANGED next

-----------------------------------------------------------------------------
(* read_actions *)

CandidatesAtMask == {s \in Sources : source[s].pending /\ source[s].priority >= mask}

\* The sources that the loop over all of them may choose.
Candidates == {s \in Sources : source[s].pending /\ source[s].priority > mask}

\* The loop, which goes up and keeps the first of equal priorities.
Highest[s \in -1 .. MaxIrq] ==
  IF s = -1 THEN [irq |-> InvalidIrq, priority |-> -1]
  ELSE IF s \in Candidates /\ source[s].priority > Highest[s - 1].priority
         THEN [irq |-> s, priority |-> source[s].priority]
  ELSE Highest[s - 1]

\* The source becomes active, and stays pending.
ReadNext ==
  /\ next' = Highest[MaxIrq].irq
  /\ source' = IF next' = InvalidIrq THEN source
               ELSE [source EXCEPT ![next'].active = TRUE]
  /\ UNCHANGED <<targeted, clearall, enabled, mask, level, select, fatal>>

ReadTarget ==
  /\ clearall' = FALSE
  /\ UNCHANGED <<source, targeted, enabled, mask, level, select, fatal, next>>

\* DONE, IDENT, CONFIG and SELECT only return a word; SOURCE and TARGETS do so for
\* the selected source, and read beyond the vector when there is none.
PicReadActions(address) ==
  CASE address = 0 -> ReadNext
    [] address = 8 -> ReadTarget
    [] address \in {24, 28} /\ select \notin Sources -> OutOfRange /\ UNCHANGED next
    [] OTHER -> fatal' = (address \notin 0 .. 28) /\ UNCHANGED <<irqState, next>>

-----------------------------------------------------------------------------
(* Accesses *)

PicPayloadIsOk(t, len) == RegisterResponse(t, len, picSize) = "TLM_OK"

PicTransport(t) ==
  CASE t.command = "write" -> PicWriteActions(t.address)
    [] t.command = "read"  -> PicReadActions(t.address)
    [] OTHER -> UNCHANGED <<irqState, next, fatal>>

PicAccess == /\ picAccesses < MaxPicAccesses
             /\ ~fatal
             /\ picAccesses' = picAccesses + 1
             /\ UNCHANGED arrivals

PicBTransport(t) ==
  /\ PicAccess
  /\ picResponse' = RegisterResponse(t, t.length, picSize)
  /\ IF PicPayloadIsOk(t, t.length)
       THEN PicTransport(t) ELSE UNCHANGED <<irqState, next, fatal>>
  /\ outcome' = IF PicPayloadIsOk(t, t.length) /\ t.command = "read" /\ t.address = 0
                  THEN "answered" ELSE "none"
  /\ UNCHANGED picSize

\* The register file is copied: no handler ever reads what is in it.
PicTransportDbg(t) ==
  /\ PicAccess
  /\ picResponse' = DebugResponse(t, picSize, picResponse)
  /\ outcome' = "none"
  /\ UNCHANGED <<picSize, irqState, next, fatal>>

PicConfigure(size) ==
  /\ PicAccess
  /\ picSize' = size
  /\ picResponse' = "TLM_OK"
  /\ outcome' = "none"
  /\ UNCHANGED <<irqState, next, fatal>>

-----------------------------------------------------------------------------
(* The thread *)

\* The priority is compared with the front of a list that may be empty.
Unmasked(s) == IF level = <<>> THEN BOOLEAN ELSE {source[s].priority > Head(level)}

\* The port is indexed with the source instead of the target, which ends the
\* simulation unless there is a port for it.
PicThread(s) ==
  /\ arrivals < MaxArrivals
  /\ ~fatal
  /\ arrivals' = arrivals + 1
  /\ source' = [source EXCEPT ![s].pending = TRUE]
  /\ \E unmasked \in Unmasked(s) :
       LET forward == source[s].enabled /\ targeted[s] /\ unmasked
       IN /\ outcome' = IF forward /\ s < PicSends THEN "notified" ELSE "none"
          /\ fatal' = (forward /\ s >= PicSends)
  /\ UNCHANGED <<picSize, targeted, clearall, enabled, mask, level, select, next,
                 picResponse, picAccesses>>

PicNext ==
  \/ \E t \in Payloads : PicBTransport(t)
  \/ \E t \in Payloads : PicTransportDbg(t)
  \/ \E size \in Sizes \cup {0} : PicConfigure(size)
  \/ \E s \in Sources : PicThread(s)

-----------------------------------------------------------------------------
(* Properties *)

PicTypeOK ==
  /\ picSize \in Nat
  /\ source \in [Sources -> Source]
  /\ targeted \in [Sources -> BOOLEAN]
  /\ clearall \in BOOLEAN /\ enabled \in BOOLEAN /\ mask \in 0 .. 255
  /\ level \in Seq(0 .. 255)
  /\ select \in Sources \cup {M}
  /\ next \in Sources \cup {InvalidIrq}
  /\ outcome \in {"none", "answered", "notified"} /\ fatal \in BOOLEAN
  /\ picResponse \in Responses

\* "Notify appropriate targets" (pic.cpp:438): the processor is notified for a
\* source that it asked for and that NEXT would let pass, although pic_thread
\* compares with a list of levels that writes of TARGET and DONE keep, and NEXT
\* with the mask (pic.cpp:443, 486-500, 571).  When the list is empty the code
\* reads behind it, and nothing is claimed.
NotifiedForSomething ==
  outcome = "notified" /\ level # <<>> =>
    \E s \in Sources : /\ source[s].pending /\ source[s].enabled /\ targeted[s]
                       /\ source[s].priority > mask

\* Every read of NEXT, a repeated one too and one after its last answer was
\* cleared, answers the pending source of the highest priority above the mask, the
\* first among equals, and makes it active; the invalid number is answered only
\* when no source qualifies (pic.cpp:571-587).
NextIsHighest ==
  [][outcome' = "answered" =>
       LET qualified == {s \in Sources : source[s].pending /\ source[s].priority > mask}
       IN IF qualified = {} THEN next' = InvalidIrq
          ELSE /\ next' \in qualified
               /\ source'[next'].active
               /\ \A s \in qualified :
                    \/ source[s].priority < source[next'].priority
                    \/ source[s].priority = source[next'].priority /\ next' <= s]_picVars
===============================================================================
