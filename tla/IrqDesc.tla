------------------------------ MODULE IrqDesc ------------------------------
(***************************************************************************)
(* One interrupt descriptor under concurrent use: the calls of             *)
(* kernel/irq/irq_desc.c in task context, the dispatch of an interrupt     *)
(* that preempts them, and the devices on the (level-triggered) line.      *)
(*                                                                         *)
(* The kernel runs one CPU without a scheduler.  An interrupt freezes the  *)
(* task until the handler returns, and is not itself interrupted: trap     *)
(* entry masks interrupts.  spin_lock_irqsave does NOT mask them (its      *)
(* arch_local_irq_save is a placeholder that returns 0), so a handler may  *)
(* find a lock held by the very task it has preempted.                     *)
(*                                                                         *)
(* A call is split where an interrupt could tell the difference: at each   *)
(* lock operation and before the call into the irq_chip.  The stores to    *)
(* the descriptor between two such points are one step: a dispatcher that  *)
(* takes desc->lock cannot see them apart, and the arm64 one, which does   *)
(* not, reads nothing but the action chain.                                *)
(***************************************************************************)
EXTENDS Integers, SequencesExt

CONSTANTS
  Dev,        \* dev_data cookies; each names a device on the line
  Arch,       \* "riscv": plic_handle_irq, "arm64": irq_handler
  MaxDepth,   \* bound on the nesting of disable_irq
  MaxChain    \* bound on the length of the action chain

ASSUME IrqDescAssumption ==
  /\ Arch \in {"riscv", "arm64"}
  /\ MaxDepth \in Nat \ {0}
  /\ MaxChain \in Nat

VARIABLES
  status,                \* desc->status, a set of flags
  depth,                 \* desc->depth
  action,                \* the chain desc->action, a sequence of actions
  locked,                \* which of desc->lock and irq_desc_lock task context holds
  asserted,              \* the devices asserting the line
  source,                \* the line's bits in the controller
  task, call,            \* where task context is, and the call it makes
  irq, todo              \* where interrupt context is, and the handlers left

desc == <<status, depth, action>>
hw == <<asserted, source>>
taskVars == <<task, call>>
irqVars == <<irq, todo>>
vars == <<desc, locked, hw, taskVars, irqVars>>

\* struct irq_action: dev_data and the IRQF_SHARED bit of flags.
Action == [dev : Dev, shared : BOOLEAN]

Calls ==
  [name : {"request_irq", "free_irq"}, act : Action] \cup
  [name : {"enable_irq", "disable_irq", "disable_irq_nosync"}]

NoCall == [name |-> "none"]

disabled == "IRQ_DISABLED" \in status
inprogress == "IRQ_INPROGRESS" \in status
lock == "desc->lock" \in locked
irq_desc_lock == "irq_desc_lock" \in locked
masked == "enabled" \notin source
claimed == "claimed" \in source

TaskAt(pc) == task = pc /\ irq = "none"

Goto(pc) == task' = pc /\ UNCHANGED call
Return == task' = "none" /\ call' = NoCall
IrqGoto(pc) == irq' = pc /\ UNCHANGED todo

TypeOK ==
  /\ status \subseteq {"IRQ_DISABLED", "IRQ_INPROGRESS"}
  /\ depth \in Nat
  /\ action \in Seq(Action)
  /\ locked \subseteq {"desc->lock", "irq_desc_lock"}
  /\ asserted \subseteq Dev /\ source \subseteq {"enabled", "claimed"}
  /\ task \in {"none", "to_desc", "in_to_desc", "kmalloc", "lock", "edit",
              "mask", "unmask", "unlock", "wait"}
  /\ call \in Calls \cup {NoCall}
  /\ irq \in {"none", "to_desc", "enter", "handlers"}
  /\ todo \in Seq(Action)

-----------------------------------------------------------------------------
(* The descriptor as irq_desc_alloc makes it, mapped to a masked line. *)

Init ==
  /\ status = {"IRQ_DISABLED"} /\ depth = 1 /\ action = <<>>
  /\ locked = {}
  /\ asserted = {} /\ source = {}
  /\ task = "none" /\ call = NoCall
  /\ irq = "none" /\ todo = <<>>

-----------------------------------------------------------------------------
(* Task context: a call of irq_desc.c. *)

\* The bounds: calls that would exceed them are not made.
WithinBounds(c) ==
  /\ c.name \in {"disable_irq", "disable_irq_nosync"} => depth < MaxDepth
  /\ c.name = "request_irq" => Len(action) < MaxChain

Call(c) ==
  /\ TaskAt("none")
  /\ WithinBounds(c)
  /\ task' = "to_desc" /\ call' = c
  /\ UNCHANGED <<desc, locked, hw, irqVars>>

\* irq_to_desc reads the descriptor array under irq_desc_lock.
irq_to_desc_lock ==
  /\ TaskAt("to_desc")
  /\ locked' = locked \cup {"irq_desc_lock"}
  /\ Goto("in_to_desc")
  /\ UNCHANGED <<desc, hw, irqVars>>

irq_to_desc_unlock ==
  /\ TaskAt("in_to_desc")
  /\ locked' = locked \ {"irq_desc_lock"}
  /\ Goto(IF call.name = "request_irq" THEN "kmalloc" ELSE "lock")
  /\ UNCHANGED <<desc, hw, irqVars>>

\* request_irq allocates the action before it takes the lock; it may fail.
kmalloc_action ==
  /\ TaskAt("kmalloc")
  /\ \/ Goto("lock")
     \/ Return
  /\ UNCHANGED <<desc, locked, hw, irqVars>>

spin_lock ==
  /\ TaskAt("lock")
  /\ locked' = locked \cup {"desc->lock"}
  /\ Goto("edit")
  /\ UNCHANGED <<desc, hw, irqVars>>

\* Mutant: the sharing test looks at the new action only.
CanShareNewOnly(act) == action # <<>> /\ act.shared

\* The new handler may join the chain: both ends asked for IRQF_SHARED.
CanShare(act) == action # <<>> /\ action[1].shared /\ act.shared

\* Mutant: the first handler does not reset depth.
request_irq_keep_depth ==
  LET act == call.act IN
  /\ call.name = "request_irq"
  /\ \/ /\ action = <<>>
        /\ action' = <<act>> /\ status' = status \ {"IRQ_DISABLED"} /\ UNCHANGED depth
        /\ Goto("unmask")
     \/ /\ CanShare(act)
        /\ action' = Append(action, act) /\ UNCHANGED <<status, depth>>
        /\ Goto("unlock")
     \/ /\ action # <<>> /\ ~CanShare(act)
        /\ UNCHANGED <<status, depth, action>>
        /\ Goto("unlock")

request_irq ==
  LET act == call.act IN
  /\ call.name = "request_irq"
  /\ \/ /\ action = <<>>
        /\ action' = <<act>> /\ status' = status \ {"IRQ_DISABLED"} /\ depth' = 0
        /\ Goto("unmask")
     \/ /\ CanShare(act)
        /\ action' = Append(action, act) /\ UNCHANGED <<status, depth>>
        /\ Goto("unlock")
     \/ /\ action # <<>> /\ ~CanShare(act)
        /\ UNCHANGED <<status, depth, action>>
        /\ Goto("unlock")

\* The action at i is the first with this cookie.
FirstOf(dev, i) ==
  action[i].dev = dev /\ \A j \in 1 .. i - 1 : action[j].dev # dev

Registered(dev) == \E i \in 1 .. Len(action) : action[i].dev = dev

free_irq ==
  LET dev == call.act.dev IN
  /\ call.name = "free_irq"
  /\ \/ /\ ~Registered(dev)
        /\ UNCHANGED <<status, depth, action>>
        /\ Goto("unlock")
     \/ \E i \in 1 .. Len(action) :
        /\ FirstOf(dev, i)
        /\ action' = RemoveAt(action, i)
        /\ IF Len(action) > 1
           THEN UNCHANGED <<status, depth>> /\ Goto("unlock")
           ELSE status' = status \cup {"IRQ_DISABLED"} /\ depth' = 1 /\ Goto("mask")

enable_irq ==
  /\ call.name = "enable_irq"
  /\ depth' = IF depth > 0 THEN depth - 1 ELSE depth
  /\ status' = IF depth = 1 THEN status \ {"IRQ_DISABLED"} ELSE status
  /\ UNCHANGED action
  /\ Goto(IF depth = 1 THEN "unmask" ELSE "unlock")

\* Mutant: the flag is set and the line is not masked.
disable_irq_no_mask ==
  /\ call.name \in {"disable_irq", "disable_irq_nosync"}
  /\ depth' = depth + 1
  /\ status' = IF depth = 0 THEN status \cup {"IRQ_DISABLED"} ELSE status
  /\ UNCHANGED action
  /\ Goto("unlock")

\* disable_irq and disable_irq_nosync up to the unlock.
disable_irq ==
  /\ call.name \in {"disable_irq", "disable_irq_nosync"}
  /\ depth' = depth + 1
  /\ status' = IF depth = 0 THEN status \cup {"IRQ_DISABLED"} ELSE status
  /\ UNCHANGED action
  /\ Goto(IF depth = 0 THEN "mask" ELSE "unlock")

\* The stores a call makes under desc->lock.
Edit ==
  /\ TaskAt("edit")
  /\ request_irq \/ free_irq \/ enable_irq \/ disable_irq
  /\ UNCHANGED <<locked, hw, irqVars>>

chip_mask ==
  /\ TaskAt("mask")
  /\ source' = source \ {"enabled"}
  /\ Goto("unlock")
  /\ UNCHANGED <<desc, locked, asserted, irqVars>>

chip_unmask ==
  /\ TaskAt("unmask")
  /\ source' = source \cup {"enabled"}
  /\ Goto("unlock")
  /\ UNCHANGED <<desc, locked, asserted, irqVars>>

spin_unlock ==
  /\ TaskAt("unlock")
  /\ locked' = locked \ {"desc->lock"}
  /\ IF call.name = "disable_irq" THEN Goto("wait") ELSE Return
  /\ UNCHANGED <<desc, hw, irqVars>>

\* disable_irq spins until the handlers in progress are done.
disable_irq_wait ==
  /\ TaskAt("wait")
  /\ ~inprogress
  /\ Return
  /\ UNCHANGED <<desc, locked, hw, irqVars>>

CallStep ==
  \/ irq_to_desc_lock \/ irq_to_desc_unlock \/ kmalloc_action
  \/ spin_lock \/ Edit \/ chip_mask \/ chip_unmask
  \/ spin_unlock \/ disable_irq_wait

-----------------------------------------------------------------------------
(* Interrupt context. *)

\* A device asserts the line until its handler has run.
AssertLine(d) ==
  /\ d \notin asserted
  /\ asserted' = asserted \cup {d}
  /\ UNCHANGED <<desc, locked, source, taskVars, irqVars>>

\* The CPU takes the interrupt and claims it (plic_claim,
\* gic_acknowledge_irq); a source already in service is not forwarded.
Trap ==
  /\ irq = "none"
  /\ asserted # {} /\ ~masked /\ ~claimed
  /\ source' = source \cup {"claimed"}
  /\ IrqGoto("to_desc")
  /\ UNCHANGED <<desc, locked, asserted, taskVars>>

\* irq_to_desc in the handler spins while irq_desc_lock is held.
irq_irq_to_desc ==
  /\ irq = "to_desc"
  /\ ~irq_desc_lock
  /\ IrqGoto("enter")
  /\ UNCHANGED <<desc, locked, hw, taskVars>>

\* generic_handle_irq up to the first unlock.  A disabled descriptor ends
\* the handling there, without irq_eoi.
generic_handle_irq ==
  /\ irq = "enter" /\ Arch = "riscv"
  /\ ~lock
  /\ IF disabled
     THEN IrqGoto("none") /\ UNCHANGED status
     ELSE /\ status' = status \cup {"IRQ_INPROGRESS"}
          /\ irq' = "handlers" /\ todo' = action
  /\ UNCHANGED <<depth, action, locked, hw, taskVars>>

\* arm64's irq_handler: no lock, no test of IRQ_DISABLED, no IRQ_INPROGRESS.
irq_handler ==
  /\ irq = "enter" /\ Arch = "arm64"
  /\ irq' = "handlers" /\ todo' = action
  /\ UNCHANGED <<desc, locked, hw, taskVars>>

\* Mutant: a handler that does not quieten its device.
handle_no_ack ==
  /\ irq = "handlers" /\ todo # <<>>
  /\ todo' = Tail(todo) /\ UNCHANGED irq
  /\ UNCHANGED <<desc, locked, hw, taskVars>>

\* The next handler of the chain runs and quietens its device.
handle ==
  /\ irq = "handlers" /\ todo # <<>>
  /\ asserted' = asserted \ {Head(todo).dev}
  /\ todo' = Tail(todo) /\ UNCHANGED irq
  /\ UNCHANGED <<desc, locked, source, taskVars>>

\* Mutant: no irq_eoi.
finish_no_eoi ==
  /\ irq = "handlers" /\ todo = <<>>
  /\ ~lock \/ Arch = "arm64"
  /\ status' = status \ {"IRQ_INPROGRESS"}
  /\ IrqGoto("none")
  /\ UNCHANGED <<depth, action, locked, hw, taskVars>>

\* The end of the chain: generic_handle_irq retakes the lock, clears
\* IRQ_INPROGRESS and completes; irq_handler only calls gic_eoi.
finish ==
  /\ irq = "handlers" /\ todo = <<>>
  /\ ~lock \/ Arch = "arm64"
  /\ status' = status \ {"IRQ_INPROGRESS"}
  /\ source' = source \ {"claimed"}
  /\ IrqGoto("none")
  /\ UNCHANGED <<depth, action, locked, asserted, taskVars>>

IrqStep ==
  irq_irq_to_desc \/ generic_handle_irq \/ irq_handler \/ handle \/ finish

Next ==
  \/ \E c \in Calls : Call(c)
  \/ CallStep
  \/ \E d \in Dev : AssertLine(d)
  \/ Trap
  \/ IrqStep

Spec == Init /\ [][Next]_vars

\* The CPU keeps executing: the interrupt code when there is an interrupt,
\* the call otherwise; and it takes an interrupt that stays pending.  A call
\* that is preempted again and again has no claim to progress.
FairSpec ==
  Spec /\ WF_vars(CallStep) /\ WF_vars(IrqStep) /\ WF_vars(Trap)

-----------------------------------------------------------------------------
(* Properties. *)

\* The interrupt handler spins on a lock held by the task it preempted.
Stuck ==
  \/ irq = "to_desc" /\ irq_desc_lock
  \/ irq = "enter" /\ Arch = "riscv" /\ lock

\* Whenever no call is between spin_lock and spin_unlock, the nesting
\* count, the IRQ_DISABLED bit and the mask in the controller say the same.
\* The three are updated apart, by four calls.
DepthStatusMask ==
  ~lock => /\ disabled <=> depth > 0
           /\ disabled <=> masked

\* A chain of several handlers consists of handlers that all agreed to share
\* the line, whatever was requested and freed in between (request_irq tests
\* the first action only).
AllAgreedToShare ==
  Len(action) > 1 => \A i \in 1 .. Len(action) : action[i].shared

\* Every claimed interrupt is completed: outside the interrupt handler none is
\* in service.  generic_handle_irq leaves early, without irq_eoi, when the
\* descriptor is disabled; the source would then stay blocked for ever.
ClaimsCompleted == irq = "none" => ~claimed /\ ~inprogress

\* When no call is between spin_lock and spin_unlock, handlers run only for an
\* enabled descriptor: none runs after disable_irq, or the free_irq of the last
\* handler, has returned.  arm64's irq_handler does not test IRQ_DISABLED, so
\* there it rests on the mask, written before the lock is released.
HandlersEnabledOnly == irq = "handlers" /\ ~lock => ~disabled

\* A device that asserts its line while it has a handler and the descriptor
\* is enabled is served, unless it is freed or disabled first; the one way out
\* is the handler that spins on its own CPU's lock.
Served ==
  \A d \in Dev :
    (d \in asserted /\ Registered(d) /\ ~disabled) ~>
      (d \notin asserted \/ ~Registered(d) \/ disabled \/ Stuck)
=============================================================================
