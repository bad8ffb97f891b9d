-------------------------- MODULE CompiledProgram --------------------------
(***************************************************************************)
(* A function that passed typeck and check_ownership, compiled and run:    *)
(* the pipeline of main.rs up to codegen, then the emitted instructions,   *)
(* one step each, on the heap of nir_alloc and nir_free.                   *)
(***************************************************************************)
EXTENDS Codegen

CONSTANT Build(_)    \* the compiler as a whole: Compile

VARIABLES
  prog,    \* the function
  gaps,    \* where the checker's account of it is not exact (Ownership)
  code,    \* its instructions
  pc,      \* the next one; 0 once it has returned, Trapped after a failed call
  regs,    \* registers and stack slots: path -> address or scalar
  heap,    \* every cell and handle ever allocated: [live, kind, content]
  queue,   \* of each channel, what was sent and not received
  held,    \* the slots of the tcp and file domains
  rounds,  \* how often loops may still go back
  result,  \* the value returned
  wrong    \* ghost: what touched memory it must not touch

vars == <<prog, gaps, code, pc, regs, heap, queue, held, rounds, result, wrong>>

Reg(p)  == IF p \in DOMAIN regs THEN regs[p] ELSE Undef
Live(a) == a \in DOMAIN heap /\ heap[a].live
Here    == code[pc]
Fresh(kind) == [live |-> TRUE, kind |-> kind, content |-> Undef]
Trapped == -1
LiveOf(kind) == {a \in DOMAIN heap : heap[a].live /\ heap[a].kind = kind}

\* main.rs: typecheck, check_ownership, codegen.
Compile(f) == LET checked == RunChecker(f)
                  ok      == CheckFn(f) /\ checked.err = {}
              IN  [ok |-> ok, gaps |-> checked.gaps, code |-> IF ok THEN Function(f, checked.fm) ELSE <<>>]

\* The caller passes each affine parameter a cell of its own, and a box of a
\* box one more inside it; a channel and a frozen value are cells it shares.
KindOf(ty) == CASE ty \in {"tcp", "listener"} -> "tcp"
                [] ty \in {"file", "thread", "chan", "froze"} -> ty
                [] OTHER -> "box"
Cells(f) == {n \in DOMAIN f.params : Affine(f.params[n]) \/ f.params[n] \in {"chan", "froze"}}
Given(f, owned) ==
  LET k     == Len(owned)
      boxed == {i \in 1..k : f.params[owned[i]] = "boxbox"}
  IN  [a \in 1..2 * k |-> [live    |-> a <= k \/ a - k \in boxed,
                           kind    |-> IF a <= k THEN KindOf(f.params[owned[a]]) ELSE "box",
                           content |-> IF a \in boxed THEN a + k ELSE Scalar]]

Init ==
  \E f \in Programs :
    /\ LET c == Build(f)
           owned == SetToSeq(Cells(f))
       IN  /\ c.ok
           /\ prog = f /\ gaps = c.gaps /\ code = c.code
           /\ heap = Given(f, owned)
           /\ regs = [s \in {<<n>> : n \in DOMAIN f.params} |->
                        IF s[1] \in Cells(f) THEN CHOOSE i \in DOMAIN owned : owned[i] = s[1] ELSE Scalar]
    /\ queue = [a \in LiveOf("chan") |-> <<>>]
    /\ held = [d \in {"tcp", "file"} |-> Cardinality(LiveOf(d))]
    /\ pc = 1 /\ rounds = MaxRounds /\ result = Scalar /\ wrong = {}

Set(p, v)  == regs' = (p :> v) @@ regs
Step       == pc' = pc + 1
Blame(bad, what) == wrong' = IF bad THEN wrong \cup {what} ELSE wrong
Same       == UNCHANGED <<prog, gaps, code>>

Instr(k) == pc > 0 /\ Here.i = k

Const ==
  /\ Instr("const") /\ Set(Here.dst, Scalar) /\ Step
  /\ UNCHANGED <<heap, queue, held, rounds, result, wrong>> /\ Same

CopyValue ==
  /\ Instr("copy") /\ Set(Here.dst, Reg(Here.src)) /\ Step
  /\ UNCHANGED <<heap, queue, held, rounds, result, wrong>> /\ Same

\* nir_alloc, nir_chan_new.
Alloc ==
  /\ Instr("alloc") /\ heap' = Append(heap, Fresh(Here.kind)) /\ Set(Here.dst, Len(heap) + 1) /\ Step
  /\ queue' = IF Here.kind = "chan" THEN queue @@ ((Len(heap) + 1) :> <<>>) ELSE queue
  /\ UNCHANGED <<held, rounds, result, wrong>> /\ Same

\* nir_tcp_connect, nir_tcp_listen, nir_tcp_accept, nir_file_open: a slot, then
\* the system call. A denial, or a failure, which gives the slot back, traps.
Open ==
  /\ Instr("open")
  /\ \/ /\ held' = [held EXCEPT ![Here.kind] = @ + 1]
        /\ heap' = Append(heap, Fresh(Here.kind)) /\ Set(Here.dst, Len(heap) + 1) /\ Step
     \/ pc' = Trapped /\ UNCHANGED <<held, heap, regs>>
  /\ UNCHANGED <<queue, rounds, result, wrong>> /\ Same

\* nir_tcp_send, nir_tcp_recv, nir_file_write, nir_file_read, and the listener
\* of an accept: a system call on a raw descriptor.
Io ==
  /\ Instr("io") /\ Blame(~Live(Reg(Here.src)), "io")
  /\ \/ Set(Here.dst, Scalar) /\ Step
     \/ pc' = Trapped /\ UNCHANGED regs
  /\ UNCHANGED <<heap, queue, held, rounds, result>> /\ Same

\* nir_chan_send and nir_chan_recv: the value changes hands. A receive from an
\* empty channel waits.
SendValue ==
  /\ Instr("send") /\ Step
  /\ queue' = [queue EXCEPT ![Reg(Here.dst)] = Append(@, Reg(Here.src))]
  /\ UNCHANGED <<regs, heap, held, rounds, result, wrong>> /\ Same

RecvValue ==
  /\ Instr("recv") /\ queue[Reg(Here.src)] # <<>> /\ Step
  /\ Set(Here.dst, Head(queue[Reg(Here.src)]))
  /\ queue' = [queue EXCEPT ![Reg(Here.src)] = Tail(@)]
  /\ UNCHANGED <<heap, held, rounds, result, wrong>> /\ Same

\* emit_affine_free: the cells a value of type ty owns. A file has no case of
\* its own there: it is closed by stop ("stopped") or not at all.
Owned(ty, a) ==
  CASE ty \in {"box", "pair", "thread", "tcp", "listener", "stopped"} -> {a}
    [] ty = "boxbox" -> {a} \cup (IF Live(a) THEN {heap[a].content} ELSE {})
    [] ty = "option" -> {a} \ {Scalar}
    [] OTHER         -> {}

Release(cells) == [a \in DOMAIN heap |-> IF a \in cells THEN [heap[a] EXCEPT !.live = FALSE] ELSE heap[a]]

\* nir_thread_spawn: the arguments are the thread's, which frees them.
Spawn ==
  /\ Instr("spawn")
  /\ LET cells == {Reg(Here.args[i]) : i \in DOMAIN Here.args}
     IN  /\ Blame(\E a \in cells : ~Live(a), "free")
         /\ heap' = Append(Release(cells), Fresh("thread"))
  /\ Set(Here.dst, Len(heap) + 1) /\ Step
  /\ UNCHANGED <<queue, held, rounds, result>> /\ Same

Store ==
  /\ Instr("store")
  /\ heap' = [heap EXCEPT ![Reg(Here.dst)].content = Reg(Here.src)]
  /\ Blame(~Live(Reg(Here.dst)), "store") /\ Step
  /\ UNCHANGED <<regs, queue, held, rounds, result>> /\ Same

\* A load through a box: of a scalar, or of the box inside a box.
Load ==
  /\ Instr("load")
  /\ Blame(~Live(Reg(Here.src)), "load") /\ Step
  /\ Set(Here.dst, IF Live(Reg(Here.src)) THEN heap[Reg(Here.src)].content ELSE Undef)
  /\ UNCHANGED <<heap, queue, held, rounds, result>> /\ Same

\* A kernel call that reads through the handle it is lent.
Use ==
  /\ Instr("use")
  /\ Blame(~Live(Reg(Here.src)), "use") /\ Set(Here.dst, Scalar) /\ Step
  /\ UNCHANGED <<heap, queue, held, rounds, result>> /\ Same

Free ==
  /\ Instr("free")
  /\ LET cells == Owned(Here.ty, Reg(Here.src))
     IN  /\ heap' = Release(cells) /\ Blame(\E a \in cells : ~Live(a), "free")
         /\ held' = [d \in DOMAIN held |->
                       held[d] - Cardinality({a \in cells : a \in DOMAIN heap /\ heap[a].kind = d})]
  /\ Step /\ UNCHANGED <<regs, queue, rounds, result>> /\ Same

\* call: the callee frees the parameters it was given and returns a fresh value.
Call ==
  /\ Instr("call")
  /\ LET sig   == Sigs[Here.fn]
         cells == UNION {Owned(sig.params[i], Reg(Here.args[i])) : i \in DOMAIN Here.args}
     IN  /\ Blame(\E a \in cells : ~Live(a), "free")
         /\ IF Affine(sig.ret)
            THEN heap' = Append(Release(cells), [Fresh("box") EXCEPT !.content = Scalar]) /\ Set(Here.dst, Len(heap) + 1)
            ELSE heap' = Release(cells) /\ Set(Here.dst, Scalar)
  /\ Step /\ UNCHANGED <<queue, held, rounds, result>> /\ Same

Switch ==
  /\ Instr("switch") /\ pc' = pc + (IF Reg(Here.src) = Scalar THEN Here.off ELSE 1)
  /\ UNCHANGED <<regs, heap, queue, held, rounds, result, wrong>> /\ Same

BranchEither ==
  /\ Instr("branch")
  /\ \/ pc' = pc + Here.off
     \/ (Here.loop => rounds > 0) /\ Step
  /\ UNCHANGED <<regs, heap, queue, held, rounds, result, wrong>> /\ Same

JumpTo ==
  /\ Instr("jump") /\ pc' = pc + Here.off
  /\ rounds' = IF Here.off < 0 THEN rounds - 1 ELSE rounds
  /\ UNCHANGED <<regs, heap, queue, held, result, wrong>> /\ Same

Return ==
  /\ Instr("ret") /\ pc' = 0 /\ result' = Reg(Here.src)
  /\ UNCHANGED <<regs, heap, queue, held, rounds, wrong>> /\ Same

Next ==
  \/ Const \/ CopyValue \/ Alloc \/ Open \/ Io \/ SendValue \/ RecvValue \/ Spawn \/ Store \/ Load \/ Use \/ Free \/ Call
  \/ Switch \/ BranchEither \/ JumpTo \/ Return

Spec == Init /\ [][Next]_vars

-----------------------------------------------------------------------------
(***************************************************************************)
(* Properties.                                                             *)
(***************************************************************************)
\* Every register holds a scalar, nothing, or the address of an allocated
\* cell, and the program counter is on an instruction.
TypeOK ==
  /\ pc \in Trapped..Len(code) /\ rounds \in 0..MaxRounds
  /\ \A p \in DOMAIN regs : regs[p] \in {Undef, Scalar} \cup DOMAIN heap
  /\ \A a \in DOMAIN heap : heap[a].content \in {Undef, Scalar} \cup DOMAIN heap
  /\ result \in {Undef, Scalar} \cup DOMAIN heap

\* A program the compiler accepts never reads, writes or frees memory it has
\* freed or never owned, whatever its branches and loops do, and what it
\* returns is still live: what ownership.rs proves, and emit_frees_for_names
\* relies on. Connections and files are raw descriptors: none is used or closed
\* after it was closed, and each open one holds one slot of its domain. Outside
\* of two gaps: a loop condition that moves, a name that hides an owner.
MemorySafe ==
  gaps \cap {"cond", "shadow"} = {} =>
    /\ wrong = {}
    /\ \A d \in DOMAIN held : held[d] = Cardinality(LiveOf(d))
    /\ pc = 0 => \A a \in Owned(prog.ret, result) : Live(a)

\* The cells, connections and threads still live after the return that nobody
\* can reach any more. A channel, a frozen value and a file not stopped have no
\* owner that would end them.
Leaked == IF pc # 0 THEN {}
          ELSE (LiveOf("box") \cup LiveOf("tcp") \cup LiveOf("thread"))
               \ (Owned(prog.ret, result) \cup UNION {Range(queue[c]) : c \in DOMAIN queue})

\* When a function returns, every cell and connection it was given or opened is
\* freed, sent away or belongs to its result, on every path: FreeMap names each
\* owner at each closing point. Outside of the gaps, where an owner is forgotten.
NothingLeaks == gaps = {} => Leaked = {}
=============================================================================
