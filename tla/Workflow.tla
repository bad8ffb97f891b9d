------------------------------ MODULE Workflow ------------------------------
(***************************************************************************)
(* workflow blocks: what the compiler accepts and turns them into, the     *)
(* table of instances in the runtime, and the notifications a state's      *)
(* actions send. An instance moves in three steps (its state read, on_exit *)
(* run, its state written) and no lock is held across them: two threads    *)
(* may advance it from one state, and both write.                          *)
(***************************************************************************)
EXTENDS KernelCalls

CONSTANTS
  Programs,      \* the candidate programs: name |-> workflow declaration
  MaxClock,      \* bound: seconds
  Extracted      \* an extraction to check: [name, data, states]

(* A declaration is [data, states], a state [name, terminal, sla, on_entry,*)
(* on_exit, transitions], a transition [event, target, link]. Actions are  *)
(* counted: each is a call of the program's own.                           *)

VARIABLES decl,        \* the workflows of the compiled program
          instances,   \* id |-> [workflow, state, entered_at]
          seq,         \* WORKFLOW_INSTANCE_SEQ
          clock,
          path         \* history: id |-> the states it has been given, in order

workflowVars == <<decl, instances, seq, clock, path>>
vars == <<kernelVars, workflowVars>>

NameSet(w)      == {w.states[i].name : i \in DOMAIN w.states}
StateNamed(w, s) == CHOOSE st \in ToSet(w.states) : st.name = s
Transitions(w)  == UNION {{[from |-> st.name] @@ tr : tr \in ToSet(st.transitions)} :
                          st \in ToSet(w.states)}

-----------------------------------------------------------------------------
(* The compiler                                                            *)

\* Distinct events in the order they first appear: <Workflow>Event.
EventNames(w) ==
  FoldLeft(LAMBDA es, st :
             FoldLeft(LAMBDA acc, tr : IF Contains(acc, tr.event) THEN acc
                                       ELSE Append(acc, tr.event),
                      es, st.transitions),
           <<>>, w.states)

LinkEvents(w) == {tr.event : tr \in {x \in Transitions(w) : x.link}}

\* lower_one's two errors.
Lowers(w) == /\ Cardinality(NameSet(w)) = Len(w.states)
             /\ \A tr \in Transitions(w) : tr.target \in NameSet(w)

\* The functions lower_one adds to the program.
LoweredFns(w) ==
  {"start", "submitted_by_me", "history", "advance", "pending_for_me"}
  \cup (IF \E st \in ToSet(w.states) : st.sla # Nil THEN {"overdue"} ELSE {})
  \cup {<<"via_link", e>> : e \in LinkEvents(w)}

CheckWorkflowDecl(w) ==
  \A i \in DOMAIN w.states :
    LET st == w.states[i]
    IN  /\ st.terminal \/ st.transitions # <<>>
        /\ \A j, k \in DOMAIN st.transitions :
             st.transitions[j].event = st.transitions[k].event => j = k
        /\ st.sla # Nil => st.sla >= 0

\* No data block, and no link: __workflow_link_advance does not compile.
ResolveWorkflowLayer1(w) == w.data = {} /\ LinkEvents(w) = {}

Compiles(p) == \A n \in DOMAIN p : /\ Lowers(p[n]) /\ CheckWorkflowDecl(p[n])
                                   /\ ResolveWorkflowLayer1(p[n])

(* The extraction checked against the declaration of the same name: fields *)
(* with their types, states with their flag and numbers of actions, and    *)
(* transitions, each as a set. Empty is an exact match.                    *)
StateFacts(w) == {[name |-> st.name, terminal |-> st.terminal, on_entry |-> st.on_entry,
                   on_exit |-> st.on_exit] : st \in ToSet(w.states)}
CheckDataFields(e, w)  == SymDiff(e.data, w.data)
CheckStates(e, w)      == SymDiff(StateFacts(e), StateFacts(w))
CheckTransitions(e, w) == SymDiff(Transitions(e), Transitions(w))
CheckWorkflowConformance(p, e) ==
  /\ e.name \in DOMAIN p
  /\ CheckDataFields(e, p[e.name]) \cup CheckStates(e, p[e.name])
       \cup CheckTransitions(e, p[e.name]) = {}

WorkflowInit ==
  /\ KernelInit /\ decl \in {p \in Programs : Compiles(p)}
  /\ instances = <<>> /\ seq = 1 /\ clock = 0 /\ path = <<>>

-----------------------------------------------------------------------------
(* The runtime                                                             *)

ErrTag(n) == Err([n |-> n, tag |-> 0, kids |-> <<>>])
ProviderNotConfigured == ErrTag(1)
ProviderRequestFailed == Err([n |-> 2, tag |-> 0, kids |-> <<Words("reason")>>])
NoSuchTransition      == ErrTag(3)
InstanceNotFound      == ErrTag(4)

Kernel == <<fds, held, table, lock, mine, made, cell, queue, aborted>>

\* In a state since now.
Instance(w, state) == [workflow |-> w, state |-> state, entered_at |-> clock]

\* nir_workflow_create_instance and the first state's on_entry.
WorkflowStart(t, w) ==
  LET st == decl[w].states[1]
  IN  /\ Begin(t, "start")
      /\ instances' = Including(instances, seq, Instance(w, st.name))
      /\ path' = Including(path, seq, <<st.name>>)
      /\ seq' = seq + 1
      /\ Enter(t, Call("start", "entry", "none", seq, st.on_entry, Nil))
      /\ UNCHANGED <<Kernel, decl, clock>>

WorkflowGetState(w, id) ==
  IF id \in DOMAIN instances /\ instances[id].workflow = w
    THEN Found(instances[id].state) ELSE Failed

\* Mutant: the event is looked up among those of all states.
MatchingAnyState(w, state, event) == {tr \in Transitions(decl[w]) : tr.event = event}

\* The comparison chain: the state's name, then its events.
Matching(w, state, event) ==
  {tr \in Transitions(decl[w]) : tr.from = state /\ tr.event = event}

\* Its argument's `seen` is history: how much of the path it has read.
WorkflowAdvance(t, w, id, event) ==
  LET g == WorkflowGetState(w, id)
      out == IF g.found THEN Matching(w, g.out, event) ELSE {}
      tr  == CHOOSE x \in out : TRUE
  IN  /\ Begin(t, "advance")
      /\ IF ~g.found THEN Return(t, Gives(InstanceNotFound))
         ELSE IF out = {} THEN Return(t, Gives(NoSuchTransition))
         ELSE Enter(t, Call("advance", "exit", "none", id,
                            StateNamed(decl[w], g.out).on_exit,
                            [workflow |-> w, target |-> tr.target,
                             seen |-> Len(path[id])]))
      /\ UNCHANGED <<Kernel, workflowVars>>

\* emit_workflow_action: called for its effect, whatever it returns.
WorkflowAction(t) ==
  /\ call[t].at \in {"exit", "entry"} /\ call[t].r > 0
  /\ call' = [call EXCEPT ![t].r = @ - 1] /\ result' = Nil
  /\ UNCHANGED <<Kernel, calls, left, workflowVars>>

\* Its status is not looked at; the clock of the state restarts.
WorkflowSetState(t) ==
  LET c == call[t]
      a == c.arg
      ours == c.h \in DOMAIN instances /\ instances[c.h].workflow = a.workflow
  IN  /\ c.at = "exit" /\ c.r = 0
      /\ instances' = IF ours THEN [instances EXCEPT ![c.h] = Instance(a.workflow, a.target)]
                               ELSE instances
      /\ path' = IF ours THEN [path EXCEPT ![c.h] = Append(@, a.target)] ELSE path
      /\ Enter(t, Call("advance", "entry", "none", c.h,
                       StateNamed(decl[a.workflow], a.target).on_entry, Nil))
      /\ UNCHANGED <<Kernel, calls, left, decl, seq, clock>>

WorkflowReturn(t) ==
  /\ call[t].at = "entry" /\ call[t].r = 0
  /\ Return(t, Gives(Ok(Val(IF call[t].k = "start" THEN call[t].h ELSE 1))))
  /\ UNCHANGED <<Kernel, calls, left, workflowVars>>

\* nir_workflow_list_overdue: the time is read before the lock is taken.
WorkflowOverdue(t, w) ==
  /\ Begin(t, "overdue") /\ "overdue" \in LoweredFns(decl[w])
  /\ Enter(t, Call("overdue", "overdue", "none", 0, 0, [workflow |-> w, now |-> clock]))
  /\ UNCHANGED <<Kernel, workflowVars>>

WorkflowListOverdue(t) ==
  LET a == call[t].arg
      Age(id) == a.now - instances[id].entered_at
      Sla(id) == StateNamed(decl[a.workflow], instances[id].state).sla
      late == {id \in DOMAIN instances :
                 /\ instances[id].workflow = a.workflow
                 /\ Sla(id) # Nil /\ Age(id) >= Sla(id)}
      rows == SetToSortSeq(late, LAMBDA x, y : Age(x) > Age(y))
  IN  /\ call[t].at = "overdue"
      /\ Return(t, Gives(StrResult(Found(JArr([i \in DOMAIN rows |-> JNum(rows[i])])))))
      /\ UNCHANGED <<Kernel, calls, left, workflowVars>>

\* pending_for_me, submitted_by_me, history: nothing is kept to answer from.
WorkflowUnsupportedQuery(t) ==
  /\ Begin(t, "unsupported") /\ Return(t, Gives(ProviderRequestFailed))
  /\ UNCHANGED <<Kernel, workflowVars>>

-----------------------------------------------------------------------------
(* send_email, send_sms, send_push and notify (which only sends email)     *)

\* emit_notify_result: 0 sent, 1 not configured, anything else failed.
NotifyResult(status) == CASE status = 0 -> Ok(Val(1))
                          [] status = 1 -> ProviderNotConfigured
                          [] OTHER -> ProviderRequestFailed

Sends == {"send", "notify"}

SendNotification(t, m, k) == Use(t, m, k, Nil) /\ UNCHANGED workflowVars

\* The provider's row, read under the lock; only SQLite has one.
LoadActiveProviderConfig(t) ==
  /\ \E k \in Sends : Running(t, k)
  /\ \E row \in BOOLEAN :
       IF row /\ Behind(t) = "sqlite"
         THEN /\ lock' = [lock EXCEPT ![call[t].d] = Nil] /\ GoTo(t, "post")
              /\ UNCHANGED <<fds, held, table, mine, made, calls, left, aborted>>
         ELSE Finish(t, Gives(NotifyResult(1)))
  /\ UNCHANGED <<cell, queue, workflowVars>>

\* The request itself runs outside it; anything but 2xx is a failure.
SendViaProvider(t) ==
  /\ call[t].at = "post"
  /\ \E status \in {0, 2} : Return(t, Gives(NotifyResult(status)))
  /\ UNCHANGED <<Kernel, calls, left, workflowVars>>

-----------------------------------------------------------------------------
\* Bound: time passes for instances only.
Tick == /\ instances # <<>> /\ clock < MaxClock /\ clock' = clock + 1 /\ result' = Nil
        /\ UNCHANGED <<Kernel, call, calls, left, decl, instances, seq, path>>

Started(t) ==
  \/ KernelBegin(t) /\ UNCHANGED workflowVars
  \/ \E w \in DOMAIN decl :
       \/ WorkflowStart(t, w) \/ WorkflowOverdue(t, w)
       \/ \E id \in 1 .. seq, e \in ToSet(EventNames(decl[w])) :
            WorkflowAdvance(t, w, id, e)
  \/ WorkflowUnsupportedQuery(t)
  \/ \E m \in mine[t], k \in Sends : SendNotification(t, m, k)

Step(t) ==
  \/ KernelStep(t) /\ UNCHANGED workflowVars
  \/ WorkflowAction(t) \/ WorkflowSetState(t) \/ WorkflowReturn(t)
  \/ /\ call[t].k \in Sends /\ With(t, NotifyResult(2)) /\ UNCHANGED workflowVars
  \/ WorkflowListOverdue(t) \/ LoadActiveProviderConfig(t) \/ SendViaProvider(t)

ConsumeFails(t) == OpFails(t, "mq_consume") /\ UNCHANGED workflowVars

Next == ~aborted /\ (Tick \/ \E t \in Threads : Started(t) \/ Step(t) \/ ConsumeFails(t))

\* A call makes progress, except an accept: its peer may never come. That the
\* connection breaks under a consume is not something to count on.

Spec == WorkflowInit /\ [][Next]_vars
        /\ \A t \in Threads : WF_vars(~aborted /\ call[t].k # "tcp_accept" /\ Step(t))

-----------------------------------------------------------------------------
(* Properties                                                              *)

\* What a handle designates: nir_db_* look in the core table first.
Designates(m) ==
  LET In(n) == IF m.h \in DOMAIN table[n].map THEN table[n].map[m.h] ELSE 0
  IN  CASE Raw(m.d)   -> IF m.h \in DOMAIN fds THEN fds[m.h] ELSE 0
        [] m.d = "mq" -> In("mq")
        [] m.d = "db" -> IF In("db") # 0 THEN In("db") ELSE In("plugin")

\* Every handle a thread owns is that of the resource it opened, whatever
\* the other threads opened and closed since: descriptors are reused, and a
\* database handle may be in either of two tables that number on their own.
HandleIsOwn == \A t \in Threads : \A m \in mine[t] : Designates(m) = m.r

Kinds == [tcp |-> {"stream", "listener"}, file |-> {"file"}]
Live(d) == IF Raw(d) THEN {r \in Range(fds) : made[r] \in Kinds[d]}
                     ELSE Range(table[d].map)

\* A domain's counter is the resources open in it and the calls on their way
\* in or out, and never above the ceiling: no failed open, no refused file
\* mode and no close under either table leaks a slot or gives one back twice.
SlotsExact ==
  \A d \in Domains :
    LET busy == {t \in Threads : call[t].d = d /\ call[t].at \in {"opening", "insert", "release"}}
    IN  held[d] = Cardinality(Live(d)) + Cardinality(busy) /\ held[d] <= Ceiling[d]

\* The texts the program can reach in a value: values are Results of structs of
\* optional strings at most, so five levels down there are texts only.
Inside(xs) == UNION {IF "j" \in DOMAIN x THEN {x} ELSE Range(x.kids) : x \in xs}
Texts(x)   == Inside(Inside(Inside(Inside(Inside({x})))))

\* The types whose values a column of SQLite keeps as they are.
KeptBy == [NONE |-> {"i64", "f64", "bool", "str"}, INTEGER |-> {"i64", "f64", "bool"},
           REAL |-> {"f64"}, TEXT |-> {"str"}]

\* A value that its column holds as it is: what a column converts (a number or a
\* numeric text to its affinity, a number to its width) comes back converted.
Fits(x, col) ==
  /\ Finite(x.v)
  /\ IF col \in Affinities
       THEN x.ty \in KeptBy[col] \/ (x.ty = "str" /\ ~Numeric(x.v.kids[1]))
       ELSE x.ty \in {"i64", "f64"} => x.v.n \in PgColumns[col]

\* What a kernel call returns is what it stands for: the text of a Result is
\* one that the kernel wrote for that very outcome, a value bound into a row
\* whose column holds it is read back by the accessor of its type, through
\* either database's idea of types, and a statement is refused only when its arguments really are not
\* as many as its placeholders.
ResultIsTrue ==
  result # Nil =>
    /\ Unwritten \notin Texts(result.v)
    /\ result.row # Nil /\ Fits(result.row.sent, result.row.col)
         => result.row.got = Ok(result.row.sent.v)
    /\ result.refused # Nil
         => result.refused.stmt.params # IF result.refused.x = Nil THEN 0 ELSE 1

\* A write to an instance follows an edge that its own workflow declares (and
\* that a conforming extraction lists) out of the state its writer read, a state
\* the instance was in; and that is the state it is in, unless another advance
\* has written it since the read. State is read, acted upon and written in
\* separate steps, and any id may be passed to any workflow. In the excepted case
\* the move itself may be along no edge, even out of a terminal state: nothing
\* in the code stops a second advance between the two.
MovesAreDeclared ==
  [][\A id \in DOMAIN instances :
       instances'[id] # instances[id] =>
         \E t \in Threads :
           LET w == instances[id].workflow
               seen == call[t].arg.seen
               Edge(x) == x.from = path[id][seen] /\ x.target = instances'[id].state
           IN  /\ call'[t] # call[t] /\ call[t].h = id /\ seen \in DOMAIN path[id]
               /\ \E tr \in Transitions(decl[w]) : Edge(tr)
               /\ Extracted.name = w /\ CheckWorkflowConformance(decl, Extracted)
                    => \E tr \in Transitions(Extracted) : Edge(tr)
               /\ seen = Len(path[id]) => path[id][seen] = instances[id].state]_vars

\* Every call on a table returns or ends the process, whoever else is inside
\* the same table: opening, closing, a statement, a publish or a consume whose
\* timeout is positive, even while another thread's consume holds the lock.
CallsReturn ==
  \A t \in Threads : (call[t] # Idle /\ call[t].k # "tcp_accept")
                       ~> (call[t] = Idle \/ aborted)
=============================================================================
