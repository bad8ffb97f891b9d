------------------------------- MODULE Frontend ------------------------------
(***************************************************************************)
(* The two type inferences of the compiler, side by side. A statement      *)
(* `let y: want = expr` (or expr alone, want = NoWant) that typeck.rs      *)
(* accepts goes through check_supported and then to code generation, which *)
(* works the types out again. The expressions written get bigger and       *)
(* bigger.                                                                 *)
(*                                                                         *)
(* Typed, Supports, Emitted and Bigger are parameters that the model gives *)
(* the definitions TypedBy, SupportedBy, EmittedBy and the expressions of  *)
(* one more level.                                                         *)
(***************************************************************************)
EXTENDS CodegenTypes

CONSTANTS Programs,        \* [user, locals, sigs, depth]: declarations, names in scope, how deep to write
          Wants,           \* the declared types of y
          Bigger(_),       \* the expressions one form bigger than a given one
          Typed(_, _, _),  \* typeck.rs on a program, an expression and a wanted type
          Supports(_, _, _), \* check_supported_with_plugins
          Emitted(_, _, _)   \* the places code generation fills without being told their type

VARIABLES program, expr, want, depth, stage, sites
vars == <<program, expr, want, depth, stage, sites>>

G(p) == [reg |-> Registry(p.user), sigs |-> p.sigs]
Nothing == <<"none">>

\* check_stmt: a let is checked, an expression statement inferred.
TypedBy(p, e, w) ==
  LET g == G(p) IN IF w = NoWant THEN Infer(e, g, p.locals) # Error ELSE Check(e, w, g, p.locals)

\* check_supported_with_plugins: the declarations, then the statement.
SupportedBy(p, e, w) ==
  LET g == G(p) IN CheckDeclarations(p.user) /\ (e # Nothing => CheckLet(g, e, IF w = NoWant THEN Unit ELSE w))

\* The values an if or a match chooses from, each with its scope.
Alternatives(e, g, sc) ==
  CASE e[1] = "if" /\ e[4][1] = "else" -> {<<e[3], sc>>, <<e[4][2], sc>>}
    [] e[1] = "match" -> {<<e[3][i][3], Bound(g, Infer(e[2], g, sc), e[3][i], sc)>> : i \in DOMAIN e[3]}
    [] OTHER -> {}

\* The value says what its type is: typeck infers it without the type of its
\* place, or infers one of the choices and the others are Ok or Err of a value.
Determined(e, g, sc) ==
  LET says(c) == Infer(c[1], g, c[2]) # Error
      cs      == Alternatives(e, g, sc)
  IN  \/ Infer(e, g, sc) # Error
      \/ (\E c \in cs : says(c)) /\ \A c \in cs : says(c) \/ Wraps(c[1], "Ok") \/ Wraps(c[1], "Err")

\* What is emitted for the statement: each place, with the type codegen takes
\* its value to have.
EmittedBy(p, e, w) ==
  LET g   == G(p)
      all == IF w = NoWant THEN Alone(e, Infer(e, g, p.locals), g, p.locals) ELSE LetSites(e, w, g, p.locals)
  IN  {[e |-> s.e, t |-> s.t, taken |-> LocalTyOf(s.e, g, s.sc), determined |-> Determined(s.e, g, s.sc)]
         : s \in {u \in all : ~Refuses(u, g)}}

Init == /\ program \in Programs
        /\ expr = Nothing /\ want = NoWant /\ depth = 0 /\ sites = {}
        /\ stage = "written"

\* The programmer writes a bigger statement that typeck accepts.
Write == /\ stage = "emitted" /\ depth < program.depth
         /\ \E e \in Bigger(expr), w \in Wants \cup {NoWant} :
              /\ Typed(program, e, w)
              /\ expr' = e /\ want' = w
         /\ depth' = depth + 1 /\ stage' = "written" /\ sites' = {}
         /\ UNCHANGED program

Support == /\ stage = "written"
           /\ stage' = IF Supports(program, expr, want) THEN "supported" ELSE "refused"
           /\ UNCHANGED <<program, expr, want, depth, sites>>

Emit == /\ stage = "supported"
        /\ sites' = IF expr = Nothing THEN {} ELSE Emitted(program, expr, want)
        /\ stage' = "emitted"
        /\ UNCHANGED <<program, expr, want, depth>>

Next == Write \/ Support \/ Emit
Spec == Init /\ [][Next]_vars

-----------------------------------------------------------------------------
RECURSIVE Unasked(_, _, _), Shape(_), Unrolls(_, _, _), Size(_, _), Align(_, _)

\* The forms local_ty_of has no arm for and answers i64: open, transact, send,
\* stop, print, and recv from a file; and the if without an else, whose value
\* it takes to be that of its branch. The README lists them.
NoArm(e, g, sc) ==
  \/ e[1] = "if" /\ e[4][1] = "none"
  \/ e[1] \in {"open", "transact", "send", "stop"}
  \/ e[1] = "call" /\ e[2] = "print"
  \/ e[1] = "recv" /\ Infer(e[2], g, sc) = <<"file">>
Unasked(e, g, sc) == NoArm(e, g, sc) \/ \E c \in Children(e) : Unasked(c, g, sc)

\* A type up to the width of its integers.
Shape(t) ==
  CASE IsInteger(t) -> I64
    [] Is(t, "named") -> Named(t[2], [i \in DOMAIN t[3] |-> Shape(t[3][i])])
    [] t[1] \in {"box", "froze", "ref", "thread", "chan", "vector", "matrix"} -> [t EXCEPT ![2] = Shape(t[2])]
    [] OTHER -> t

\* The places whose type codegen really looks up: aggregates, and the slot of an if or a match.
LooksUp(s) == IsAggregate(s.t) \/ (s.e[1] \in {"if", "match"} /\ s.t # Unit)

\* Wherever a value determines its type, if need be by a sibling branch of an
\* Ok or an Err, local_ty_of (codegen.rs:2814) gives the type typeck gave it, up
\* to integer widths: the slot reserved and the bytes copied are the value's.
ShapesAgree ==
  \A s \in sites : LooksUp(s) /\ s.determined /\ ~Unasked(s.e, G(program), program.locals) => Shape(s.taken) = Shape(s.t)

\* LLVM's layout of a type: natural alignment, fields in order.
Align(r, t) ==
  CASE Is(t, "named") -> IF IsStruct(r, t[2]) THEN Max({1} \cup {Align(r, u) : u \in Inside(r, t)}) ELSE 8
    [] IsArray(t) -> ElemBytes(t[2])
    [] IsInteger(t) \/ t = Bool -> ElemBytes(t)
    [] OTHER -> 8
RoundUp(n, a) == ((n + a - 1) \div a) * a
Size(r, t) ==
  CASE t \in {Str, Dec, Json} -> 16
    [] t = Unit -> 0
    [] IsArray(t) -> ArrayBytes(t)
    [] IsInteger(t) \/ t = Bool -> ElemBytes(t)
    [] Is(t, "named") ->
         IF IsStruct(r, t[2])
         THEN RoundUp(FoldLeft(LAMBDA at, u : RoundUp(at, Align(r, u)) + Size(r, u), 0, Groups(r, t)[1]), Align(r, t))
         ELSE 8 + 8 * BufferWords(r, t)
    [] OTHER -> 8

\* The named types without json that a program's declarations are made of.
Declared(p) == {t \in UNION {Inside(Registry(p.user), Named(n, <<>>)) : n \in DOMAIN p.user} : Is(t, "named")}
               \cup {Named(n, <<>>) : n \in DOMAIN p.user}
RECURSIVE HasJson(_, _)
HasJson(r, t) == t = Json \/ (IsArray(t) /\ HasJson(r, t[2])) \/ (Is(t, "named") /\ \E u \in Inside(r, t) : HasJson(r, u))

\* Every field of a variant, stored at the sum of the words counted for the
\* fields before it (construct_variant), ends before the next one begins and
\* within the enum's payload buffer.
PayloadsFit ==
  stage = "emitted" =>
    LET r == Registry(program.user)
    IN  \A t \in Declared(program) :
          IsEnum(r, t[2]) /\ ~HasJson(r, t) =>
            \A i \in DOMAIN Groups(r, t) :
              LET fields == Groups(r, t)[i]
                  at(k)  == 8 * SumOver(r, SubSeq(fields, 1, k - 1))
              IN  \A k \in DOMAIN fields : at(k) + Size(r, fields[k]) <= (IF k = Len(fields) THEN 8 * BufferWords(r, t) ELSE at(k + 1))

\* A type that unrolls into scalars within a number of levels.
Unrolls(r, t, fuel) ==
  CASE Is(t, "named") -> fuel > 0 /\ \A u \in Inside(r, t) : Unrolls(r, u, fuel - 1)
    [] IsArray(t) -> Unrolls(r, t[2], fuel)
    [] OTHER -> TRUE

\* A program whose declarations check_supported accepts has types of finite
\* size: conservative_word_count and LLVM's own layout recursion end.
FiniteLayout ==
  stage \in {"supported", "emitted"} =>
    \A n \in DOMAIN program.user : Unrolls(Registry(program.user), Named(n, <<>>), 2 + 2 * Cardinality(DOMAIN program.user))
=============================================================================
