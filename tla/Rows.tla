-------------------------------- MODULE Rows --------------------------------
(***************************************************************************)
(* Values between a compiled program and a database: the tagged array that *)
(* db_execute and db_query pass their `?` arguments in, what SQLite and    *)
(* Postgres make of one in a column of a given type, and the JSON a stored *)
(* value is read back as.                                                  *)
(***************************************************************************)
EXTENDS JsonText

CONSTANT PgColumns   \* Postgres column type |-> the numbers it holds exactly

\* SQLite's column affinities. NUMERIC, not listed, converts as INTEGER does.
Affinities == {"NONE", "INTEGER", "REAL", "TEXT"}

ASSUME ColumnsType ==
  /\ DOMAIN PgColumns \cap Affinities = {}
  /\ \A col \in DOMAIN PgColumns :
       /\ IsFiniteSet(PgColumns[col]) /\ PgColumns[col] \subseteq Int
       /\ col \in {"int2", "int4"} => \A a, b \in PgColumns[col] : a .. b \subseteq PgColumns[col]

(* A bind value is [ty, v]. A stored one is [sql, v], v a program value.   *)
Stored(sql, v) == [sql |-> sql, v |-> v]

Tag == [i64 |-> 0, f64 |-> 1, str |-> 2, bool |-> 3]

EmitDbBinds(x) == [tag |-> Tag[x.ty], v |-> x.v]

\* Mutant: a bool's tag is not one the kernel knows.
BindValuesFromRawNoBool(b) ==
  Stored(CASE b.tag = 0 -> "Integer" [] b.tag = 1 -> "Real"
           [] b.tag = 2 -> "Text" [] OTHER -> "Null", b.v)

\* SQLite has no booleans: 0 or 1.
BindValuesFromRaw(b) ==
  Stored(CASE b.tag \in {0, 3} -> "Integer" [] b.tag = 1 -> "Real"
           [] b.tag = 2 -> "Text" [] OTHER -> "Null", b.v)

Finite(v) == v.tag = 0

\* A text that reads as a number.
Numeric(t) == t.j \in {"num", "real"}

\* What a column of SQLite makes of a value: TEXT turns numbers into texts, REAL
\* and INTEGER numeric texts into numbers, REAL integers into reals and INTEGER
\* whole reals that fit into integers; the model's reals are whole. NONE, and a
\* real that is not finite (which reads back as no number anyway), stay.
Affinity(s, col) ==
  LET number == \/ s.sql = "Text" /\ Numeric(s.v.kids[1])
                \/ s.sql \in {"Integer", "Real"} /\ Finite(s.v)
      n == IF s.sql = "Text" THEN s.v.kids[1].n ELSE s.v.n
  IN  IF ~number \/ col = "NONE" THEN s
      ELSE CASE col = "TEXT" /\ s.sql = "Integer" -> Stored("Text", StrVal(JNum(n)))
             [] col = "TEXT" /\ s.sql = "Real"    -> Stored("Text", StrVal(JReal(n)))
             [] col = "REAL" -> Stored("Real", Val(n))
             [] col = "INTEGER" /\ s.sql # "Integer" /\ n \in Word -> Stored("Integer", Val(n))
             [] col = "INTEGER" /\ s.sql = "Text" /\ n \notin Word -> Stored("Real", Val(n))
             [] OTHER -> s

SqliteRowToJson(s) ==
  CASE s.sql = "Integer" -> JNum(s.v.n)
    [] s.sql = "Real" /\ Finite(s.v) -> JReal(s.v.n)
    [] s.sql = "Text" -> JStr(s.v.kids[1])
    [] OTHER -> JNull

PgBindValuesFromRaw(b) ==
  [b EXCEPT !.tag = CASE @ = 0 -> "I64" [] @ = 1 -> "F64"
                      [] @ = 3 -> "Bool" [] OTHER -> "Str"]

\* What each kind of value may be bound to; every other column is an error.
Accepts == [I64 |-> {"int2", "int4", "int8"}, F64 |-> {"float4", "float8"},
            Str |-> {"text", "varchar", "bpchar", "name"}, Bool |-> {"bool"}]

\* `as i16` and `as i32` keep the low bits; `as f32` the nearest it can.
CastTo(n, col) ==
  IF col \in {"int2", "int4"} THEN NarrowFromI64(n, PgColumns[col])
  ELSE CHOOSE x \in PgColumns[col] :
         \A y \in PgColumns[col] : (x - n) * (x - n) <= (y - n) * (y - n)

ToSql(b, col) ==
  LET wide == b.tag \notin {"I64", "F64"} \/ ~Finite(b.v)
  IN  When(col \in Accepts[b.tag],
           Stored(col, IF wide THEN b.v ELSE Val(CastTo(b.v.n, col))))

PgRowToJson(s) ==
  CASE s.sql = "bool" -> JBool(s.v.n)
    [] s.sql \in Accepts["I64"] -> JNum(s.v.n)
    [] s.sql \in Accepts["F64"] /\ Finite(s.v) -> JReal(s.v.n)
    [] s.sql \in Accepts["Str"] -> JStr(s.v.kids[1])
    [] OTHER -> JNull

\* Numbers the ?s of a statement for Postgres: those in a string or in a line
\* comment stay. A statement is a sequence of "?", "'", "--", newlines and words.
RewritePlaceholders(sql) ==
  LET Step(acc, c) ==
        CASE acc.in = "comment" -> [acc EXCEPT !.in = IF c = "\n" THEN "code" ELSE @]
          [] acc.in # "comment" /\ c = "'" ->
               [acc EXCEPT !.in = IF @ = "code" THEN "string" ELSE "code"]
          [] acc.in = "code" /\ c = "--" -> [acc EXCEPT !.in = "comment"]
          [] acc.in = "code" /\ c = "?"  -> [acc EXCEPT !.n = @ + 1]
          [] OTHER -> acc
  IN  FoldLeft(Step, [in |-> "code", n |-> 0], sql).n
=============================================================================
