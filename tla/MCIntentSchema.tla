--------------------------- MODULE MCIntentSchema ---------------------------
(* Values for model checking IntentSchema.  Integers are five bits wide    *)
(* and a mega is 3, a giga 7, so that a speed text can fit, exceed what a  *)
(* signed integer holds, exceed what an unsigned one holds, and exceed     *)
(* what the parser reads, as with 64 bits.                                 *)
EXTENDS IntentSchema

MCUnit == [u \in {"", "m", "g"} |-> CASE u = "" -> 1 [] u = "m" -> 3 [] u = "g" -> 7]

MCJson ==
    {Null, Empty, Good, Text("default"), Text("zero"), Text("bad"), Text("long"),
     Bool(TRUE), Bool(FALSE),
     Num(-1), Num(0), Num(1), Num(MaxUint32), Num(MaxUint32 + 1), Num(MaxInt64),
     Array(<<>>), Array(<<Good, Good>>), Object(<<>>), Object(<<Null>>)}
    \cup {Array(<<v>>) : v \in {Null, Empty, Good, Text("bad"), Text("long"), Object(<<>>)}}
    \cup {Speed(n, u) : n \in {0, 2, 3, 5, 6}, u \in {"", "m", "g"}}

MCVersions == ({1} \X (0 .. 4)) \cup {<<2, 0>>}
=============================================================================
