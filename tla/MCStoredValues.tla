---------------------------- MODULE MCStoredValues ----------------------------
(* A small instance of StoredValues: integers from -4 to 3, floats that are   *)
(* exact to the half up to 1 and finite up to 6, and a clock of half seconds  *)
(* that crosses the epoch.                                                    *)
EXTENDS StoredValues

MCKeys == {<<1>>}

Text(form, n, json, sign) ==
  [form |-> form, n |-> n, json |-> json, sign |-> sign, plain |-> TRUE, fits |-> TRUE]

MCBodies == {
  Text("int", 2, FALSE, TRUE),      \* "+1"
  Text("int", -8, TRUE, TRUE),      \* "-4", the least integer
  Text("int", 6, TRUE, FALSE),      \* "3", the largest integer, not a float
  Text("int", 8, TRUE, FALSE),      \* "4", an integer literal that overflows
  Text("float", 1, FALSE, TRUE),    \* "+0.5"
  Text("float", 11, FALSE, TRUE),   \* "+5.5", rounded to 6
  Text("infinite", 0, FALSE, TRUE), \* "+inf"
  Text("text", 0, TRUE, FALSE),     \* "{}"
  Text("text", 0, FALSE, FALSE),    \* "{"
  [Text("text", 0, TRUE, FALSE) EXCEPT !.plain = FALSE],  \* "{}" after a no-break space
  [Text("text", 0, FALSE, FALSE) EXCEPT !.fits = FALSE],  \* 16 KiB and a byte
  Text("bytes", 0, FALSE, FALSE)}

MCContentTypes == {"json", "text", Absent}
MCTtls         == {Absent, 0, 2, 3}
MCDefaultTtls  == {Absent, 1}
MinusThree     == -3
MinusEight     == -8
=============================================================================
