------------------------------- MODULE Values -------------------------------
(***************************************************************************)
(* The values a key can hold.  A number is a string that string2ll         *)
(* accepts; texts are told apart only so that a change of one is visible;  *)
(* an aggregate is a list, set, hash or sorted set.                        *)
(***************************************************************************)
EXTENDS Integers

CONSTANTS
  Texts,    \* the number of distinct non-numeric strings
  LLMax     \* LLONG_MAX; LLONG_MIN is -LLMax-1

ASSUME ValuesAssumption == Texts \in Nat \ {0} /\ LLMax \in Nat

LLMin   == -LLMax - 1
Numbers == {"num"} \X (LLMin .. LLMax)
Strings == Numbers \cup ({"text"} \X (0 .. Texts - 1))
Agg     == <<"agg", 0>>
Val     == Strings \cup {Agg}
Enc     == {"raw", "embstr", "int"}

IsString(v) == v[1] # "agg"
IsNumber(v) == v[1] = "num"

\* sdscatlen and the memcpy of SETRANGE: some text that depends on both.
Cat(v, w) == <<"text", (v[2] + w[2] + 1) % Texts>>

\* A signed 64-bit sum or product, which wraps in the generated code.
Wrap(n) == ((n + LLMax + 1) % (2 * (LLMax + 1))) - (LLMax + 1)

=============================================================================
