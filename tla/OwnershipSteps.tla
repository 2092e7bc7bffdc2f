--------------------------- MODULE OwnershipSteps ---------------------------
(***************************************************************************)
(* The steps of which the functions that own memory are made; what they do *)
(* is in Ownership.  A function is a program, a sequence of steps; a step  *)
(* that can fail carries the steps its function still takes when it does   *)
(* (a "break" to the end of the block, the lines before a "return").  A    *)
(* pointer is a name; a field of a structure has a name of its own.  The   *)
(* data that passes through is left out: a branch on data goes either way, *)
(* and a call that can fail does or does not.                              *)
(***************************************************************************)
EXTENDS Naturals, Sequences, TLC

Step(op, x, y, p, q) == [op |-> op, x |-> x, y |-> y, p |-> p, q |-> q, fail |-> <<>>]

Try          == Step("try", "", "", <<>>, <<>>)      \* may fail
With(x)      == Step("try", x, "", <<>>, <<>>)       \* a call on x that may fail
Fail         == Step("fail", "", "", <<>>, <<>>)     \* fails
Get(x)       == Step("get", x, "", <<>>, <<>>)       \* allocates x, or fails
Maybe(x)     == Step("maybe", x, "", <<>>, <<>>)     \* allocates x, or sets it to NULL
Use(x)       == Step("use", x, "", <<>>, <<>>)       \* reads or writes through x
Fill(x)      == Step("fill", x, "", <<>>, <<>>)      \* writes key material into x
Wipe(x)      == Step("wipe", x, "", <<>>, <<>>)      \* memset_s, when x is set
Free(x)      == Step("free", x, "null", <<>>, <<>>)  \* HKS_FREE: frees and clears x
Release(x)   == Step("free", x, "keep", <<>>, <<>>)  \* frees, x stays as it is
Give(x)      == Step("give", x, "", <<>>, <<>>)      \* another object owns x from now on
Move(x, y)   == Step("move", x, y, <<>>, <<>>)       \* y = x; x = NULL
Null(x)      == Step("null", x, "", <<>>, <<>>)      \* x = NULL
Call(p)      == Step("call", "", "", p, <<>>)        \* fails when p does
Ignore(p)    == Step("ignore", "", "", p, <<>>)      \* the result is not looked at
OneOf(ps)    == Step("oneof", "", "", ps, <<>>)      \* a branch on data
IfSet(x, p, q) == Step("ifset", x, "", p, q)         \* if (x != NULL) p else q
OnFail(p)    == Step("onfail", "", "", p, <<>>)      \* if (ret != HKS_SUCCESS)
Leave        == Step("leave", "", "", <<>>, <<>>)    \* break, with success
Return       == Step("return", "", "", <<>>, <<>>)   \* return HKS_SUCCESS

Either(p, q) == OneOf(<<p, q>>)
May(p)       == OneOf(<<p, <<>>>>)
Need(x)      == IfSet(x, <<>>, <<Fail>>)             \* HKS_IF_NULL_RETURN

\* When one of the steps fails, the function goes on with end.
Else(steps, end) == [i \in DOMAIN steps |-> [steps[i] EXCEPT !.fail = @ \o end]]
\* do { steps } while (0); end
Do(steps, end) == Else(steps, end) \o end

Each(step(_), xs) == [i \in DOMAIN xs |-> step(xs[i])]
\* BN_bin2bn of a private number: x, when it is allocated, holds the key.
MaybeKey(x) == <<Maybe(x), IfSet(x, <<Fill(x)>>, <<>>)>>
\* HKS_MEMSET_FREE_BLOB
WipeFree(x) == <<Wipe(x), Free(x)>>
=============================================================================
