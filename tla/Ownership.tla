----------------------------- MODULE Ownership ------------------------------
(***************************************************************************)
(* What the C functions do with the memory they own: what they allocate,   *)
(* hand on, wipe and free on every path, the failing ones included.  The   *)
(* functions are programs, made of the steps of OwnershipSteps.  The state *)
(* is one call of an entry function: the programs under way, the pointers  *)
(* and the heap.                                                           *)
(***************************************************************************)
EXTENDS OwnershipSteps

CONSTANTS
    Entries,    \* entry name -> [body: program, keeps: pointers it hands out
                \*   when it succeeds, known: what the code is known to
                \*   mishandle on some path, <<"misuse", "leak" or "expose", name>>]
    MaxObjects  \* bound: allocations in a call of an entry

VARIABLES
    entry,  \* the entry function that is called, what it keeps and what is known of it
    stack,  \* programs under way, the innermost first
    ptr,    \* pointer -> object, for the pointers that were ever set
    heap,   \* sequence of objects: name, state and whether key material is in it
    misused \* pointers used when unset or freed, or freed twice

vars == <<entry, stack, ptr, heap, misused>>

----------------------------------------------------------------------------
NULL == 0
Points(x) == IF x \in DOMAIN ptr THEN ptr[x] ELSE NULL
Set(x, o) == x :> o @@ ptr

Called(functions) ==
    \E f \in DOMAIN functions :
      /\ entry = [name |-> f, keeps |-> functions[f].keeps, known |-> functions[f].known]
      /\ stack = <<[todo |-> functions[f].body, ok |-> TRUE]>>

Init ==
    /\ Called(Entries)
    /\ ptr = <<>>
    /\ heap = <<>>
    /\ misused = {}

Top == Head(stack)
Now == Head(Top.todo)
Rest == Tail(Top.todo)
At(op) == Top.todo # <<>> /\ Now.op = op
Ended == Len(stack) = 1 /\ Top.todo = <<>>

Continue(todo) == stack' = <<[Top EXCEPT !.todo = todo]>> \o Tail(stack)
FailStep == stack' = <<[todo |-> Now.fail, ok |-> FALSE]>> \o Tail(stack)
Branch(p) == Continue(Else(p, Now.fail) \o Rest)
Misuse(x) == misused' = misused \cup {x}

Usable(o) == o # NULL /\ heap[o].state \in {"live", "given"}
Touch(x) == IF x = "" \/ Usable(Points(x)) THEN UNCHANGED misused ELSE Misuse(x)

DoTry ==
    /\ At("try")
    /\ Continue(Rest) \/ FailStep
    /\ Touch(Now.x)
    /\ UNCHANGED <<entry, ptr, heap>>

DoFail ==
    /\ At("fail") /\ FailStep
    /\ UNCHANGED <<entry, ptr, heap, misused>>

DoGet ==
    /\ At("get") \/ At("maybe")
    /\ \/ /\ Len(heap) < MaxObjects
          /\ heap' = Append(heap, [name |-> Now.x, state |-> "live", key |-> FALSE])
          /\ ptr' = Set(Now.x, Len(heap) + 1)
          /\ Continue(Rest)
       \/ /\ ptr' = Set(Now.x, NULL)
          /\ IF Now.op = "get" THEN FailStep ELSE Continue(Rest)
          /\ UNCHANGED heap
    /\ UNCHANGED <<entry, misused>>

DoUse ==
    /\ At("use") \/ At("fill")
    /\ heap' = IF Now.op = "fill" /\ Usable(Points(Now.x))
                 THEN [heap EXCEPT ![Points(Now.x)].key = TRUE] ELSE heap
    /\ Touch(Now.x)
    /\ Continue(Rest)
    /\ UNCHANGED <<entry, ptr>>

DoWipe ==
    LET o == Points(Now.x) IN
    /\ At("wipe")
    /\ heap' = IF Usable(o) THEN [heap EXCEPT ![o].key = FALSE] ELSE heap
    /\ IF o = NULL THEN UNCHANGED misused ELSE Touch(Now.x)
    /\ Continue(Rest)
    /\ UNCHANGED <<entry, ptr>>

\* Key material that is not wiped before it is freed stays exposed.
DoFree ==
    LET o == Points(Now.x) IN
    /\ At("free")
    /\ IF o # NULL /\ heap[o].state = "live"
         THEN /\ heap' = [heap EXCEPT ![o].state = IF heap[o].key THEN "exposed" ELSE "freed"]
              /\ UNCHANGED misused
         ELSE /\ UNCHANGED heap
              /\ IF o = NULL THEN UNCHANGED misused ELSE Misuse(Now.x)
    /\ ptr' = IF Now.y = "null" THEN Set(Now.x, NULL) ELSE ptr
    /\ Continue(Rest)
    /\ UNCHANGED entry

DoGive ==
    LET o == Points(Now.x) IN
    /\ At("give")
    /\ heap' = IF o = NULL THEN heap ELSE [heap EXCEPT ![o].state = "given"]
    /\ Continue(Rest)
    /\ UNCHANGED <<entry, ptr, misused>>

DoMove ==
    /\ At("move") \/ At("null")
    /\ ptr' = IF Now.op = "move" THEN (Now.x :> NULL) @@ Set(Now.y, Points(Now.x)) ELSE Set(Now.x, NULL)
    /\ Continue(Rest)
    /\ UNCHANGED <<entry, heap, misused>>

DoBranch ==
    /\ \/ At("oneof") /\ \E i \in DOMAIN Now.p : Branch(Now.p[i])
       \/ At("ifset") /\ Branch(IF Points(Now.x) # NULL THEN Now.p ELSE Now.q)
       \/ At("onfail") /\ Branch(IF Top.ok THEN <<>> ELSE Now.p)
    /\ UNCHANGED <<entry, ptr, heap, misused>>

DoCall ==
    /\ At("call") \/ At("ignore")
    /\ stack' = <<[todo |-> Now.p, ok |-> TRUE]>> \o stack
    /\ UNCHANGED <<entry, ptr, heap, misused>>

DoLeave ==
    /\ \/ At("leave") /\ Continue(Now.fail)
       \/ At("return") /\ Continue(<<>>)
    /\ UNCHANGED <<entry, ptr, heap, misused>>

\* A program ends: the step that called it succeeds or fails with it.
DoReturn ==
    /\ Len(stack) > 1 /\ Top.todo = <<>>
    /\ LET caller == stack[2]  s == Head(caller.todo) IN
       stack' = <<IF Top.ok \/ s.op = "ignore"
                    THEN [caller EXCEPT !.todo = Tail(@)]
                    ELSE [todo |-> s.fail, ok |-> FALSE]>>
                \o SubSeq(stack, 3, Len(stack))
    /\ UNCHANGED <<entry, ptr, heap, misused>>

Next ==
    \/ DoTry \/ DoFail \/ DoGet \/ DoUse \/ DoWipe \/ DoFree \/ DoGive
    \/ DoMove \/ DoBranch \/ DoCall \/ DoLeave \/ DoReturn

Spec == Init /\ [][Next]_vars

----------------------------------------------------------------------------
\* On no path of a function is a pointer used that is not set or whose object
\* was freed, and no object is freed twice or freed by one who gave it away.
MemoryUsedWell == \A x \in misused : <<"misuse", x>> \in entry.known

\* When an entry function has returned, what is still allocated is what it
\* hands out: a failing path frees all that was allocated before the failure,
\* and keeps nothing.
NothingLeaks ==
    Ended =>
      \A o \in DOMAIN heap : heap[o].state = "live" =>
        \/ Top.ok /\ \E x \in entry.keeps : Points(x) = o
        \/ <<"leak", heap[o].name>> \in entry.known

\* Memory that held a plain key is wiped before it is given back, on the
\* failing paths too.
KeyMaterialWiped ==
    \A o \in DOMAIN heap :
      heap[o].state = "exposed" => <<"expose", heap[o].name>> \in entry.known
=============================================================================
