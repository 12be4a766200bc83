------------------------------ MODULE PteTests ------------------------------
(***************************************************************************)
(* The nine test programs, test1 to test9: each allocates pages, makes a   *)
(* series of metadata calls and leaves with a failure at the first result  *)
(* it did not want.  Filling and verifying the pages' contents and the     *)
(* timing are left out.                                                    *)
(***************************************************************************)
EXTENDS PteMeta

CONSTANT Iterations  \* of test9, 10000 in the code

ASSUME TestAssumption == Iterations \in Nat

VARIABLES
  test,     \* the program
  base,     \* its first page
  step,     \* the call it is at
  verdict   \* "running", "passed" or "failed"

testVars == <<test, base, step, verdict>>

CallOn(call, page, value, want) == [call |-> call, page |-> page, value |-> value, want |-> want]
EnableOf(page) == CallOn("enable", page, Unset, "ok")
DisableOf(page) == CallOn("disable", page, Unset, "ok")
SetAndGet(page, value) == <<CallOn("set", page, value, "ok"), CallOn("get", page, value, "ok")>>

\* No metadata at all
Test1 == <<>>

\* A direct and a structured value
Test2 == <<EnableOf(0)>> \o SetAndGet(0, 1) \o <<DisableOf(0)>>
Test3 == <<EnableOf(0)>> \o SetAndGet(0, 2) \o <<DisableOf(0)>>

\* Get from a table that is not expanded
Test4 == <<CallOn("get", 0, Unset, "ENODATA")>>

\* Four pages with a value each; only the first one's table is enabled and disabled
TestPages == 4
Test5 ==
  LET each(call) == [i \in 1..TestPages |-> CallOn(call, i - 1, i, "ok")]
  IN <<EnableOf(0)>> \o each("set") \o each("get") \o <<DisableOf(0)>>

\* Three cycles, then the error of a second enable
Test6 ==
  LET cycle == <<EnableOf(0), DisableOf(0)>>
  IN cycle \o cycle \o cycle
     \o <<EnableOf(0), CallOn("enable", 0, Unset, "EEXIST"), DisableOf(0)>>

\* Disable without enable
Test7 == <<CallOn("disable", 0, Unset, "EINVAL")>>

\* Set without enable, and once more with another value
Test8 == SetAndGet(0, 1) \o SetAndGet(0, 2) \o <<DisableOf(0)>>

\* A new value in each iteration
Test9 ==
  LET iteration == [i \in 1..2 * Iterations |->
                      CallOn(IF i % 2 = 1 THEN "set" ELSE "get", 0, (i + 1) \div 2, "ok")]
  IN <<EnableOf(0)>> \o iteration \o <<DisableOf(0)>>

Script == <<Test1, Test2, Test3, Test4, Test5, Test6, Test7, Test8, Test9>>

\* posix_memalign can return any page, also the last one of its table
TestsInit ==
  /\ test \in DOMAIN Script /\ base \in 0..NumPages - TestPages
  /\ step = 1 /\ verdict = "running"

\* call_or_die and the checks of a result
MakeCall ==
  /\ verdict = "running" /\ step \in DOMAIN Script[test]
  /\ LET c == Script[test][step]
         p == base + c.page
     IN \E r \in {"ok", "EEXIST", "EINVAL", "ENODATA", "refused"}, v \in {c.value, meta[p], Unset} :
          /\ CASE c.call = "enable" -> Enable(p, r)
               [] c.call = "disable" -> Disable(p, r)
               [] c.call = "set" -> v = c.value /\ Set(p, v, r)
               [] OTHER -> Get(p, v, r)
          /\ verdict' = IF r = c.want /\ (c.call = "get" => v = c.value) THEN verdict ELSE "failed"
  /\ step' = step + 1
  /\ UNCHANGED <<test, base>>

Exit ==
  /\ verdict = "running" /\ step = Len(Script[test]) + 1
  /\ verdict' = "passed"
  /\ UNCHANGED <<test, base, step, pteVars>>

TestsNext == MakeCall \/ Exit

TestsTypeOK ==
  /\ test \in DOMAIN Script /\ base \in Pages
  /\ step \in 1..Len(Script[test]) + 1
  /\ verdict \in {"running", "passed", "failed"}

\* Wherever its pages lie, and so also if they lie in two page tables, a test
\* program gets every result it wants unless the kernel refuses a call.
TestsPass == verdict = "failed" => refused

=============================================================================
