------------------------- MODULE OAuthRefreshProofs -------------------------
(***************************************************************************)
(* Proofs about OAuthRefresh, for any number of workers, requests and      *)
(* instances, and any number of expiries, faults and operations of the     *)
(* administrator.                                                          *)
(***************************************************************************)
EXTENDS OAuthRefresh, SequenceTheorems, TLAPS

-----------------------------------------------------------------------------
(* What is left of a call                                                  *)

Calls == {"reread", "refresh", "recover", "persist"}
Ends == {"unlock", "leave"}
Outcomes == {"failed", "reject", "renewed", "take", "expired"}
Singles == {"ask", "enter"} \cup Outcomes \cup Ends

\* A caller is outside, at one call with its locks held, or about to give them back
\* with or without something to do afterwards.
IsPlan(s) ==
    \/ s = <<>>
    \/ \E x \in Singles : s = <<x>>
    \/ \E x \in Calls, e \in Ends : s = <<x, e>>
    \/ \E e \in Ends, y \in Outcomes : s = <<e, y>>

Has(s, call) == \E n \in DOMAIN s : s[n] = call

LEMMA HasNone == ASSUME NEW x PROVE ~Has(<<>>, x)
BY DEF Has

LEMMA HasOne == ASSUME NEW a, NEW x PROVE Has(<<a>>, x) <=> a = x
BY DEF Has

LEMMA HasTwo == ASSUME NEW a, NEW b, NEW x PROVE Has(<<a, b>>, x) <=> a = x \/ b = x
<1>1. DOMAIN <<a, b>> = {1, 2} /\ <<a, b>>[1] = a /\ <<a, b>>[2] = b
  OBVIOUS
<1> QED
  BY <1>1 DEF Has

LEMMA HoldsHas == ASSUME NEW c PROVE Holds(c) <=> Has(todo[c], "unlock")
BY DEF Holds, Has

LEMMA PlanLength == ASSUME NEW s, IsPlan(s) PROVE Len(s) <= 3
<1>1. \A x, y : Len(<<x>>) = 1 /\ Len(<<x, y>>) = 2
  OBVIOUS
<1>2. Len(<<>>) = 0
  OBVIOUS
<1>3. CASE s = <<>>
  BY <1>2, <1>3
<1>4. CASE \E x : s = <<x>>
  BY <1>1, <1>4
<1>5. CASE \E x, y : s = <<x, y>>
  BY <1>1, <1>5
<1> QED
  BY <1>3, <1>4, <1>5 DEF IsPlan

LEMMA AtNothing == ASSUME NEW c, NEW call, todo[c] = <<>> PROVE ~At(c, call)
BY DEF At

LEMMA AtOne == ASSUME NEW c, NEW call, NEW a, todo[c] = <<a>> PROVE At(c, call) <=> a = call
BY DEF At

LEMMA AtTwo ==
    ASSUME NEW c, NEW call, NEW a, NEW b, todo[c] = <<a, b>>
    PROVE  At(c, call) <=> a = call
<1>1. Head(<<a, b>>) = a /\ <<a, b>> # <<>>
  OBVIOUS
<1> QED
  BY <1>1 DEF At

\* Where a caller is tells what is left.
LEMMA AtCall ==
    ASSUME NEW c, IsPlan(todo[c]), NEW call \in Calls, At(c, call)
    PROVE  \E e \in Ends : todo[c] = <<call, e>>
BY AtNothing, AtOne, AtTwo DEF IsPlan, Calls, Ends, Outcomes, Singles

LEMMA AtEnd ==
    ASSUME NEW c, IsPlan(todo[c]), NEW e \in Ends, At(c, e)
    PROVE  todo[c] = <<e>> \/ \E y \in Outcomes : todo[c] = <<e, y>>
BY AtNothing, AtOne, AtTwo DEF IsPlan, Calls, Ends, Outcomes, Singles

LEMMA AtSingle ==
    ASSUME NEW c, IsPlan(todo[c]), NEW x \in {"ask", "enter"} \cup Outcomes, At(c, x)
    PROVE  todo[c] = <<x>>
BY AtNothing, AtOne, AtTwo DEF IsPlan, Calls, Ends, Outcomes, Singles

LEMMA GoOn ==
    ASSUME NEW c, NEW call, NEW x, NEW e, todo[c] = <<x, e>>, Go(c, call)
    PROVE  Then(c, <<call, e>>)
BY DEF Go

LEMMA ReturnsNothing ==
    ASSUME NEW c, NEW x, NEW e, todo[c] = <<x, e>>, Return(c, <<>>)
    PROVE  Then(c, <<e>>)
<1>1. <<todo[c][2]>> = <<e>> /\ <<e>> \o <<>> = <<e>>
  OBVIOUS
<1> QED
  BY <1>1 DEF Return

LEMMA ReturnsOutcome ==
    ASSUME NEW c, NEW x, NEW e, NEW y, todo[c] = <<x, e>>, Return(c, <<y>>)
    PROVE  Then(c, <<e, y>>)
<1>1. <<e>> \o <<y>> = <<e, y>>
  <2> DEFINE S == {e, y}
  <2>1. <<e>> \in Seq(S) /\ <<y>> \in Seq(S) /\ <<e, y>> \in Seq(S)
    OBVIOUS
  <2>2. Len(<<e>>) = 1 /\ Len(<<y>>) = 1 /\ Len(<<e, y>>) = 2
    OBVIOUS
  <2>3. <<e>>[1] = e /\ <<y>>[1] = y /\ <<e, y>>[1] = e /\ <<e, y>>[2] = y
    OBVIOUS
  <2> HIDE DEF S
  <2>4. (<<e>> \o <<y>>) \in Seq(S) /\ Len(<<e>> \o <<y>>) = 2
    BY <2>1, <2>2, ConcatProperties
  <2>5. (<<e>> \o <<y>>)[1] = e /\ (<<e>> \o <<y>>)[2] = y
    BY <2>1, <2>2, <2>3, ConcatProperties
  <2> DEFINE t == <<e>> \o <<y>>
             u == <<e, y>>
  <2>6. t \in Seq(S) /\ u \in Seq(S) /\ Len(t) = 2 /\ Len(u) = 2 /\ t[1] = u[1] /\ t[2] = u[2]
    BY <2>1, <2>2, <2>3, <2>4, <2>5
  <2>7. t = u
    <3> HIDE DEF t, u
    <3>1. \A i \in 1 .. Len(t) : t[i] = u[i]
      BY <2>6
    <3> QED
      BY <2>6, <3>1, SeqEqual
  <2> QED
    BY <2>7
<1>2. <<todo[c][2]>> = <<e>>
  OBVIOUS
<1> QED
  BY <1>1, <1>2 DEF Return

LEMMA TailOf ==
    ASSUME NEW e, NEW y
    PROVE  Tail(<<e>>) = <<>> /\ Tail(<<e, y>>) = <<y>>
OBVIOUS

-----------------------------------------------------------------------------
(* The inductive invariant                                                 *)

Creds == [gen : Nat, grant : Nat]
Accounts == [cred : Creds, active : BOOLEAN, schedulable : BOOLEAN]
Ops == {"idle", "edit", "reauthorise", "refresh", "clear"}

\* Generations have been issued, and nothing is known of the ones to come.
TypeInv ==
    /\ row \in Accounts
    /\ issued \in Nat
    /\ row.cred.gen \in 1 .. issued
    /\ valid \subseteq 1 .. issued
    /\ aged \in 0 .. issued
    /\ lock \in Callers \cup {NoOne}
    /\ local \in [Instances -> Callers \cup {NoOne}]
    /\ used \in [Callers -> Creds]
    /\ got \in [Callers -> Nat]

CallerInv ==
    /\ todo = [c \in Callers |-> todo[c]]
    /\ \A c \in Callers :
         /\ IsPlan(todo[c])
         /\ used[c].gen \in 1 .. issued
         /\ Has(todo[c], "persist") => got[c] \in 1 .. issued

\* Inside RefreshIfNeeded a caller has its instance's mutex.
MutexInv ==
    \A c \in Callers :
        Has(todo[c], "unlock") \/ Has(todo[c], "leave") => local[Home[c]] = c

\* The token of a caller that was rejected stays rejected, and the access token that
\* a request has found to be over stays over.
RejectedInv ==
    \A c \in Callers :
        /\ Has(todo[c], "recover") \/ Has(todo[c], "reject") => used[c].gen \notin valid
        /\ Has(todo[c], "expired") => NeedsRefresh(used[c])

\* The administrator is one: nobody else gives the account a new grant or makes it
\* active between a read and its write.
AdminInv ==
    /\ admin \in [op : Ops, acc : Accounts, gen : Nat]
    /\ admin.acc.cred.gen \in 1 .. issued
    /\ admin.op = "refresh" => admin.gen \in 1 .. issued
    /\ admin.op \in {"edit", "reauthorise", "refresh"} =>
         /\ grok => admin.acc.cred.grant = row.cred.grant
         /\ row.active => admin.acc.active

\* While nothing has broken the discipline, the caller inside has the lock, so it is
\* alone; the token it is going to present is valid; and so is the stored one, until
\* the one inside has exchanged it, and then the answer it holds is.
OnceInv ==
    ~excused =>
        /\ \A c \in Callers :
             /\ ~Has(todo[c], "leave")
             /\ ~Has(todo[c], "recover")
             /\ Has(todo[c], "unlock") => lock = c
             /\ Has(todo[c], "refresh") =>
                  /\ used[c].gen \in valid
                  /\ row.cred.gen = used[c].gen => row.cred = used[c]
             /\ Has(todo[c], "persist") => got[c] \in valid
        /\ \/ row.cred.gen \in valid
           \/ \E c \in Callers : Has(todo[c], "persist") /\ row.cred = used[c]

IInv == TypeInv /\ CallerInv /\ MutexInv /\ RejectedInv /\ AdminInv /\ OnceInv

LEMMA Initially == Init => IInv
<1> SUFFICES ASSUME Init PROVE IInv
  OBVIOUS
<1> USE DEF Init, Idle, First
<1>1. row \in Accounts /\ issued = 1 /\ row.cred.gen = 1 /\ row.cred = First
  BY DEF Accounts, Creds
<1>2. TypeInv
  BY <1>1, OAuthRefreshAssumption DEF TypeInv, Creds
<1>3. \A c \in Callers : todo[c] = <<>> \/ todo[c] = <<"ask">>
  OBVIOUS
<1>4. \A c \in Callers, x \in Calls \cup Ends \cup Outcomes : ~Has(todo[c], x)
  BY <1>3, HasNone, HasOne DEF Calls, Ends, Outcomes
<1>5. CallerInv
  BY <1>3, <1>4 DEF CallerInv, IsPlan, Singles, Calls
<1>6. AdminInv
  BY DEF AdminInv, Ops, Accounts, Creds
<1>7. MutexInv /\ RejectedInv /\ OnceInv
  BY <1>1, <1>4 DEF MutexInv, RejectedInv, OnceInv, Calls, Ends, Outcomes
<1> QED
  BY <1>2, <1>5, <1>6, <1>7 DEF IInv

LEMMA Moved ==
    ASSUME CallerInv, NEW c \in Callers, NEW s, Then(c, s)
    PROVE  /\ todo' = [d \in Callers |-> todo'[d]]
           /\ todo'[c] = s
           /\ \A d \in Callers \ {c} : todo'[d] = todo[d]
BY DEF CallerInv, Then

\* A step of c that touches neither the account nor the provider nor a lock: c
\* has no more in hand than before, unless what it presented was rejected.
LEMMA Quiet ==
    ASSUME IInv, NEW c \in Callers, NEW s, Then(c, s), IsPlan(s),
           \A x \in Ends \cup {"refresh", "recover"} : Has(s, x) => Has(todo[c], x),
           Has(s, "persist") <=> Has(todo[c], "persist"),
           Has(s, "reject") => used[c].gen \notin valid,
           Has(s, "expired") => Has(todo[c], "expired"),
           UNCHANGED <<grok, row, valid, issued, aged, lock, local, used, got, admin>>,
           excused => excused'
    PROVE  IInv'
<1>1. CallerInv
  BY DEF IInv
<1>2. /\ todo' = [d \in Callers |-> todo'[d]]
      /\ todo'[c] = s
      /\ \A d \in Callers \ {c} : todo'[d] = todo[d]
  BY <1>1, Moved
<1>3. TypeInv'
  BY DEF IInv, TypeInv
<1>4. CallerInv'
  BY <1>2 DEF IInv, CallerInv
<1>5. MutexInv'
  BY <1>2 DEF IInv, MutexInv, Ends
<1>6. RejectedInv'
  BY <1>2 DEF IInv, RejectedInv, NeedsRefresh
<1>7. AdminInv'
  BY DEF IInv, AdminInv
<1>8. OnceInv'
  <2> SUFFICES ASSUME ~excused' PROVE OnceInv'
    BY DEF OnceInv
  <2>1. OnceInv /\ ~excused
    BY DEF IInv
  <2>2. ASSUME NEW d \in Callers
        PROVE  /\ ~Has(todo'[d], "leave")
               /\ ~Has(todo'[d], "recover")
               /\ Has(todo'[d], "unlock") => lock' = d
               /\ Has(todo'[d], "refresh") =>
                    /\ used'[d].gen \in valid'
                    /\ row'.cred.gen = used'[d].gen => row'.cred = used'[d]
               /\ Has(todo'[d], "persist") => got'[d] \in valid'
    BY <1>2, <2>1 DEF OnceInv, Ends
  <2>3. \/ row'.cred.gen \in valid'
        \/ \E d \in Callers : Has(todo'[d], "persist") /\ row'.cred = used'[d]
    BY <1>2, <2>1 DEF OnceInv
  <2> QED
    BY <2>2, <2>3 DEF OnceInv
<1> QED
  BY <1>3, <1>4, <1>5, <1>6, <1>7, <1>8 DEF IInv

\* RefreshIfNeeded returns with an outcome or none: the locks are still to be given
\* back, and nothing else of the attempt is left.
After(c, s) ==
    /\ IsPlan(s)
    /\ \A x \in Ends : Has(s, x) <=> Has(todo[c], x)
    /\ \A x \in Calls \cup {"expired"} : ~Has(s, x)

LEMMA ReturnedNothing ==
    ASSUME NEW c, IsPlan(todo[c]), NEW call \in Calls, At(c, call), Return(c, <<>>)
    PROVE  \E s : Then(c, s) /\ After(c, s) /\ ~Has(s, "reject")
<1>1. PICK e \in Ends : todo[c] = <<call, e>>
  BY AtCall
<1>2. Then(c, <<e>>)
  BY <1>1, ReturnsNothing
<1>3. After(c, <<e>>) /\ ~Has(<<e>>, "reject")
  BY <1>1, HasOne, HasTwo DEF After, IsPlan, Singles, Calls, Ends
<1> QED
  BY <1>2, <1>3

LEMMA ReturnedOutcome ==
    ASSUME NEW c, IsPlan(todo[c]), NEW call \in Calls, At(c, call),
           NEW y \in Outcomes \ {"expired"}, Return(c, <<y>>)
    PROVE  \E s : Then(c, s) /\ After(c, s) /\ (Has(s, "reject") => y = "reject")
<1>1. PICK e \in Ends : todo[c] = <<call, e>>
  BY AtCall
<1>2. After(c, <<e, y>>) /\ (Has(<<e, y>>, "reject") => y = "reject")
  BY <1>1, HasTwo DEF After, IsPlan, Calls, Ends, Outcomes
<1>3. Then(c, <<e, y>>)
  BY <1>1, ReturnsOutcome
<1> QED
  BY <1>2, <1>3

\* The next call of an attempt
LEMMA WentOn ==
    ASSUME NEW c, IsPlan(todo[c]), NEW call \in Calls, At(c, call), NEW x \in Calls, Go(c, x)
    PROVE  \E s : /\ Then(c, s) /\ IsPlan(s)
                  /\ \A z \in Ends : Has(s, z) <=> Has(todo[c], z)
                  /\ \A z \in Calls : Has(s, z) <=> z = x
                  /\ ~Has(s, "reject") /\ ~Has(s, "expired")
<1>1. PICK e \in Ends : todo[c] = <<call, e>>
  BY AtCall
<1>2. Then(c, <<x, e>>)
  BY <1>1, GoOn
<1>3. /\ IsPlan(<<x, e>>)
      /\ \A z \in Ends : Has(<<x, e>>, z) <=> Has(todo[c], z)
      /\ \A z \in Calls : Has(<<x, e>>, z) <=> z = x
      /\ ~Has(<<x, e>>, "reject") /\ ~Has(<<x, e>>, "expired")
  BY <1>1, HasTwo DEF IsPlan, Calls, Ends
<1> QED
  BY <1>2, <1>3

\* A caller at a call has that call and one of the two ends left.
LEMMA CallHas ==
    ASSUME NEW c, IsPlan(todo[c]), NEW call \in Calls, At(c, call)
    PROVE  /\ \A z \in Calls : Has(todo[c], z) <=> z = call
           /\ Has(todo[c], "unlock") \/ Has(todo[c], "leave")
           /\ ~Has(todo[c], "reject") /\ ~Has(todo[c], "expired")
<1>1. PICK e \in Ends : todo[c] = <<call, e>>
  BY AtCall
<1> QED
  BY <1>1, HasTwo DEF Calls, Ends

\* Without a lock to give back, no call is left.
LEMMA NoCallOutside ==
    ASSUME NEW s, IsPlan(s), ~Has(s, "unlock"), ~Has(s, "leave"), NEW z \in Calls
    PROVE  ~Has(s, z)
<1>1. CASE s = <<>>
  BY <1>1, HasNone
<1>2. CASE \E x \in Singles : s = <<x>>
  BY <1>2, HasOne DEF Singles, Calls, Ends, Outcomes
<1>3. CASE \E x, e, y : e \in Ends /\ (s = <<x, e>> \/ s = <<e, y>>)
  BY <1>3, HasTwo DEF Ends
<1> QED
  BY <1>1, <1>2, <1>3 DEF IsPlan

LEMMA PersistAt ==
    ASSUME NEW c, IsPlan(todo[c]), Has(todo[c], "persist")
    PROVE  At(c, "persist")
<1>1. CASE todo[c] = <<>>
  BY <1>1, HasNone
<1>2. CASE \E x \in Singles : todo[c] = <<x>>
  BY <1>2, HasOne DEF Singles, Ends, Outcomes
<1>3. CASE \E x \in Calls, e \in Ends : todo[c] = <<x, e>>
  BY <1>3, HasTwo, AtTwo DEF Ends
<1>4. CASE \E e \in Ends, y \in Outcomes : todo[c] = <<e, y>>
  BY <1>4, HasTwo DEF Ends, Outcomes
<1> QED
  BY <1>1, <1>2, <1>3, <1>4 DEF IsPlan

LEMMA OnePlan ==
    ASSUME NEW x \in Singles
    PROVE  IsPlan(<<x>>) /\ \A z : Has(<<x>>, z) <=> z = x
BY HasOne DEF IsPlan

LEMMA NoPlan == IsPlan(<<>>) /\ \A z : ~Has(<<>>, z)
BY HasNone DEF IsPlan

-----------------------------------------------------------------------------
(* One lemma for each operation                                            *)

\* List and Ask
LEMMA StepStart ==
    ASSUME IInv, NEW c \in Callers, todo[c] = <<>> \/ At(c, "ask"), Then(c, <<"enter">>),
           used' = [used EXCEPT ![c] = row.cred],
           UNCHANGED <<grok, row, valid, issued, aged, lock, local, got, admin, excused>>
    PROVE  IInv'
<1>1. CallerInv /\ IsPlan(todo[c])
  BY DEF IInv, CallerInv
<1>2. /\ todo' = [d \in Callers |-> todo'[d]]
      /\ todo'[c] = <<"enter">>
      /\ \A d \in Callers \ {c} : todo'[d] = todo[d]
  BY <1>1, Moved
<1>3. IsPlan(<<"enter">>) /\ \A z \in Calls \cup Ends \cup Outcomes : ~Has(<<"enter">>, z)
  BY OnePlan DEF Singles, Calls, Ends, Outcomes
<1>4. \A z \in Calls \cup Ends \cup Outcomes : ~Has(todo[c], z)
  <2>1. todo[c] = <<>> \/ todo[c] = <<"ask">>
    BY <1>1, AtSingle
  <2> QED
    BY <2>1, NoPlan, HasOne DEF Calls, Ends, Outcomes
<1>5. /\ used'[c] = row.cred
      /\ \A d \in Callers \ {c} : used'[d] = used[d]
      /\ used' \in [Callers -> Creds]
      /\ row.cred.gen \in 1 .. issued
  BY DEF IInv, TypeInv, Accounts
<1>6. TypeInv'
  BY <1>5 DEF IInv, TypeInv
<1>7. CallerInv'
  BY <1>2, <1>3, <1>5 DEF IInv, CallerInv, Calls
<1>8. MutexInv'
  BY <1>2, <1>3 DEF IInv, MutexInv, Ends
<1>9. RejectedInv'
  BY <1>2, <1>3, <1>5 DEF IInv, RejectedInv, NeedsRefresh, Outcomes, Calls
<1>10. AdminInv'
  BY DEF IInv, AdminInv
<1>11. OnceInv'
  BY <1>2, <1>3, <1>4, <1>5 DEF IInv, OnceInv, Calls, Ends
<1> QED
  BY <1>6, <1>7, <1>8, <1>9, <1>10, <1>11 DEF IInv

\* A caller that holds nothing leaves; the account may go out of service with it.
LEMMA StepLeave ==
    ASSUME IInv, NEW c \in Callers, NEW x \in {"enter"} \cup Outcomes, At(c, x), Leave(c),
           UNCHANGED <<grok, valid, issued, aged, lock, local, got, admin, excused>>,
           row' \in Accounts, row'.cred = row.cred, row'.active => row.active
    PROVE  IInv'
<1>1. CallerInv /\ todo[c] = <<x>>
  BY AtSingle DEF IInv, CallerInv
<1>2. /\ todo' = [d \in Callers |-> todo'[d]]
      /\ todo'[c] = <<>>
      /\ \A d \in Callers \ {c} : todo'[d] = todo[d]
  BY <1>1, Moved DEF Leave
<1>3. \A z \in Ends \cup Calls : ~Has(todo[c], z)
  BY <1>1, HasOne DEF Calls, Ends, Outcomes
<1>4. /\ used' \in [Callers -> Creds]
      /\ used'[c].gen \in 1 .. issued
      /\ \A d \in Callers \ {c} : used'[d] = used[d]
  <2>1. First \in Creds /\ First.gen = 1 /\ 1 \in 1 .. issued
    BY DEF First, Creds, IInv, TypeInv
  <2> QED
    BY <2>1 DEF Leave, IInv, TypeInv
<1>5. \A z : ~Has(todo'[c], z)
  BY <1>2, NoPlan
<1>6. TypeInv'
  BY <1>4 DEF IInv, TypeInv
<1>7. CallerInv'
  BY <1>2, <1>4, <1>5, NoPlan DEF IInv, CallerInv
<1>8. MutexInv'
  BY <1>2, <1>5 DEF IInv, MutexInv
<1>9. RejectedInv'
  BY <1>2, <1>4, <1>5 DEF IInv, RejectedInv, NeedsRefresh
<1>10. AdminInv'
  BY DEF IInv, AdminInv
<1>11. OnceInv'
  BY <1>2, <1>3, <1>4, <1>5 DEF IInv, OnceInv, Calls, Ends
<1> QED
  BY <1>6, <1>7, <1>8, <1>9, <1>10, <1>11 DEF IInv

LEMMA StepEnter == ASSUME IInv, NEW c \in Callers, Enter(c) PROVE IInv'
<1>1. CallerInv /\ todo[c] = <<"enter">>
  BY AtSingle DEF IInv, CallerInv, Enter
<1>2. \A z \in Calls \cup Ends \cup Outcomes : ~Has(todo[c], z)
  BY <1>1, HasOne DEF Calls, Ends, Outcomes
<1>3. Home[c] \in Instances /\ local[Home[c]] = NoOne
  BY OAuthRefreshAssumption DEF Enter, MutexFree
<1> DEFINE Entered(e) ==
      /\ local' = [local EXCEPT ![Home[c]] = c]
      /\ Then(c, <<"reread", e>>)
      /\ UNCHANGED <<grok, row, valid, issued, aged, used, got, admin>>
<1>4. ASSUME NEW e \in Ends, Entered(e), lock' \in {lock, c}
      PROVE  /\ TypeInv' /\ CallerInv' /\ MutexInv' /\ RejectedInv' /\ AdminInv'
             /\ \A d \in Callers \ {c} : todo'[d] = todo[d]
             /\ \A z \in Calls \ {"reread"} : ~Has(todo'[c], z)
             /\ \A z \in Ends : Has(todo'[c], z) <=> z = e
  <2>1. /\ todo' = [d \in Callers |-> todo'[d]]
        /\ todo'[c] = <<"reread", e>>
        /\ \A d \in Callers \ {c} : todo'[d] = todo[d]
    BY <1>1, <1>4, Moved
  <2>2. /\ IsPlan(todo'[c])
        /\ \A z \in Calls \ {"reread"} : ~Has(todo'[c], z)
        /\ \A z \in Ends : Has(todo'[c], z) <=> z = e
        /\ ~Has(todo'[c], "reject") /\ ~Has(todo'[c], "expired")
    BY <2>1, HasTwo DEF IsPlan, Calls, Ends
  <2>3. TypeInv'
    BY <1>4, <1>3 DEF IInv, TypeInv
  <2>4. CallerInv'
    BY <1>4, <2>1, <2>2 DEF IInv, CallerInv, Calls
  <2>5. MutexInv'
    <3> SUFFICES ASSUME NEW d \in Callers, Has(todo'[d], "unlock") \/ Has(todo'[d], "leave")
                 PROVE  local'[Home[d]] = d
      BY DEF MutexInv
    <3>1. CASE d = c
      BY <1>3, <1>4, <3>1 DEF IInv, TypeInv
    <3>2. CASE d # c
      <4>1. local[Home[d]] = d /\ Home[d] \in Instances /\ d # NoOne
        BY <2>1, <3>2, OAuthRefreshAssumption DEF IInv, MutexInv
      <4> QED
        BY <1>3, <1>4, <4>1 DEF IInv, TypeInv
    <3> QED
      BY <3>1, <3>2
  <2>6. RejectedInv'
    BY <1>4, <2>1, <2>2 DEF IInv, RejectedInv, NeedsRefresh, Calls
  <2>7. AdminInv'
    BY <1>4 DEF IInv, AdminInv
  <2> QED
    BY <2>1, <2>2, <2>3, <2>4, <2>5, <2>6, <2>7
<1>5. CASE /\ lock # NoOne /\ Leave(c)
           /\ UNCHANGED <<lock, local, faults, excused>>
  <2>1. row' = row /\ row \in Accounts /\ At(c, "enter")
    BY DEF Enter, accountVars, IInv, TypeInv
  <2> QED
    BY <1>5, <2>1, StepLeave DEF Enter, providerVars
<1>6. CASE /\ lock = NoOne /\ lock' = c /\ Entered("unlock")
           /\ UNCHANGED <<faults, excused>>
  <2> HIDE DEF Entered
  <2>1. /\ TypeInv' /\ CallerInv' /\ MutexInv' /\ RejectedInv' /\ AdminInv'
        /\ \A d \in Callers \ {c} : todo'[d] = todo[d]
        /\ \A z \in Calls \ {"reread"} : ~Has(todo'[c], z)
        /\ \A z \in Ends : Has(todo'[c], z) <=> z = "unlock"
    BY <1>4, <1>6 DEF Ends
  <2>2. UNCHANGED <<row, valid, used, got>>
    BY <1>6 DEF Entered
  <2>3. OnceInv'
    BY <1>2, <1>6, <2>1, <2>2, OAuthRefreshAssumption DEF IInv, OnceInv, Calls, Ends
  <2> QED
    BY <2>1, <2>3 DEF IInv
<1>7. CASE /\ Fault /\ excused' = TRUE /\ Entered("leave") /\ UNCHANGED lock
  <2> HIDE DEF Entered
  <2>1. TypeInv' /\ CallerInv' /\ MutexInv' /\ RejectedInv' /\ AdminInv'
    BY <1>4, <1>7 DEF Ends
  <2>2. OnceInv'
    BY <1>7 DEF OnceInv
  <2> QED
    BY <2>1, <2>2 DEF IInv
<1> QED
  BY <1>5, <1>6, <1>7 DEF Enter, accountVars, providerVars

\* A caller outside goes from one single call to another.
LEMMA StepOutside ==
    ASSUME IInv, NEW c \in Callers, NEW x \in {"enter"} \cup Outcomes, At(c, x),
           NEW s \in {<<"enter">>, <<"failed">>}, Then(c, s),
           UNCHANGED <<grok, row, valid, issued, aged, lock, local, used, got, admin, excused>>
    PROVE  IInv'
<1>1. todo[c] = <<x>>
  BY AtSingle DEF IInv, CallerInv
<1>2. IsPlan(s) /\ \A z \in Ends \cup Calls \cup {"reject", "expired"} : ~Has(s, z)
  BY OnePlan DEF Singles, Calls, Ends, Outcomes
<1>3. \A z \in Ends \cup Calls : ~Has(todo[c], z)
  BY <1>1, HasOne DEF Calls, Ends, Outcomes
<1> QED
  BY <1>2, <1>3, Quiet DEF Calls

LEMMA StepReread == ASSUME IInv, NEW c \in Callers, Reread(c) PROVE IInv'
<1>1. CallerInv /\ IsPlan(todo[c]) /\ At(c, "reread") /\ "reread" \in Calls
  BY DEF IInv, CallerInv, Reread, Calls
<1>2. /\ \A z \in Calls : Has(todo[c], z) <=> z = "reread"
      /\ Has(todo[c], "unlock") \/ Has(todo[c], "leave")
      /\ ~Has(todo[c], "reject")
  BY <1>1, CallHas
<1> DEFINE Read(s) ==
      /\ Then(c, s) /\ IsPlan(s)
      /\ \A z \in Ends : Has(s, z) <=> Has(todo[c], z)
      /\ \A z \in Calls \ {"refresh"} : ~Has(s, z)
      /\ ~Has(s, "reject") /\ ~Has(s, "expired")
<1>3. CASE used' = [used EXCEPT ![c] = row.cred] /\ \E s : Read(s)
  <2>1. PICK s : Read(s)
    BY <1>3
  <2>2. /\ todo' = [d \in Callers |-> todo'[d]]
        /\ todo'[c] = s
        /\ \A d \in Callers \ {c} : todo'[d] = todo[d]
    BY <1>1, <2>1, Moved
  <2>3. /\ used'[c] = row.cred
        /\ \A d \in Callers \ {c} : used'[d] = used[d]
        /\ used' \in [Callers -> Creds]
        /\ row.cred.gen \in 1 .. issued
    BY <1>3 DEF IInv, TypeInv, Accounts
  <2>4. UNCHANGED <<grok, row, valid, issued, aged, lock, local, got, admin, excused>>
    BY DEF Reread, accountVars, providerVars
  <2>5. TypeInv'
    BY <2>3, <2>4 DEF IInv, TypeInv
  <2>6. CallerInv'
    BY <2>1, <2>2, <2>3, <2>4 DEF IInv, CallerInv, Calls
  <2>7. MutexInv'
    BY <2>1, <2>2, <2>4 DEF IInv, MutexInv, Ends
  <2>8. RejectedInv'
    BY <2>1, <2>2, <2>3, <2>4 DEF IInv, RejectedInv, NeedsRefresh, Calls
  <2>9. AdminInv'
    BY <2>4 DEF IInv, AdminInv
  <2>10. OnceInv'
    <3> SUFFICES ASSUME ~excused' PROVE OnceInv'
      BY DEF OnceInv
    <3>1. OnceInv /\ ~excused
      BY <2>4 DEF IInv
    <3>2. lock = c /\ Has(todo[c], "unlock")
      BY <1>2, <3>1 DEF OnceInv
    <3>3. ASSUME NEW d \in Callers PROVE ~Has(todo[d], "persist")
      <4>1. CASE d = c
        BY <1>2, <4>1 DEF Calls
      <4>2. CASE d # c
        <5>1. ~Has(todo[d], "unlock") /\ ~Has(todo[d], "leave")
          BY <3>1, <3>2, <4>2 DEF OnceInv
        <5> QED
          BY <5>1, NoCallOutside DEF IInv, CallerInv, Calls
      <4> QED
        BY <4>1, <4>2
    <3>4. row.cred.gen \in valid
      BY <3>1, <3>3 DEF OnceInv
    <3> QED
      BY <2>1, <2>2, <2>3, <2>4, <3>1, <3>4 DEF OnceInv, Calls, Ends
  <2> QED
    BY <2>5, <2>6, <2>7, <2>8, <2>9, <2>10 DEF IInv
<1>4. CASE Go(c, "refresh") /\ used' = [used EXCEPT ![c] = row.cred]
  <2>1. \E s : Read(s)
    BY <1>1, <1>4, WentOn DEF Calls
  <2> QED
    BY <1>3, <1>4, <2>1
<1>5. CASE (Return(c, <<>>) \/ Return(c, Account(c))) /\ used' = [used EXCEPT ![c] = row.cred]
  <2>1. Return(c, <<>>) \/ Return(c, <<"take">>)
    BY <1>5 DEF Account
  <2>2. \E s : Read(s)
    BY <1>1, <2>1, ReturnedNothing, ReturnedOutcome DEF After, Outcomes, Calls
  <2> QED
    BY <1>3, <1>5, <2>2
<1>6. CASE (Return(c, <<>>) \/ Return(c, <<"failed">>)) /\ UNCHANGED used
  <2>1. PICK s : Then(c, s) /\ After(c, s) /\ ~Has(s, "reject")
    BY <1>1, <1>6, ReturnedNothing, ReturnedOutcome DEF Outcomes
  <2> QED
    BY <1>2, <1>6, <2>1, Quiet DEF After, Calls, Reread, accountVars, providerVars
<1>7. \/ UNCHANGED used /\ (Return(c, <<>>) \/ Return(c, <<"failed">>))
      \/ /\ used' = [used EXCEPT ![c] = row.cred]
         /\ Return(c, <<>>) \/ Go(c, "refresh") \/ Return(c, Account(c))
  BY DEF Reread
<1> QED
  BY <1>4, <1>5, <1>6, <1>7

LEMMA StepRecover == ASSUME IInv, NEW c \in Callers, Recover(c) PROVE IInv'
<1>1. CallerInv /\ IsPlan(todo[c]) /\ At(c, "recover") /\ "recover" \in Calls
  BY DEF IInv, CallerInv, Recover, Calls
<1>2. /\ \A z \in Calls : Has(todo[c], z) <=> z = "recover"
      /\ used[c].gen \notin valid
  BY <1>1, CallHas DEF IInv, RejectedInv
<1>3. Return(c, <<>>) \/ Return(c, <<"take">>) \/ Return(c, <<"reject">>)
  BY DEF Recover, Account
<1>4. \E s : Then(c, s) /\ After(c, s)
  BY <1>1, <1>3, ReturnedNothing, ReturnedOutcome DEF Outcomes
<1> QED
  BY <1>2, <1>4, Quiet DEF After, Calls, Recover, accountVars, providerVars

\* Whoever is inside by the rules is alone.
LEMMA Alone ==
    ASSUME IInv, ~excused, NEW c \in Callers, Has(todo[c], "unlock"),
           NEW d \in Callers \ {c}
    PROVE  /\ ~Has(todo[d], "unlock")
           /\ \A z \in Calls : ~Has(todo[d], z)
<1>1. ~Has(todo[d], "unlock") /\ ~Has(todo[d], "leave")
  BY DEF IInv, OnceInv
<1> QED
  BY <1>1, NoCallOutside DEF IInv, CallerInv

\* The provider exchanges the token of c.
LEMMA StepRotate ==
    ASSUME IInv, NEW c \in Callers, At(c, "refresh"), used[c].gen \in valid,
           Rotate(used[c].gen), NEW s, Then(c, s), IsPlan(s),
           \A z \in Ends : Has(s, z) <=> Has(todo[c], z),
           \A z \in Calls \ {"persist"} : ~Has(s, z),
           ~Has(s, "reject"), ~Has(s, "expired"),
           UNCHANGED <<grok, row, aged, lock, local, used, admin>>,
           \/ /\ got' = [got EXCEPT ![c] = issued + 1]
              /\ Has(s, "persist")
              /\ UNCHANGED excused
           \/ ~Has(s, "persist") /\ UNCHANGED got /\ excused'
    PROVE  IInv'
<1>1. CallerInv /\ IsPlan(todo[c]) /\ issued \in Nat /\ "refresh" \in Calls
  BY DEF IInv, CallerInv, TypeInv, Calls
<1>2. /\ \A z \in Calls : Has(todo[c], z) <=> z = "refresh"
      /\ Has(todo[c], "unlock") \/ Has(todo[c], "leave")
  BY <1>1, CallHas
<1>3. /\ todo' = [d \in Callers |-> todo'[d]]
      /\ todo'[c] = s
      /\ \A d \in Callers \ {c} : todo'[d] = todo[d]
  BY <1>1, Moved
<1>4. issued' = issued + 1 /\ valid' = (valid \ {used[c].gen}) \cup {issued + 1}
  BY DEF Rotate
<1>5. \A g \in 1 .. issued : g \in 1 .. issued' /\ g # issued + 1
  BY <1>1, <1>4
<1>6. got' \in [Callers -> Nat] /\ \A d \in Callers \ {c} : got'[d] = got[d]
  BY <1>1 DEF IInv, TypeInv
<1>7. Has(s, "persist") => got'[c] = issued + 1 /\ issued + 1 \in 1 .. issued'
  BY <1>1, <1>4 DEF IInv, TypeInv
<1>8. TypeInv'
  <2>1. valid' \subseteq 1 .. issued'
    <3>1. valid \subseteq 1 .. issued /\ issued + 1 \in 1 .. issued'
      BY <1>1, <1>4 DEF IInv, TypeInv
    <3> QED
      BY <1>4, <1>5, <3>1
  <2>2. aged' \in 0 .. issued' /\ issued' \in Nat
    BY <1>1, <1>4 DEF IInv, TypeInv
  <2> QED
    BY <1>5, <1>6, <2>1, <2>2 DEF IInv, TypeInv
<1>9. CallerInv'
  BY <1>3, <1>5, <1>6, <1>7 DEF IInv, CallerInv
<1>10. MutexInv'
  BY <1>3 DEF IInv, MutexInv, Ends
<1>11. RejectedInv'
  <2>1. ASSUME NEW d \in Callers, used[d].gen \notin valid PROVE used'[d].gen \notin valid'
    BY <1>4, <1>5, <2>1 DEF IInv, CallerInv
  <2> QED
    BY <1>3, <2>1 DEF IInv, RejectedInv, NeedsRefresh, Calls
<1>12. AdminInv'
  BY <1>5 DEF IInv, AdminInv
<1>13. OnceInv'
  <2> SUFFICES ASSUME ~excused' PROVE OnceInv'
    BY DEF OnceInv
  <2>1. OnceInv /\ ~excused /\ Has(s, "persist")
    BY DEF IInv
  <2>2. Has(todo[c], "unlock") /\ lock = c /\ ~Has(todo[c], "leave")
    BY <1>2, <2>1 DEF OnceInv
  <2>3. \A d \in Callers \ {c} : /\ ~Has(todo[d], "unlock") /\ ~Has(todo[d], "leave")
                                 /\ \A z \in Calls : ~Has(todo[d], z)
    BY <2>1, <2>2, Alone DEF OnceInv
  <2>4. got'[c] \in valid'
    BY <1>4, <1>7, <2>1
  <2>5. \/ row'.cred.gen \in valid'
        \/ \E d \in Callers : Has(todo'[d], "persist") /\ row'.cred = used'[d]
    <3>1. row.cred.gen \in valid
      BY <1>2, <2>1, <2>3 DEF OnceInv, Calls
    <3>2. CASE row.cred.gen = used[c].gen
      BY <1>2, <1>3, <2>1, <3>2 DEF OnceInv, Calls
    <3>3. CASE row.cred.gen # used[c].gen
      BY <1>4, <3>1, <3>3
    <3> QED
      BY <3>2, <3>3
  <2> QED
    BY <1>3, <2>1, <2>2, <2>3, <2>4, <2>5 DEF OnceInv, Calls, Ends
<1> QED
  BY <1>8, <1>9, <1>10, <1>11, <1>12, <1>13 DEF IInv

LEMMA StepRefresh == ASSUME IInv, NEW c \in Callers, Refresh(c) PROVE IInv'
<1>1. CallerInv /\ IsPlan(todo[c]) /\ At(c, "refresh") /\ "refresh" \in Calls
  BY DEF IInv, CallerInv, Refresh, Calls
<1>2. /\ \A z \in Calls : Has(todo[c], z) <=> z = "refresh"
      /\ Has(todo[c], "unlock") \/ Has(todo[c], "leave")
  BY <1>1, CallHas
<1>3. UNCHANGED <<grok, row, aged, lock, local, used, admin>>
  BY DEF Refresh, accountVars
<1>4. CASE /\ used[c].gen \in valid /\ Rotate(used[c].gen)
           /\ got' = [got EXCEPT ![c] = issued + 1] /\ Go(c, "persist")
           /\ UNCHANGED <<faults, excused>>
  <2>1. PICK s : /\ Then(c, s) /\ IsPlan(s)
                 /\ \A z \in Ends : Has(s, z) <=> Has(todo[c], z)
                 /\ \A z \in Calls : Has(s, z) <=> z = "persist"
                 /\ ~Has(s, "reject") /\ ~Has(s, "expired")
    BY <1>1, <1>4, WentOn DEF Calls
  <2>2. Has(s, "persist") /\ \A z \in Calls \ {"persist"} : ~Has(s, z)
    BY <2>1 DEF Calls
  <2> QED
    BY <1>1, <1>3, <1>4, <2>1, <2>2, StepRotate
<1>5. CASE /\ used[c].gen \in valid /\ Rotate(used[c].gen)
           /\ Fault /\ excused' = TRUE /\ Return(c, <<"failed">>) /\ UNCHANGED got
  <2>1. PICK s : Then(c, s) /\ After(c, s) /\ (Has(s, "reject") => "failed" = "reject")
    BY <1>1, <1>5, ReturnedOutcome DEF Outcomes
  <2>2. /\ IsPlan(s) /\ ~Has(s, "reject") /\ ~Has(s, "expired") /\ ~Has(s, "persist")
        /\ \A z \in Ends : Has(s, z) <=> Has(todo[c], z)
        /\ \A z \in Calls \ {"persist"} : ~Has(s, z)
    BY <2>1 DEF After, Calls
  <2> QED
    BY <1>1, <1>3, <1>5, <2>1, <2>2, StepRotate
<1>6. CASE /\ used[c].gen \notin valid /\ Go(c, "recover")
           /\ UNCHANGED <<providerVars, got, faults, excused>>
  <2>1. excused
    BY <1>2, <1>6 DEF IInv, OnceInv, Calls
  <2>2. PICK s : /\ Then(c, s) /\ IsPlan(s)
                 /\ \A z \in Ends : Has(s, z) <=> Has(todo[c], z)
                 /\ \A z \in Calls : Has(s, z) <=> z = "recover"
                 /\ ~Has(s, "reject") /\ ~Has(s, "expired")
    BY <1>1, <1>6, WentOn DEF Calls
  <2>3. /\ todo' = [d \in Callers |-> todo'[d]]
        /\ todo'[c] = s
        /\ \A d \in Callers \ {c} : todo'[d] = todo[d]
    BY <1>1, <2>2, Moved
  <2>4. UNCHANGED <<valid, issued, got>> /\ excused'
    BY <1>6, <2>1 DEF providerVars
  <2>5. TypeInv' /\ AdminInv'
    BY <1>3, <2>4 DEF IInv, TypeInv, AdminInv
  <2>6. CallerInv'
    BY <1>3, <2>2, <2>3, <2>4 DEF IInv, CallerInv, Calls
  <2>7. MutexInv'
    BY <1>3, <2>2, <2>3 DEF IInv, MutexInv, Ends
  <2>8. RejectedInv'
    BY <1>3, <1>6, <2>2, <2>3, <2>4 DEF IInv, RejectedInv, NeedsRefresh
  <2>9. OnceInv'
    BY <2>4 DEF OnceInv
  <2> QED
    BY <2>5, <2>6, <2>7, <2>8, <2>9 DEF IInv
<1>7. CASE /\ Fault /\ Return(c, <<"failed">>) /\ UNCHANGED <<providerVars, got, excused>>
  <2>1. PICK s : Then(c, s) /\ After(c, s) /\ (Has(s, "reject") => "failed" = "reject")
    BY <1>1, <1>7, ReturnedOutcome DEF Outcomes
  <2>2. UNCHANGED <<valid, issued, got, excused>>
    BY <1>7 DEF providerVars
  <2> QED
    BY <1>2, <1>3, <2>1, <2>2, Quiet DEF After, Calls
<1> QED
  BY <1>4, <1>5, <1>6, <1>7 DEF Refresh

LEMMA StepPersist == ASSUME IInv, NEW c \in Callers, Persist(c) PROVE IInv'
<1>1. CallerInv /\ IsPlan(todo[c]) /\ At(c, "persist") /\ "persist" \in Calls
  BY DEF IInv, CallerInv, Persist, Calls
<1>2. /\ \A z \in Calls : Has(todo[c], z) <=> z = "persist"
      /\ Has(todo[c], "unlock") \/ Has(todo[c], "leave")
  BY <1>1, CallHas
<1>3. PICK s : Then(c, s) /\ After(c, s) /\ ~Has(s, "reject")
  <2>1. \/ Return(c, <<"renewed">>) \/ Return(c, <<"take">>)
        \/ Return(c, <<>>) \/ Return(c, <<"failed">>)
    BY DEF Persist, Account
  <2> QED
    BY <1>1, <2>1, ReturnedNothing, ReturnedOutcome DEF Outcomes
<1>4. /\ todo' = [d \in Callers |-> todo'[d]]
      /\ todo'[c] = s
      /\ \A d \in Callers \ {c} : todo'[d] = todo[d]
  BY <1>1, <1>3, Moved
<1>5. /\ UNCHANGED <<grok, valid, issued, aged, lock, local, used, admin>>
      /\ got' = [got EXCEPT ![c] = 0]
  BY DEF Persist, providerVars
<1> DEFINE new == [gen |-> got[c], grant |-> used[c].grant]
           Stores == Unchanged(used[c]) /\ row' = [row EXCEPT !.cred = new] /\ UNCHANGED excused
           Loses == ~Unchanged(used[c]) /\ UNCHANGED <<row, excused>>
           Fails == UNCHANGED row /\ excused'
<1>6. Stores \/ Loses \/ Fails
  BY DEF Persist
<1>7. /\ row \in Accounts /\ used[c] \in Creds /\ got[c] \in Nat /\ got[c] \in 1 .. issued
      /\ row.cred.gen \in 1 .. issued
  BY <1>2, <1>1 DEF IInv, TypeInv, CallerInv
<1>8. row' \in Accounts /\ row'.cred.gen \in 1 .. issued /\ row'.active = row.active
  BY <1>6, <1>7 DEF Accounts, Creds
<1>9. TypeInv'
  BY <1>5, <1>8 DEF IInv, TypeInv
<1>10. CallerInv'
  BY <1>3, <1>4, <1>5 DEF IInv, CallerInv, TypeInv, After, Calls
<1>11. MutexInv'
  BY <1>3, <1>4, <1>5 DEF IInv, MutexInv, After, Ends
<1>12. RejectedInv'
  BY <1>3, <1>4, <1>5 DEF IInv, RejectedInv, NeedsRefresh, After, Calls
<1>13. AdminInv'
  <2>1. grok => row'.cred.grant = row.cred.grant
    BY <1>6, <1>7 DEF Unchanged, Accounts, Creds
  <2> QED
    BY <1>5, <1>8, <2>1 DEF IInv, AdminInv
<1>14. OnceInv'
  <2> SUFFICES ASSUME ~excused' PROVE OnceInv'
    BY DEF OnceInv
  <2>1. OnceInv /\ ~excused /\ (Stores \/ Loses)
    BY <1>6 DEF IInv
  <2>2. Has(todo[c], "unlock") /\ lock = c /\ ~Has(todo[c], "leave") /\ got[c] \in valid
    BY <1>1, <1>2, <2>1 DEF OnceInv
  <2>3. \A d \in Callers \ {c} : /\ ~Has(todo[d], "unlock") /\ ~Has(todo[d], "leave")
                                 /\ \A z \in Calls : ~Has(todo[d], z)
    BY <2>1, <2>2, Alone DEF OnceInv
  <2>4. row'.cred.gen \in valid'
    <3>1. CASE Stores
      BY <1>5, <1>7, <2>2, <3>1 DEF Accounts
    <3>2. CASE Loses
      BY <1>5, <2>1, <2>3, <3>2, <1>1 DEF OnceInv, Unchanged
    <3> QED
      BY <2>1, <3>1, <3>2
  <2> QED
    BY <1>3, <1>4, <1>5, <2>1, <2>2, <2>3, <2>4 DEF OnceInv, After, Calls, Ends
<1> QED
  BY <1>9, <1>10, <1>11, <1>12, <1>13, <1>14 DEF IInv

LEMMA StepUnlock == ASSUME IInv, NEW c \in Callers, Unlock(c) PROVE IInv'
<1>1. CallerInv /\ IsPlan(todo[c])
  BY DEF IInv, CallerInv
<1>2. PICK e \in Ends : At(c, e)
  BY DEF Unlock, Ends
<1>3. todo[c] = <<e>> \/ \E y \in Outcomes : todo[c] = <<e, y>>
  BY <1>1, <1>2, AtEnd
<1> DEFINE s == Tail(todo[c])
<1> DEFINE Given ==
      /\ IsPlan(s)
      /\ \A z \in Ends \cup Calls : ~Has(s, z)
      /\ \A z \in {"reject", "expired"} : Has(s, z) => s # <<>> /\ Has(todo[c], z)
      /\ \A z \in Calls : ~Has(todo[c], z)
      /\ \A z \in Ends : Has(todo[c], z) <=> z = e
      /\ \A z \in Ends : At(c, z) <=> z = e
<1>4. Given
  <2>1. CASE todo[c] = <<e>>
    <3>1. s = <<>>
      BY <2>1, TailOf
    <3> QED
      BY <2>1, <3>1, HasOne, NoPlan, AtOne DEF Calls, Ends
  <2>2. ASSUME NEW y \in Outcomes, todo[c] = <<e, y>> PROVE Given
    <3>1. s = <<y>>
      BY <2>2, TailOf
    <3> QED
      BY <2>2, <3>1, HasOne, HasTwo, OnePlan, AtTwo DEF Calls, Ends, Outcomes, Singles
  <2> QED
    BY <1>3, <2>1, <2>2
<1> HIDE DEF s
<1>5. /\ todo' = [d \in Callers |-> todo'[d]]
      /\ todo'[c] = s
      /\ \A d \in Callers \ {c} : todo'[d] = todo[d]
  BY <1>1, Moved DEF Unlock, Leave, s
<1>6. /\ UNCHANGED <<grok, row, valid, issued, aged, got, admin, excused>>
      /\ local' = [local EXCEPT ![Home[c]] = NoOne]
      /\ lock' = lock \/ (e = "unlock" /\ lock' = NoOne)
      /\ used' = used \/ (s = <<>> /\ used' = [used EXCEPT ![c] = First])
  BY <1>4 DEF Unlock, Leave, accountVars, providerVars, Ends, s
<1>13. /\ used' \in [Callers -> Creds]
       /\ used'[c].gen \in 1 .. issued
       /\ \A d \in Callers \ {c} : used'[d] = used[d]
       /\ s # <<>> => used' = used
  <2>1. First \in Creds /\ First.gen = 1 /\ 1 \in 1 .. issued
    BY DEF First, Creds, IInv, TypeInv
  <2> QED
    BY <1>1, <1>6, <2>1 DEF IInv, TypeInv, CallerInv
<1>7. TypeInv'
  BY <1>6, <1>13 DEF IInv, TypeInv
<1>8. CallerInv'
  BY <1>4, <1>5, <1>6, <1>13 DEF IInv, CallerInv, Calls
<1>9. MutexInv'
  <2> SUFFICES ASSUME NEW d \in Callers, Has(todo'[d], "unlock") \/ Has(todo'[d], "leave")
               PROVE  local'[Home[d]] = d
    BY DEF MutexInv
  <2>1. d # c
    BY <1>4, <1>5 DEF Ends
  <2>2. local[Home[d]] = d /\ local[Home[c]] = c
    BY <1>4, <1>5, <2>1 DEF IInv, MutexInv, Ends
  <2> QED
    BY <1>6, <2>1, <2>2, OAuthRefreshAssumption DEF IInv, TypeInv
<1>10. RejectedInv'
  BY <1>4, <1>5, <1>6, <1>13 DEF IInv, RejectedInv, NeedsRefresh, Calls
<1>11. AdminInv'
  BY <1>6 DEF IInv, AdminInv
<1>12. OnceInv'
  <2> SUFFICES ASSUME ~excused' PROVE OnceInv'
    BY DEF OnceInv
  <2>1. OnceInv /\ ~excused
    BY <1>6 DEF IInv
  <2>2. Has(todo[c], "unlock") /\ e = "unlock"
    BY <1>4, <2>1 DEF OnceInv, Ends
  <2>3. \A d \in Callers \ {c} : ~Has(todo[d], "unlock") /\ \A z \in Calls : ~Has(todo[d], z)
    BY <2>1, <2>2, Alone
  <2> QED
    BY <1>4, <1>5, <1>6, <1>13, <2>1, <2>3 DEF OnceInv, Calls, Ends
<1> QED
  BY <1>7, <1>8, <1>9, <1>10, <1>11, <1>12 DEF IInv

\* What a caller does with the outcome and leaves: the account stays as it is or goes
\* out of service.
LEMMA StepOutcome ==
    ASSUME IInv, NEW c \in Callers,
           Reject(c) \/ Exhaust(c) \/ PostRefresh(c) \/ Disable(c) \/ Cool(c) \/ GiveUp(c)
    PROVE  IInv'
<1>1. PICK x \in Outcomes : At(c, x)
  BY DEF Reject, Exhaust, PostRefresh, Disable, Cool, GiveUp, Outcomes
<1>2. /\ Leave(c)
      /\ UNCHANGED <<grok, valid, issued, aged, lock, local, got, admin, excused>>
  BY DEF Reject, Exhaust, PostRefresh, Disable, Cool, GiveUp, providerVars
<1>3. row \in Accounts /\ row' \in {row, Disabled}
  BY DEF Reject, Exhaust, PostRefresh, Disable, Cool, GiveUp, accountVars, IInv, TypeInv
<1>4. row' \in Accounts /\ row'.cred = row.cred /\ (row'.active => row.active)
  BY <1>3 DEF Disabled, Accounts
<1> QED
  BY <1>1, <1>2, <1>4, StepLeave

\* A request finds that the access token of the row has run out.
LEMMA StepTakeToken == ASSUME IInv, NEW c \in Callers, TakeToken(c) PROVE IInv'
<1>1. CallerInv /\ At(c, "take") /\ todo[c] = <<"take">>
  BY AtSingle DEF IInv, CallerInv, TakeToken, Outcomes
<1>2. UNCHANGED <<grok, row, valid, issued, aged, lock, local, got, admin, excused>>
  BY DEF TakeToken, accountVars, providerVars
<1>3. CASE Leave(c)
  BY <1>1, <1>2, <1>3, StepLeave DEF Outcomes, IInv, TypeInv
<1>4. CASE NeedsRefresh(row.cred) /\ used' = [used EXCEPT ![c] = row.cred] /\ Then(c, <<"expired">>)
  <2>1. /\ todo' = [d \in Callers |-> todo'[d]]
        /\ todo'[c] = <<"expired">>
        /\ \A d \in Callers \ {c} : todo'[d] = todo[d]
    BY <1>1, <1>4, Moved
  <2>2. /\ IsPlan(<<"expired">>)
        /\ \A z \in Calls \cup Ends \cup {"reject"} : ~Has(<<"expired">>, z)
        /\ \A z \in Calls \cup Ends : ~Has(todo[c], z)
    BY <1>1, OnePlan, HasOne DEF Singles, Calls, Ends, Outcomes
  <2>3. /\ used'[c] = row.cred
        /\ \A d \in Callers \ {c} : used'[d] = used[d]
        /\ used' \in [Callers -> Creds]
        /\ row.cred.gen \in 1 .. issued
    BY <1>4 DEF IInv, TypeInv, Accounts
  <2>4. TypeInv'
    BY <1>2, <2>3 DEF IInv, TypeInv
  <2>5. CallerInv'
    BY <1>2, <2>1, <2>2, <2>3 DEF IInv, CallerInv, Calls
  <2>6. MutexInv'
    BY <1>2, <2>1, <2>2 DEF IInv, MutexInv, Ends
  <2>7. RejectedInv'
    BY <1>2, <1>4, <2>1, <2>2, <2>3 DEF IInv, RejectedInv, NeedsRefresh, Calls
  <2>8. AdminInv'
    BY <1>2 DEF IInv, AdminInv
  <2>9. OnceInv'
    BY <1>2, <2>1, <2>2, <2>3 DEF IInv, OnceInv, Calls, Ends
  <2> QED
    BY <2>4, <2>5, <2>6, <2>7, <2>8, <2>9 DEF IInv
<1> QED
  BY <1>3, <1>4 DEF TakeToken

\* The process of i stops: its callers are outside again, and what the provider has
\* answered to one of them is lost, which is an excuse.
LEMMA StepCrash == ASSUME IInv, NEW i \in Instances, Crash(i) PROVE IInv'
<1> DEFINE gone == {c \in Callers : Home[c] = i /\ todo[c] \notin {<<>>, <<"ask">>}}
<1>1. /\ todo' = [c \in Callers |-> IF c \in gone THEN <<>> ELSE todo[c]]
      /\ got' = [c \in Callers |-> IF c \in gone THEN 0 ELSE got[c]]
      /\ local' = [local EXCEPT ![i] = NoOne]
      /\ excused' = (excused \/ \E c \in gone : At(c, "persist"))
      /\ used' = [c \in Callers |-> IF c \in gone THEN First ELSE used[c]]
      /\ UNCHANGED <<grok, row, valid, issued, aged, lock, admin>>
  BY DEF Crash, accountVars, providerVars
<1>2. ASSUME NEW c \in Callers, c \notin gone, Home[c] = i
      PROVE  \A z \in Ends : ~Has(todo[c], z)
  BY <1>2, HasNone, HasOne DEF Ends
<1>3. ASSUME NEW c \in Callers PROVE todo'[c] = <<>> \/ (c \notin gone /\ todo'[c] = todo[c])
  BY <1>1
<1> HIDE DEF gone
<1>4. ASSUME NEW c \in Callers PROVE \A z : Has(todo'[c], z) => c \notin gone /\ Has(todo[c], z)
  BY <1>3, HasNone
<1>11. First \in Creds /\ First.gen \in 1 .. issued
  BY DEF First, Creds, IInv, TypeInv
<1>5. TypeInv'
  BY <1>1, <1>11 DEF IInv, TypeInv
<1>6. CallerInv'
  <2>1. todo' = [c \in Callers |-> todo'[c]]
    BY <1>1
  <2>2. ASSUME NEW c \in Callers
        PROVE  /\ IsPlan(todo'[c])
               /\ used'[c].gen \in 1 .. issued'
               /\ Has(todo'[c], "persist") => got'[c] \in 1 .. issued'
    BY <1>1, <1>3, <1>4, <1>11, NoPlan DEF IInv, CallerInv
  <2> QED
    BY <2>1, <2>2 DEF CallerInv
<1>7. MutexInv'
  <2> SUFFICES ASSUME NEW c \in Callers, Has(todo'[c], "unlock") \/ Has(todo'[c], "leave")
               PROVE  local'[Home[c]] = c
    BY DEF MutexInv
  <2>1. local[Home[c]] = c /\ Home[c] # i
    BY <1>2, <1>4 DEF IInv, MutexInv, Ends
  <2> QED
    BY <1>1, <2>1, OAuthRefreshAssumption DEF IInv, TypeInv
<1>8. RejectedInv'
  BY <1>1, <1>4 DEF IInv, RejectedInv, NeedsRefresh
<1>9. AdminInv'
  BY <1>1 DEF IInv, AdminInv
<1>10. OnceInv'
  <2> SUFFICES ASSUME ~excused' PROVE OnceInv'
    BY DEF OnceInv
  <2>1. OnceInv /\ ~excused /\ \A c \in gone : ~At(c, "persist")
    BY <1>1 DEF IInv
  <2>2. ASSUME NEW c \in gone, c \in Callers PROVE ~Has(todo[c], "persist")
    <3>1. IsPlan(todo[c])
      BY <2>2 DEF IInv, CallerInv
    <3> QED
      BY <2>1, <2>2, <3>1, PersistAt
  <2>3. ASSUME NEW c \in Callers, Has(todo[c], "persist") PROVE Has(todo'[c], "persist")
    BY <1>3, <2>2, <2>3, <1>1
  <2>4. ASSUME NEW c \in Callers
        PROVE  /\ ~Has(todo'[c], "leave")
               /\ ~Has(todo'[c], "recover")
               /\ Has(todo'[c], "unlock") => lock' = c
               /\ Has(todo'[c], "refresh") =>
                    /\ used'[c].gen \in valid'
                    /\ row'.cred.gen = used'[c].gen => row'.cred = used'[c]
               /\ Has(todo'[c], "persist") => got'[c] \in valid'
    BY <1>1, <1>4, <2>1 DEF OnceInv
  <2>5. \/ row'.cred.gen \in valid'
        \/ \E c \in Callers : Has(todo'[c], "persist") /\ row'.cred = used'[c]
    BY <1>1, <1>4, <2>1, <2>3 DEF OnceInv
  <2> QED
    BY <2>4, <2>5 DEF OnceInv
<1> QED
  BY <1>5, <1>6, <1>7, <1>8, <1>9, <1>10 DEF IInv

\* Nobody moves, and the credentials and tokens stay as they are.
LEMMA StepStill ==
    ASSUME IInv, UNCHANGED <<grok, row, valid, issued, local, todo, used, got, excused>>,
           TypeInv', AdminInv', lock' = lock, aged' >= aged
    PROVE  IInv'
<1>1. aged \in Nat /\ aged' \in Nat /\ \A c \in Callers : used[c].gen \in Nat
  BY DEF IInv, TypeInv, CallerInv
<1>2. RejectedInv'
  BY <1>1 DEF IInv, RejectedInv, NeedsRefresh
<1> QED
  BY <1>2 DEF IInv, CallerInv, MutexInv, OnceInv

LEMMA StepTime ==
    ASSUME IInv, Age \/ LockExpires \/ CoolingEnds
    PROVE  IInv'
<1>1. CASE Age
  <2>1. TypeInv' /\ AdminInv'
    BY <1>1 DEF Age, accountVars, providerVars, callerVars, NeedsRefresh, IInv, TypeInv, AdminInv
  <2>2. aged' >= aged
    BY <1>1 DEF Age, NeedsRefresh, IInv, TypeInv
  <2> QED
    BY <1>1, <2>1, <2>2, StepStill DEF Age, accountVars, providerVars, callerVars
<1>2. CASE CoolingEnds
  <2>1. TypeInv' /\ AdminInv'
    BY <1>2 DEF CoolingEnds, providerVars, callerVars, IInv, TypeInv, AdminInv
  <2>2. aged' >= aged
    BY <1>2 DEF CoolingEnds, IInv, TypeInv
  <2> QED
    BY <1>2, <2>1, <2>2, StepStill DEF CoolingEnds, providerVars, callerVars
<1>3. CASE LockExpires
  <2>1. /\ lock' = NoOne
        /\ UNCHANGED <<grok, row, valid, issued, aged, local, todo, used, got, admin>>
    BY <1>3 DEF LockExpires, accountVars, providerVars, callerVars
  <2>2. TypeInv' /\ CallerInv' /\ MutexInv' /\ RejectedInv' /\ AdminInv'
    BY <2>1 DEF IInv, TypeInv, CallerInv, MutexInv, RejectedInv, NeedsRefresh, AdminInv
  <2>3. OnceInv'
    <3> SUFFICES ASSUME ~excused' PROVE OnceInv'
      BY DEF OnceInv
    <3>1. ~Has(todo[lock], "unlock") /\ OnceInv /\ ~excused
      BY <1>3, HoldsHas DEF LockExpires, IInv
    <3>2. \A c \in Callers : ~Has(todo[c], "unlock")
      BY <3>1 DEF OnceInv
    <3> QED
      BY <2>1, <3>1, <3>2 DEF OnceInv
  <2> QED
    BY <2>2, <2>3 DEF IInv
<1> QED
  BY <1>1, <1>2, <1>3

\* The account is written and the callers stay where they are. Its credentials are
\* as before, or a token that was issued just now, or else there is an excuse.
LEMMA StepWrite ==
    ASSUME IInv, UNCHANGED <<grok, aged, lock, local, todo, used, got>>,
           row' \in Accounts, AdminInv', excused => excused',
           \/ UNCHANGED <<valid, issued>> /\ row'.cred = row.cred
           \/ UNCHANGED <<valid, issued>> /\ excused' /\ row'.cred.gen \in 1 .. issued
           \/ /\ issued' = issued + 1 /\ valid' = valid \cup {issued + 1}
              /\ row'.cred.gen = issued + 1
           \/ /\ issued' = issued + 1 /\ valid' = (valid \ {row.cred.gen}) \cup {issued + 1}
              /\ row' = row /\ excused'
    PROVE  IInv'
<1>1. issued \in Nat /\ issued' \in {issued, issued + 1}
  BY DEF IInv, TypeInv
<1>2. \A g \in 1 .. issued : g \in 1 .. issued' /\ g # issued + 1
  BY <1>1
<1>3. valid' \subseteq valid \cup {issued + 1}
  OBVIOUS
<1>4. TypeInv'
  <2>1. valid' \subseteq 1 .. issued'
    <3>1. valid \subseteq 1 .. issued
      BY DEF IInv, TypeInv
    <3>2. issued' = issued + 1 => issued + 1 \in 1 .. issued'
      BY <1>1
    <3> QED
      BY <1>2, <3>1, <3>2
  <2>2. aged' \in 0 .. issued' /\ issued' \in Nat
    BY <1>1 DEF IInv, TypeInv
  <2>3. row'.cred.gen \in 1 .. issued'
    BY <1>1, <1>2 DEF IInv, TypeInv
  <2> QED
    BY <2>1, <2>2, <2>3 DEF IInv, TypeInv
<1>5. CallerInv'
  BY <1>2 DEF IInv, CallerInv
<1>6. MutexInv'
  BY DEF IInv, MutexInv
<1>7. RejectedInv'
  <2>1. ASSUME NEW c \in Callers, used[c].gen \notin valid PROVE used'[c].gen \notin valid'
    BY <1>2, <1>3, <2>1 DEF IInv, CallerInv
  <2> QED
    BY <2>1 DEF IInv, RejectedInv, NeedsRefresh
<1>8. OnceInv'
  <2> SUFFICES ASSUME ~excused' PROVE OnceInv'
    BY DEF OnceInv
  <2>1. OnceInv /\ ~excused
    BY DEF IInv
  <2>2. CASE UNCHANGED <<valid, issued>> /\ row'.cred = row.cred
    BY <2>1, <2>2 DEF OnceInv
  <2>3. CASE issued' = issued + 1 /\ valid' = valid \cup {issued + 1} /\ row'.cred.gen = issued + 1
    <3>1. \A c \in Callers : used[c].gen # row'.cred.gen
      BY <1>2, <2>3 DEF IInv, CallerInv
    <3> QED
      BY <2>1, <2>3, <3>1 DEF OnceInv
  <2> QED
    BY <2>2, <2>3
<1> QED
  BY <1>4, <1>5, <1>6, <1>7, <1>8 DEF IInv

LEMMA StepAdmin ==
    ASSUME IInv, EditRead \/ ManualRefresh \/ Finish \/ Enable
    PROVE  IInv'
<1> USE DEF accountVars, providerVars, callerVars, boundVars
<1>0. /\ row \in Accounts /\ row.cred \in Creds /\ row.cred.gen \in 1 .. issued /\ issued \in Nat
      /\ admin \in [op : Ops, acc : Accounts, gen : Nat] /\ admin.acc.cred.gen \in 1 .. issued
      /\ admin.acc \in Accounts /\ admin.acc.cred \in Creds
  BY DEF IInv, TypeInv, AdminInv, Accounts
<1>1. CASE EditRead
  <2>1. PICK op \in {"edit", "reauthorise"} : Begin(op)
    BY <1>1 DEF EditRead
  <2>2. admin' = [op |-> op, acc |-> row, gen |-> 0]
    BY <2>1 DEF Begin
  <2>3. UNCHANGED <<grok, row, valid, issued, aged, lock, local, todo, used, got, excused>>
    BY <1>1 DEF EditRead
  <2>4. AdminInv'
    BY <1>0, <2>2, <2>3 DEF AdminInv, Ops
  <2> QED
    BY <1>0, <2>3, <2>4, StepWrite
<1>2. CASE ManualRefresh
  <2>1. /\ issued' = issued + 1 /\ valid' = (valid \ {row.cred.gen}) \cup {issued + 1}
        /\ admin' = [op |-> "refresh", acc |-> row, gen |-> issued + 1]
        /\ excused'
        /\ UNCHANGED <<grok, row, aged, lock, local, todo, used, got>>
    BY <1>2 DEF ManualRefresh, Rotate
  <2>2. AdminInv'
    <3>1. row.cred.gen \in 1 .. issued' /\ issued + 1 \in 1 .. issued' /\ issued + 1 \in Nat
      BY <1>0, <2>1
    <3> QED
      BY <1>0, <2>1, <3>1 DEF AdminInv, Ops
  <2> QED
    BY <1>0, <2>1, <2>2, StepWrite
<1>3. CASE ManualRead
  <2>1. /\ admin' = [op |-> "edit", gen |-> 0,
                     acc |-> [row EXCEPT !.cred = [admin.acc.cred EXCEPT !.gen = admin.gen]]]
        /\ admin.op = "refresh"
        /\ UNCHANGED <<grok, row, valid, issued, aged, lock, local, todo, used, got, excused>>
    BY <1>3 DEF ManualRead
  <2>2. AdminInv'
    <3>1. admin.gen \in 1 .. issued /\ (grok => admin.acc.cred.grant = row.cred.grant)
      BY <2>1 DEF IInv, AdminInv
    <3> DEFINE new == [admin.acc.cred EXCEPT !.gen = admin.gen]
    <3>2. new \in Creds /\ new.gen \in 1 .. issued /\ new.grant = admin.acc.cred.grant
      BY <1>0, <3>1 DEF Creds
    <3> HIDE DEF new
    <3>3. admin' = [op |-> "edit", gen |-> 0, acc |-> [row EXCEPT !.cred = new]]
      BY <2>1 DEF new
    <3>4. /\ admin'.acc \in Accounts /\ admin'.acc.cred = new /\ admin'.acc.active = row.active
          /\ admin' \in [op : Ops, acc : Accounts, gen : Nat] /\ admin'.op = "edit"
      BY <1>0, <3>2, <3>3 DEF Accounts, Ops
    <3> QED
      BY <2>1, <3>1, <3>2, <3>4 DEF AdminInv
  <2> QED
    BY <1>0, <2>1, <2>2, StepWrite
<1>4. Idle \in [op : Ops, acc : Accounts, gen : Nat] /\ Idle.op = "idle"
  BY DEF Idle, First, Ops, Accounts, Creds
<1>5. Stored(admin.acc) \in Accounts /\ Stored(admin.acc).cred = admin.acc.cred
  BY <1>0 DEF Stored, Accounts
<1>6. Idle.acc.cred.gen = 1 /\ 1 \in 1 .. issued /\ 1 \in 1 .. (issued + 1)
  BY <1>0 DEF Idle, First
<1>7. CASE EditWrite
  <2>1. /\ row' = Stored(admin.acc) /\ admin' = Idle
        /\ excused' = (excused \/ row.cred # admin.acc.cred)
        /\ UNCHANGED <<grok, valid, issued, aged, lock, local, todo, used, got>>
    BY <1>7 DEF EditWrite
  <2>2. AdminInv'
    BY <1>4, <1>6, <2>1 DEF AdminInv
  <2>3. CASE row.cred = admin.acc.cred
    BY <1>5, <2>1, <2>2, <2>3, StepWrite
  <2>4. CASE row.cred # admin.acc.cred
    BY <1>0, <1>5, <2>1, <2>2, <2>4, StepWrite
  <2> QED
    BY <2>3, <2>4
<1>8. CASE ReauthoriseWrite
  <2> DEFINE new == [gen |-> issued + 1, grant |-> admin.acc.cred.grant + 1]
  <2>1. new \in Creds /\ new.gen = issued + 1
    BY <1>0 DEF Creds
  <2>2. row' = [Stored(admin.acc) EXCEPT !.cred = new]
    BY <1>0, <1>5, <1>8 DEF ReauthoriseWrite, Accounts
  <2> HIDE DEF new
  <2>3. row' \in Accounts /\ row'.cred.gen = issued + 1
    BY <1>5, <2>1, <2>2 DEF Accounts
  <2>4. /\ issued' = issued + 1 /\ valid' = valid \cup {issued + 1}
        /\ admin' = [Idle EXCEPT !.op = "clear"]
        /\ UNCHANGED <<grok, aged, lock, local, todo, used, got, excused>>
    BY <1>8 DEF ReauthoriseWrite
  <2>5. AdminInv'
    <3>1. /\ admin' \in [op : Ops, acc : Accounts, gen : Nat]
          /\ admin'.op = "clear" /\ admin'.acc = Idle.acc
      BY <1>4, <2>4 DEF Ops
    <3> QED
      BY <1>6, <2>4, <3>1 DEF AdminInv
  <2> QED
    BY <2>3, <2>4, <2>5, StepWrite
<1>9. CASE ClearAccountError
  <2>1. /\ row' = [row EXCEPT !.active = TRUE] /\ admin' = Idle
        /\ UNCHANGED <<grok, valid, issued, aged, lock, local, todo, used, got, excused>>
    BY <1>9 DEF ClearAccountError
  <2>2. row' \in Accounts /\ row'.cred = row.cred
    BY <1>0, <2>1 DEF Accounts
  <2>3. AdminInv'
    BY <1>4, <1>6, <2>1 DEF AdminInv
  <2> QED
    BY <2>1, <2>2, <2>3, StepWrite
<1>10. CASE Enable
  <2>1. /\ row' = [row EXCEPT !.schedulable = TRUE]
        /\ UNCHANGED <<grok, valid, issued, aged, lock, local, todo, used, got, admin, excused>>
    BY <1>10 DEF Enable
  <2>2. row' \in Accounts /\ row'.cred = row.cred /\ row'.active = row.active
    BY <1>0, <2>1 DEF Accounts
  <2>3. AdminInv'
    BY <2>1, <2>2 DEF IInv, AdminInv
  <2> QED
    BY <2>1, <2>2, <2>3, StepWrite
<1> QED
  BY <1>1, <1>2, <1>3, <1>7, <1>8, <1>9, <1>10 DEF Finish

LEMMA StepAttempt == ASSUME IInv, NEW c \in Callers, Attempt(c) PROVE IInv'
<1>1. CASE WaitTimesOut(c)
  BY <1>1, StepOutside DEF WaitTimesOut, accountVars, providerVars
<1>2. CASE Retry(c)
  BY <1>2, StepOutside DEF Retry, accountVars, providerVars, Outcomes
<1> QED
  BY <1>1, <1>2, StepEnter, StepReread, StepRefresh, StepRecover, StepPersist, StepUnlock,
     StepOutcome, StepTakeToken DEF Attempt

LEMMA Step == IInv /\ [Next]_vars => IInv'
<1> SUFFICES ASSUME IInv, [Next]_vars PROVE IInv'
  OBVIOUS
<1>1. ASSUME NEW w \in Workers, List(w) PROVE IInv'
  BY <1>1, StepStart DEF List, accountVars, providerVars, Callers
<1>2. ASSUME NEW q \in Requests, Ask(q) PROVE IInv'
  BY <1>2, StepStart DEF Ask, accountVars, providerVars, Callers
<1>3. CASE UNCHANGED vars
  BY <1>3 DEF vars, accountVars, providerVars, callerVars, IInv, TypeInv, CallerInv, MutexInv,
              RejectedInv, NeedsRefresh, AdminInv, OnceInv
<1> QED
  BY <1>1, <1>2, <1>3, StepAttempt, StepTime, StepAdmin, StepCrash DEF Next

LEMMA Inductive == Spec => []IInv
BY Initially, Step, PTL DEF Spec

-----------------------------------------------------------------------------
(* The theorems                                                            *)

\* The variables keep their types, a caller never has more than three calls left,
\* and whoever works on the account has its instance's mutex.
THEOREM TypeCorrect == Spec => []TypeOK
<1>1. IInv => TypeOK
  <2> SUFFICES ASSUME IInv PROVE TypeOK
    OBVIOUS
  <2>1. ASSUME NEW c \in Callers PROVE Len(todo[c]) <= 3
    BY PlanLength DEF IInv, CallerInv
  <2>2. ASSUME NEW c \in Callers, Working(c) PROVE local[Home[c]] = c
    <3>1. PICK call \in Calls : At(c, call)
      BY <2>2 DEF Working, Calls
    <3> QED
      BY <3>1, CallHas DEF IInv, CallerInv, MutexInv
  <2>3. aged < issued + 1
    BY DEF IInv, TypeInv
  <2> QED
    BY <2>1, <2>2, <2>3 DEF IInv, TypeInv, TypeOK
<1> QED
  BY <1>1, Inductive, PTL

\* Mutex, lock and the second read keep the callers of all instances apart: as long
\* as no lock was missing or ran out, no answer was lost and the administrator kept
\* away, nobody presents a refresh token the provider has already rotated.
THEOREM RotatedOnce == Spec => []PresentedOnce
<1>1. IInv => PresentedOnce
  <2> SUFFICES ASSUME IInv, NEW c \in Callers, At(c, "recover") PROVE excused
    BY DEF PresentedOnce
  <2>1. Has(todo[c], "recover")
    BY CallHas DEF IInv, CallerInv, Calls
  <2> QED
    BY <2>1 DEF IInv, OnceInv
<1> QED
  BY <1>1, Inductive, PTL

\* The steps that write the account
LEMMA Writers ==
    ASSUME [Next]_vars, row' # row
    PROVE  \/ \E c \in Callers : Persist(c) \/ Reject(c) \/ Disable(c)
           \/ EditWrite \/ ReauthoriseWrite \/ ClearAccountError \/ Enable
<1> USE DEF accountVars
<1>1. ASSUME NEW c \in Callers, Attempt(c) PROVE Persist(c) \/ Reject(c) \/ Disable(c)
  BY <1>1 DEF Attempt, Enter, WaitTimesOut, Reread, Refresh, Recover, Unlock, Retry, Exhaust,
              PostRefresh, TakeToken, Cool, GiveUp
<1>2. ~Age /\ ~LockExpires /\ ~CoolingEnds /\ ~EditRead /\ ~ManualRefresh /\ ~ManualRead
  BY DEF Age, LockExpires, CoolingEnds, EditRead, ManualRefresh, ManualRead
<1>3. /\ \A w \in Workers : ~List(w)
      /\ \A q \in Requests : ~Ask(q)
      /\ \A i \in Instances : ~Crash(i)
  BY DEF List, Ask, Crash
<1> QED
  BY <1>1, <1>2, <1>3 DEF Next, Finish, vars

\* For Grok, whose updates are conditional, no refresh that began with an old grant
\* replaces a newer one.
THEOREM GrantKept == Spec => GrantSurvives
<1>1. IInv /\ [Next]_vars => (grok => row'.cred.grant >= row.cred.grant)
  <2> SUFFICES ASSUME IInv, [Next]_vars, grok PROVE row'.cred.grant >= row.cred.grant
    OBVIOUS
  <2>0. row \in Accounts /\ row.cred.grant \in Nat /\ admin.acc \in Accounts
    BY DEF IInv, TypeInv, AdminInv, Accounts, Creds
  <2>1. CASE row' = row
    BY <2>0, <2>1
  <2>2. ASSUME NEW c \in Callers, Persist(c) PROVE row'.cred.grant = row.cred.grant
    BY <2>0, <2>2 DEF Persist, Unchanged, Accounts, Creds
  <2>3. ASSUME NEW c \in Callers, Reject(c) \/ Disable(c) PROVE row'.cred = row.cred
    BY <2>0, <2>3 DEF Reject, Disable, Disabled, Accounts
  <2>4. CASE EditWrite
    <3>1. admin.acc.cred.grant = row.cred.grant
      BY <2>4 DEF EditWrite, IInv, AdminInv
    <3> QED
      BY <2>0, <2>4, <3>1 DEF EditWrite, Stored, Accounts
  <2>5. CASE ReauthoriseWrite
    <3>1. admin.acc.cred.grant = row.cred.grant
      BY <2>5 DEF ReauthoriseWrite, IInv, AdminInv
    <3>2. row'.cred.grant = admin.acc.cred.grant + 1
      BY <2>0, <2>5 DEF ReauthoriseWrite, Stored, Accounts
    <3> QED
      BY <2>0, <3>1, <3>2
  <2>6. CASE ClearAccountError \/ Enable
    <3>1. row'.cred = row.cred
      BY <2>0, <2>6 DEF ClearAccountError, Enable, Accounts
    <3> QED
      BY <2>0, <3>1
  <2> QED
    BY <2>0, <2>1, <2>2, <2>3, <2>4, <2>5, <2>6, Writers
<1>2. IInv /\ [Next]_vars => [grok => row'.cred.grant >= row.cred.grant]_vars
  BY <1>1
<1> QED
  BY <1>2, Inductive, PTL DEF Spec, GrantSurvives

\* For Grok, an account that a refresh or a request takes out of service still holds
\* the token that was rejected, or the access token that ran out: one reauthorised or
\* refreshed meanwhile stays in service.
THEOREM DisabledByItsToken == Spec => DisabledForItsToken
<1> DEFINE Deserved ==
      \/ row.cred.gen \notin valid
      \/ NeedsRefresh(row.cred) /\ \E q \in Requests : At(q, "expired")
<1>1. IInv /\ [Next]_vars => (grok /\ row.active /\ ~row'.active => Deserved)
  <2> SUFFICES ASSUME IInv, [Next]_vars, grok, row.active, ~row'.active
               PROVE  Deserved
    OBVIOUS
  <2>0. row \in Accounts /\ admin.acc \in Accounts /\ row' # row
    BY DEF IInv, TypeInv, AdminInv
  <2>1. ASSUME NEW c \in Callers, Persist(c) PROVE FALSE
    BY <2>0, <2>1 DEF Persist, Accounts
  <2>2. ASSUME NEW c \in Callers, At(c, "reject"), row.cred = used[c] PROVE Deserved
    <3>1. Has(todo[c], "reject")
      BY <2>2, AtSingle, HasOne DEF IInv, CallerInv, Outcomes
    <3> QED
      BY <2>2, <3>1 DEF IInv, RejectedInv
  <2>6. ASSUME NEW c \in Callers, Reject(c) PROVE Deserved
    BY <2>0, <2>2, <2>6 DEF Reject, Unchanged
  <2>7. ASSUME NEW c \in Callers, Disable(c) PROVE Deserved
    <3>1. CASE At(c, "reject")
      BY <2>2, <2>7, <3>1 DEF Disable, Matches
    <3>2. CASE At(c, "expired")
      <4>1. Has(todo[c], "expired")
        BY <3>2, AtSingle, HasOne DEF IInv, CallerInv, Outcomes
      <4> QED
        BY <2>7, <3>2, <4>1 DEF Disable, Matches, IInv, RejectedInv
    <3> QED
      BY <2>7, <3>1, <3>2 DEF Disable
  <2>3. CASE EditWrite
    <3>1. admin.acc.active
      BY <2>3 DEF EditWrite, IInv, AdminInv
    <3> QED
      BY <2>0, <2>3, <3>1 DEF EditWrite, Stored, Accounts
  <2>4. CASE ReauthoriseWrite
    <3>1. admin.acc.active
      BY <2>4 DEF ReauthoriseWrite, IInv, AdminInv
    <3> QED
      BY <2>0, <2>4, <3>1 DEF ReauthoriseWrite, Stored, Accounts
  <2>5. CASE ClearAccountError \/ Enable
    BY <2>0, <2>5 DEF ClearAccountError, Enable, Accounts
  <2> QED
    BY <2>0, <2>1, <2>3, <2>4, <2>5, <2>6, <2>7, Writers
<1>2. IInv /\ [Next]_vars => [grok /\ row.active /\ ~row'.active => Deserved]_vars
  BY <1>1
<1> QED
  BY <1>2, Inductive, PTL DEF Spec, DisabledForItsToken
=============================================================================
