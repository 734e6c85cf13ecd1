------------------------- MODULE BackupStatusProofs -------------------------
(***************************************************************************)
(* Exit code 0 of the backup status means the RPO, for any window, any     *)
(* number of exports, records, archives and accidents; and a check that    *)
(* nothing disturbs is right both ways.                                    *)
(***************************************************************************)
EXTENDS BackupStatus, NumberProofs, TLAPS

USE StatusAssumption

(***************************************************************************)
(* An archive holds what was written Slack before its date, because its    *)
(* request asked for what was written at its preflight.                    *)
(***************************************************************************)
AskedFor(c) ==
    request[c].status = "asked" =>
        /\ asked[c] <= clock
        /\ \A r \in 1..written : at[r] < asked[c] => r \in request[c].need

Holds(n) ==
    /\ n <= clock + Slack
    /\ \A r \in 1..written : at[r] < n - Slack => r \in stored[n]

(***************************************************************************)
(* The check dates what is stored, and what it settled on was sound since  *)
(* it began.                                                               *)
(***************************************************************************)
WasSound(n) == health[n] = "sound" \/ n \in check.harmed

ChecksTruly ==
    /\ check.found \subseteq DOMAIN stored
    /\ \A n \in DOMAIN check.age : n \in DOMAIN stored /\ check.age[n] = check.moment - n
    /\ check.newest # NoArchive => WasSound(check.newest)

GreenIsRecent ==
    check.pc = "green" =>
        \E n \in DOMAIN stored :
            check.moment - MaxAge <= n /\ n <= check.moment /\ WasSound(n)

IInv ==
    /\ TypeOK
    /\ \A c \in Client : AskedFor(c)
    /\ \A n \in DOMAIN stored : Holds(n)
    /\ ChecksTruly
    /\ GreenIsRecent

LEMMA InitIInv == Init => IInv
  BY DEF Init, IInv, TypeOK, Store!Init, Store!TypeOK, Store!Status, AskedFor, Holds, ChecksTruly,
         GreenIsRecent, WasSound, Fresh, Resting, Instant, Stamp

(***************************************************************************)
(* The surroundings.                                                       *)
(***************************************************************************)
LEMMA WriteStep == ASSUME IInv, Write PROVE IInv'
<1> USE DEF IInv, Write, Store!Write
<1>1. written' = written + 1 /\ written \in Nat
  BY DEF TypeOK, Store!TypeOK
<1>2. at' \in [1..written' -> Instant] /\ \A r \in 1..written : at'[r] = at[r]
  BY <1>1 DEF TypeOK
<1>3. Store!TypeOK'
  BY <1>1 DEF TypeOK, Store!TypeOK
<1>4. TypeOK'
  BY <1>2, <1>3 DEF TypeOK
<1>5. \A c \in Client : AskedFor(c)'
  <2> TAKE c \in Client
  <2>1. clock \in Int /\ asked[c] \in Int
    BY DEF TypeOK, Instant
  <2>2. \A r \in 1..written' : r \in 1..written \/ at'[r] = clock
    BY <1>1
  <2> QED BY <1>1, <1>2, <2>1, <2>2 DEF AskedFor
<1>6. \A n \in DOMAIN stored' : Holds(n)'
  <2> TAKE n \in DOMAIN stored'
  <2>1. clock \in Int /\ n \in Int
    BY DEF TypeOK, Instant, Store!TypeOK, Stamp
  <2>2. \A r \in 1..written' : r \in 1..written \/ at'[r] = clock
    BY <1>1
  <2> QED BY <1>1, <1>2, <2>1, <2>2 DEF Holds
<1>7. ChecksTruly' /\ GreenIsRecent'
  BY DEF ChecksTruly, GreenIsRecent, WasSound
<1> QED BY <1>4, <1>5, <1>6, <1>7

LEMMA AskStep == ASSUME IInv, NEW c \in Client, Ask(c) PROVE IInv'
<1> USE DEF IInv, Ask, Store!Ask
<1>1. TypeOK'
  BY DEF TypeOK, Store!TypeOK, Store!Status
<1>2. \A e \in Client : AskedFor(e)'
  BY DEF TypeOK, Store!TypeOK, Store!Status, Instant, AskedFor
<1>3. \A n \in DOMAIN stored' : Holds(n)'
  BY DEF Holds
<1>4. ChecksTruly' /\ GreenIsRecent'
  BY DEF ChecksTruly, GreenIsRecent, WasSound
<1> QED BY <1>1, <1>2, <1>3, <1>4

LEMMA LandStep == ASSUME IInv, NEW c \in Client, Land(c) PROVE IInv'
<1> USE DEF IInv, Land
<1>1. PICK s \in Stamp \ DOMAIN stored, k \in 1..written :
        /\ request[c].need \subseteq 1..k
        /\ stored' = [t \in DOMAIN stored \cup {s} |-> IF t = s THEN 1..k ELSE stored[t]]
  BY DEF Store!Store
<1>2. /\ DOMAIN stored' = DOMAIN stored \cup {s} /\ stored'[s] = 1..k
      /\ \A n \in DOMAIN stored : stored'[n] = stored[n] /\ health'[n] = health[n]
      /\ s <= asked[c] + Slack
  BY <1>1 DEF TypeOK, Instant, Stamp
<1>3. UNCHANGED <<written, request, clock, at, asked, faults>> /\ request[c].status = "asked"
  BY DEF Store!Store
<1>4. TypeOK'
  <2>1. Store!TypeOK'
    BY <1>1, <1>2, <1>3 DEF TypeOK, Store!TypeOK, Store!Status
  <2>2. health' \in [DOMAIN stored' -> Condition]
    BY DEF TypeOK, Condition
  <2> QED BY <1>3, <2>1, <2>2 DEF TypeOK, Fresh
<1>5. \A e \in Client : AskedFor(e)'
  BY <1>3 DEF AskedFor
<1>6. \A n \in DOMAIN stored' : Holds(n)'
  <2>1. s \in Int /\ asked[c] \in Int /\ clock \in Int /\ \A r \in 1..written : at[r] \in Int
    BY DEF TypeOK, Instant, Stamp
  <2>2. Holds(s)'
    BY <1>1, <1>2, <1>3, <2>1 DEF Holds, AskedFor
  <2> QED BY <1>2, <1>3, <2>2 DEF Holds
<1>7. ChecksTruly' /\ GreenIsRecent'
  BY <1>2, <1>3 DEF TypeOK, ChecksTruly, GreenIsRecent, WasSound
<1> QED BY <1>4, <1>5, <1>6, <1>7

LEMMA AnswerStep == ASSUME IInv, NEW c \in Client, Answer(c) PROVE IInv'
<1> USE DEF IInv, Answer, Store!Refuse
<1>1. TypeOK'
  BY DEF TypeOK, Store!TypeOK, Store!Status
<1>2. \A e \in Client : AskedFor(e)'
  BY DEF TypeOK, Store!TypeOK, Store!Status, AskedFor
<1>3. \A n \in DOMAIN stored' : Holds(n)'
  BY DEF Holds
<1>4. ChecksTruly' /\ GreenIsRecent'
  BY DEF ChecksTruly, GreenIsRecent, WasSound
<1> QED BY <1>1, <1>2, <1>3, <1>4

LEMMA HarmStep == ASSUME IInv, NEW h \in Stamp, Harm(h) PROVE IInv'
<1> USE DEF IInv, Harm, exports
<1>1. TypeOK'
  BY DEF TypeOK, Store!TypeOK, Fresh
<1>2. \A e \in Client : AskedFor(e)'
  BY DEF AskedFor
<1>3. \A n \in DOMAIN stored' : Holds(n)'
  BY DEF Holds
<1>4. \A n \in DOMAIN stored : WasSound(n) => WasSound(n)'
  BY DEF TypeOK, WasSound, Fresh
<1>5. ChecksTruly' /\ GreenIsRecent'
  BY <1>4 DEF TypeOK, ChecksTruly, GreenIsRecent, Fresh
<1> QED BY <1>1, <1>2, <1>3, <1>5

LEMMA TickStep == ASSUME IInv, Tick PROVE IInv'
<1> USE DEF IInv, Tick, exports
<1>1. TypeOK'
  BY DEF TypeOK, Store!TypeOK, Instant
<1>2. \A e \in Client : AskedFor(e)'
  BY DEF AskedFor, TypeOK, Instant
<1>3. \A n \in DOMAIN stored' : Holds(n)'
  BY DEF Holds, TypeOK, Store!TypeOK, Instant, Stamp
<1>4. ChecksTruly' /\ GreenIsRecent'
  BY DEF ChecksTruly, GreenIsRecent, WasSound
<1> QED BY <1>1, <1>2, <1>3, <1>4

(***************************************************************************)
(* The check.                                                              *)
(***************************************************************************)
LEMMA QuietStep ==
    ASSUME IInv, Quietly,
           DOMAIN check' = DOMAIN Fresh,
           check'.pc \in Resting \cup {"list", "date"}, check'.moment \in Instant,
           check'.undated \subseteq Stamp, check'.failed \subseteq DOMAIN check'.age,
           check'.newest \in DOMAIN check'.age \cup {NoArchive}, check'.quiet \in BOOLEAN,
           check'.harmed \subseteq Stamp, ChecksTruly', GreenIsRecent'
    PROVE  IInv'
<1> USE DEF IInv, Quietly, exports
<1>1. TypeOK'
  BY DEF TypeOK, Store!TypeOK, ChecksTruly
<1>2. \A e \in Client : AskedFor(e)'
  BY DEF AskedFor
<1>3. \A n \in DOMAIN stored' : Holds(n)'
  BY DEF Holds
<1> QED BY <1>1, <1>2, <1>3

LEMMA BeginStep == ASSUME IInv, Begin PROVE IInv'
<1> USE DEF Begin
<1>1. clock \in Instant
  BY DEF IInv, TypeOK
<1>2. ChecksTruly' /\ GreenIsRecent'
  BY DEF ChecksTruly, GreenIsRecent, Fresh
<1> QED BY <1>1, <1>2, QuietStep DEF Fresh, Resting

LEMMA ListStep == ASSUME IInv, List PROVE IInv'
<1> USE DEF List, Step, Ended
<1>1. Present \subseteq DOMAIN stored
  BY DEF Present, IInv, TypeOK
<1>2. ChecksTruly' /\ GreenIsRecent'
  BY <1>1 DEF IInv, TypeOK, ChecksTruly, GreenIsRecent, Fresh, Quietly, exports, WasSound
<1> QED BY <1>2, QuietStep DEF IInv, TypeOK, Fresh, Resting

LEMMA DateStep == ASSUME IInv, NEW n \in Stamp, Date(n) PROVE IInv'
<1> USE DEF Date, Step
<1>1. n \in DOMAIN stored
  BY DEF IInv, ChecksTruly
<1>2. ChecksTruly' /\ GreenIsRecent'
  BY <1>1 DEF IInv, TypeOK, ChecksTruly, GreenIsRecent, Fresh, Quietly, exports, WasSound
<1> QED BY <1>2, QuietStep DEF IInv, TypeOK, Fresh, Resting

LEMMA ReportStep == ASSUME IInv, Report PROVE IInv'
<1> USE DEF Report, Step, Ended
<1>1. ChecksTruly'
  BY DEF ChecksTruly, Fresh, Quietly, exports
<1>2. GreenIsRecent'
  <2> SUFFICES ASSUME Clean PROVE GreenIsRecent'
    BY DEF GreenIsRecent, Fresh
  <2> PICK n : n = check.newest
    OBVIOUS
  <2>1. n \in DOMAIN stored /\ check.age[n] = check.moment - n /\ WasSound(n)
    BY DEF Clean, IInv, TypeOK, ChecksTruly
  <2>2. check.moment - MaxAge <= n /\ n <= check.moment
    BY <2>1 DEF Clean, InWindow, IInv, TypeOK, Store!TypeOK, Stamp, Instant
  <2>3. stored' = stored /\ WasSound(n)' /\ check'.moment = check.moment
    BY <2>1 DEF WasSound, Quietly, exports, Fresh
  <2> QED BY <2>1, <2>2, <2>3 DEF GreenIsRecent
<1> QED BY <1>1, <1>2, QuietStep DEF IInv, TypeOK, Fresh, Resting

LEMMA VerifyStep == ASSUME IInv, NEW n \in Stamp, Verify(n) PROVE IInv'
<1> USE DEF Verify, Step
<1>1. n \in DOMAIN check.age
  BY DEF Youngest
<1>2. ChecksTruly' /\ GreenIsRecent'
  BY <1>1 DEF IInv, TypeOK, ChecksTruly, GreenIsRecent, Fresh, Quietly, exports, WasSound, Verifies
<1> QED BY <1>1, <1>2, QuietStep DEF IInv, TypeOK, Fresh, Resting

LEMMA NextIInv == IInv /\ [Next]_vars => IInv'
<1> SUFFICES ASSUME IInv, [Next]_vars PROVE IInv'
  OBVIOUS
<1>1. CASE UNCHANGED vars
  BY <1>1 DEF IInv, vars, TypeOK, Store!TypeOK, AskedFor, Holds, ChecksTruly, GreenIsRecent, WasSound
<1>2. CASE Surroundings
  BY <1>2, WriteStep, TickStep, AskStep, LandStep, AnswerStep, HarmStep DEF Surroundings
<1>3. CASE Checking
  BY <1>3, BeginStep, ListStep, ReportStep, DateStep, VerifyStep DEF Checking
<1> QED BY <1>1, <1>2, <1>3 DEF Next

LEMMA IInvCovers == IInv => GreenMeansCovered
<1> SUFFICES ASSUME IInv, check.pc = "green"
             PROVE  \E n \in DOMAIN stored :
                      /\ check.moment - MaxAge <= n /\ n <= check.moment /\ WasSound(n)
                      /\ \A r \in 1..written :
                            at[r] < check.moment - MaxAge - Slack => r \in stored[n]
  BY DEF GreenMeansCovered, WasSound
<1>1. PICK n \in DOMAIN stored :
        check.moment - MaxAge <= n /\ n <= check.moment /\ WasSound(n)
  BY DEF IInv, GreenIsRecent
<1>2. n \in Int /\ check.moment \in Int /\ \A r \in 1..written : at[r] \in Int
  BY DEF IInv, TypeOK, Store!TypeOK, Stamp, Instant
<1>3. Holds(n)
  BY DEF IInv
<1> QED BY <1>1, <1>2, <1>3 DEF Holds

LEMMA Invariance == Spec => []IInv
  BY InitIInv, NextIInv, PTL DEF Spec

(***************************************************************************)
(* An undisturbed check is right both ways.  While nothing comes into the  *)
(* root or happens to it, what the check has put aside is what is there.   *)
(***************************************************************************)
Settled ==
    check.quiet =>
        /\ check.pc = "list" => /\ check.found = {} /\ check.undated = {} /\ check.failed = {}
                                /\ DOMAIN check.age = {} /\ check.newest = NoArchive
        /\ check.pc = "date" =>
              /\ Present # {}
              /\ check.found \cup check.undated \cup DOMAIN check.age = Present
              /\ \A n \in DOMAIN check.age : Dated(n)
              /\ \A n \in check.undated : ~Dated(n)
              /\ check.found # {} => check.failed = {} /\ check.newest = NoArchive
              /\ check.failed # {} =>
                    \E n \in check.failed : Youngest(n, DOMAIN check.age) /\ ~Verifies(n)
              /\ check.newest # NoArchive =>
                    /\ Verifies(check.newest)
                    /\ check.failed = {} => Youngest(check.newest, DOMAIN check.age)

LEMMA InitSettled == Init => Settled
BY DEF Init, Settled, Fresh

LEMMA NextSettled == IInv /\ Settled /\ [Next]_vars => Settled'
<1> SUFFICES ASSUME IInv, Settled, [Next]_vars PROVE Settled'
  OBVIOUS
<1> USE DEF Settled
<1>0. DOMAIN check = DOMAIN Fresh /\ check.quiet \in BOOLEAN
  BY DEF IInv, TypeOK
<1>1. ASSUME UNCHANGED <<health, check>> PROVE Settled'
  BY <1>1 DEF Present, Dated, Verifies, Youngest
<1>2. ASSUME check'.quiet = FALSE PROVE Settled'
  BY <1>2
<1>3. CASE UNCHANGED vars
  BY <1>1, <1>3 DEF vars
<1>4. CASE Surroundings
  <2>1. ASSUME NEW c \in Client, Land(c) PROVE check'.quiet = FALSE
    BY <1>0, <2>1 DEF Land, Fresh
  <2>2. ASSUME NEW n \in Stamp, Harm(n) PROVE check'.quiet = FALSE
    BY <1>0, <2>2 DEF Harm, Fresh
  <2> QED
    BY <1>1, <1>2, <1>4, <2>1, <2>2 DEF Surroundings, Write, Tick, Ask, Answer
<1>5. CASE Begin
  BY <1>5 DEF Begin, Fresh
<1>6. CASE List
  <2>1. CASE Present = {}
    BY <1>6, <2>1 DEF List, Step, Ended, Fresh
  <2>2. CASE Present # {}
    <3>1. check' = [check EXCEPT !.pc = "date", !.found = Present] /\ health' = health /\ check.pc = "list"
      BY <1>6, <2>2 DEF List, Step, Quietly
    <3>2. /\ check'.pc = "date" /\ check'.found = Present /\ check'.undated = check.undated
          /\ check'.failed = check.failed /\ check'.age = check.age
          /\ check'.newest = check.newest /\ check'.quiet = check.quiet
      BY <1>0, <3>1 DEF Fresh
    <3>3. Present' = Present
      BY <3>1 DEF Present
    <3> QED BY <2>2, <3>1, <3>2, <3>3
  <2> QED BY <2>1, <2>2
<1>7. ASSUME NEW n \in Stamp, Date(n) PROVE Settled'
  <2>0. n \in check.found /\ health' = health /\ check.pc = "date"
    BY <1>7 DEF Date, Step, Quietly
  <2>1. Present' = Present /\ \A m : (Dated(m)' <=> Dated(m)) /\ (Verifies(m)' <=> Verifies(m))
    BY <2>0 DEF Present, Dated, Verifies
  <2>2. /\ check'.pc = "date" /\ check'.found = check.found \ {n} /\ check'.quiet = check.quiet
        /\ check'.failed = check.failed /\ check'.newest = check.newest
        /\ Dated(n) => DOMAIN check'.age = DOMAIN check.age \cup {n} /\ check'.undated = check.undated
        /\ ~Dated(n) => check'.age = check.age /\ check'.undated = check.undated \cup {n}
    BY <1>0, <1>7, <2>0 DEF Date, Step, Fresh
  <2> QED BY <2>0, <2>1, <2>2
<1>8. ASSUME NEW n \in Stamp, Verify(n) PROVE Settled'
  <2>0. check.found = {} /\ check.newest = NoArchive /\ Youngest(n, DOMAIN check.age \ check.failed)
        /\ health' = health /\ check.pc = "date"
    BY <1>8 DEF Verify, Step, Quietly
  <2>1. Present' = Present /\ \A m : (Dated(m)' <=> Dated(m)) /\ (Verifies(m)' <=> Verifies(m))
    BY <2>0 DEF Present, Dated, Verifies
  <2>2. /\ check'.pc = "date" /\ check'.found = check.found /\ check'.quiet = check.quiet
        /\ check'.age = check.age /\ check'.undated = check.undated
        /\ Verifies(n) => check'.newest = n /\ check'.failed = check.failed
        /\ ~Verifies(n) => check'.newest = NoArchive /\ check'.failed = check.failed \cup {n}
    BY <1>0, <1>8, <2>0 DEF Verify, Step, Fresh
  <2>3. \A m, N : Youngest(m, N)' <=> m \in N /\ \A k \in N : check.age[m] <= check.age[k]
    BY <2>2 DEF Youngest
  <2>4. \A m : Youngest(m, DOMAIN check.age)' <=> Youngest(m, DOMAIN check.age)
    BY <2>2 DEF Youngest
  <2>5. check.failed = {} => Youngest(n, DOMAIN check.age)
    BY <2>0 DEF Youngest
  <2>6. CASE Verifies(n)
    BY <2>0, <2>1, <2>2, <2>4, <2>5, <2>6
  <2>7. CASE ~Verifies(n)
    <3>1. check.quiet =>
            \E m \in check.failed \cup {n} : Youngest(m, DOMAIN check.age) /\ ~Verifies(m)
      BY <2>0, <2>5, <2>7
    <3> QED BY <2>0, <2>1, <2>2, <2>4, <2>7, <3>1
  <2> QED BY <2>6, <2>7
<1>9. CASE Report
  <2>1. check'.pc \in {"green", "red"}
    BY <1>9 DEF Report, Step, Ended, Fresh
  <2> QED BY <2>1
<1> QED BY <1>3, <1>4, <1>5, <1>6, <1>7, <1>8, <1>9 DEF Next, Checking

LEMMA SettledInvariance == Spec => [](IInv /\ Settled)
BY InitIInv, NextIInv, InitSettled, NextSettled, PTL DEF Spec

(***************************************************************************)
(* Neighbours no further apart than the window, the last of them inside    *)
(* it, is the same as one archive in every window.                         *)
(***************************************************************************)
Spaced(P) == \A a, b \in P : b - a > MaxAge => \E m \in P : a < m /\ m < b

Covered(P, moment) ==
    \A n \in P, t \in Instant : (n < t /\ t <= moment) => \E m \in P : t - MaxAge <= m /\ m < t

LEMMA SpacedIsCovered ==
    ASSUME NEW P \in SUBSET Nat, NEW moment \in Instant, NEW x \in P,
           \A n \in P : n <= x, x <= moment, moment - x <= MaxAge
    PROVE  Spaced(P) <=> Covered(P, moment)
<1>1. ASSUME Spaced(P), NEW n \in P, NEW t \in Instant, n < t, t <= moment,
             \A m \in P : ~(t - MaxAge <= m /\ m < t)
      PROVE  FALSE
  <2> DEFINE before == {m \in P : m < t}
             after == {m \in P : m >= t}
  <2>1. PICK a \in before : \A m \in before : m <= a
    <3>1. t \in Nat /\ n \in before
      BY <1>1 DEF Instant
    <3>2. \A m \in before : m \in 0..t
      BY <3>1
    <3>3. before \in SUBSET (0..t) /\ before # {}
      BY <3>1, <3>2
    <3> HIDE DEF before
    <3> QED BY <3>1, <3>3, LargestOf
  <2>2. a + MaxAge < t
    BY <1>1 DEF Instant
  <2>3. x \in after
    BY <1>1, <2>1, <2>2 DEF Instant
  <2>4. PICK b \in after : \A m \in after : b <= m
    <3>1. after \in SUBSET Nat /\ after # {}
      BY <2>3
    <3> HIDE DEF after
    <3> QED BY <3>1, LeastOf
  <2>5. b - a > MaxAge
    BY <1>1, <2>2, <2>4 DEF Instant
  <2>6. PICK m \in P : a < m /\ m < b
    BY <1>1, <2>5 DEF Spaced
  <2>7. m \in before \/ m \in after
    BY <1>1 DEF Instant
  <2> QED BY <2>1, <2>4, <2>6, <2>7
<1>2. ASSUME Covered(P, moment), NEW a \in P, NEW b \in P, b - a > MaxAge
      PROVE  \E m \in P : a < m /\ m < b
  <2> DEFINE t == a + MaxAge + 1
  <2>1. t \in Instant /\ a < t /\ t <= moment /\ t <= b
    BY <1>2 DEF Instant
  <2>2. PICK m \in P : t - MaxAge <= m /\ m < t
    BY <1>2, <2>1 DEF Covered
  <2> QED BY <2>1, <2>2
<1> QED BY <1>1, <1>2 DEF Spaced, Covered

LEMMA GapsAreSpaces ==
    ASSUME NEW P \in SUBSET Nat, NEW moment \in Nat, NEW age, DOMAIN age = P,
           \A n \in P : age[n] = moment - n
    PROVE  Gaps(age) = {} <=> Spaced(P)
<1>1. Gaps(age) = {} <=>
        \A g \in P \X P : age[g[2]] - age[g[1]] > MaxAge =>
            \E m \in P : age[g[1]] < age[m] /\ age[m] < age[g[2]]
  BY DEF Gaps
<1>2. (\A g \in P \X P : age[g[2]] - age[g[1]] > MaxAge =>
            \E m \in P : age[g[1]] < age[m] /\ age[m] < age[g[2]])
      <=> \A b, a \in P : age[a] - age[b] > MaxAge =>
            \E m \in P : age[b] < age[m] /\ age[m] < age[a]
  <2>1. ASSUME \A g \in P \X P : age[g[2]] - age[g[1]] > MaxAge =>
                  \E m \in P : age[g[1]] < age[m] /\ age[m] < age[g[2]],
               NEW b \in P, NEW a \in P, age[a] - age[b] > MaxAge
        PROVE  \E m \in P : age[b] < age[m] /\ age[m] < age[a]
    <3>1. <<b, a>> \in P \X P
      OBVIOUS
    <3> QED BY <2>1, <3>1
  <2>2. ASSUME \A b, a \in P : age[a] - age[b] > MaxAge =>
                  \E m \in P : age[b] < age[m] /\ age[m] < age[a],
               NEW g \in P \X P, age[g[2]] - age[g[1]] > MaxAge
        PROVE  \E m \in P : age[g[1]] < age[m] /\ age[m] < age[g[2]]
    <3>1. g[1] \in P /\ g[2] \in P
      OBVIOUS
    <3> QED BY <2>2, <3>1
  <2> QED BY <2>1, <2>2, Zenon
<1>3. ASSUME NEW b \in P, NEW a \in P
      PROVE  /\ age[a] - age[b] > MaxAge <=> b - a > MaxAge
             /\ \A m \in P : (age[b] < age[m] /\ age[m] < age[a]) <=> (a < m /\ m < b)
  OBVIOUS
<1> QED BY <1>1, <1>2, <1>3 DEF Spaced

LEMMA CleanIsPromised ==
    ASSUME IInv, Settled, check.quiet, check.pc = "date", check.found = {},
           check.newest # NoArchive \/ DOMAIN check.age \subseteq check.failed
    PROVE  Clean <=> Promise(check.moment)
<1> DEFINE P == DOMAIN check.age
           moment == check.moment
<1>1. /\ P \subseteq Nat /\ moment \in Instant /\ moment \in Nat
      /\ \A n \in P : check.age[n] = moment - n
  BY DEF IInv, TypeOK, ChecksTruly, Stamp, Instant
<1>2. /\ Present # {} /\ check.undated \cup P = Present
      /\ \A n \in P : Dated(n)
      /\ \A n \in check.undated : ~Dated(n)
      /\ check.failed # {} => \E n \in check.failed : Youngest(n, P) /\ ~Verifies(n)
      /\ check.newest # NoArchive =>
            /\ Verifies(check.newest)
            /\ check.failed = {} => Youngest(check.newest, P)
  BY DEF Settled
<1>3. ASSUME NEW n, Youngest(n, P)
      PROVE  n \in P /\ \A m \in P : m <= n
  <2>1. n \in P /\ \A m \in P : check.age[n] <= check.age[m]
    BY <1>3 DEF Youngest
  <2>2. ASSUME NEW m \in P PROVE m <= n
    BY <1>1, <2>1
  <2> QED BY <2>1, <2>2
<1>4. CASE check.undated # {}
  BY <1>2, <1>4 DEF Clean, Promise
<1>5. CASE check.undated = {} /\ check.failed # {}
  <2>1. PICK n \in check.failed : Youngest(n, P) /\ ~Verifies(n)
    BY <1>2, <1>5
  <2>2. n \in Present /\ \A m \in Present : m <= n
    BY <1>2, <1>3, <1>5, <2>1
  <2>3. ~Promise(moment)
    BY <2>1, <2>2 DEF Promise
  <2> QED BY <1>5, <2>3 DEF Clean
<1>6. CASE check.undated = {} /\ check.failed = {}
  <2>1. check.newest # NoArchive
    BY <1>2, <1>6
  <2> PICK x : x = check.newest
    OBVIOUS
  <2>2. x \in P /\ Verifies(x) /\ \A m \in P : m <= x
    BY <1>2, <1>3, <1>6, <2>1
  <2>3. P = Present
    BY <1>2, <1>6
  <2>4. check.age[x] = moment - x /\ x \in Nat
    BY <1>1, <2>2
  <2>5. Clean <=> Spaced(P) /\ x <= moment /\ moment - x <= MaxAge
    <3>1. Gaps(check.age) = {} <=> Spaced(P)
      <4> HIDE DEF moment
      <4> DEFINE age == check.age
      <4>1. DOMAIN age = P /\ P \in SUBSET Nat /\ \A n \in P : age[n] = moment - n
        BY <1>1
      <4> HIDE DEF age, P
      <4>2. Gaps(age) = {} <=> Spaced(P)
        BY <1>1, <4>1, GapsAreSpaces
      <4> QED BY <4>2 DEF age
    <3>2. InWindow(check.age[x]) <=> x <= moment /\ moment - x <= MaxAge
      BY <1>1, <2>4 DEF InWindow
    <3> QED BY <1>6, <2>1, <3>1, <3>2 DEF Clean
  <2>6. Promise(moment) <=> x <= moment /\ Covered(P, moment)
    <3>1. (\A n \in Present : Dated(n) /\ n <= moment) <=> x <= moment
      BY <1>1, <1>2, <2>2, <2>3
    <3>2. \A n \in Present : (\A m \in Present : m <= n) => Verifies(n)
      <4> SUFFICES ASSUME NEW n \in Present, \A m \in Present : m <= n PROVE Verifies(n)
        OBVIOUS
      <4>1. n <= x /\ x <= n /\ n \in Nat
        BY <1>1, <2>2, <2>3
      <4>2. n = x
        BY <2>4, <4>1
      <4> QED BY <2>2, <4>2
    <3> QED BY <1>2, <2>3, <3>1, <3>2 DEF Promise, Covered
  <2>7. Covered(P, moment) /\ x <= moment => moment - x <= MaxAge
    <3> SUFFICES ASSUME Covered(P, moment), x < moment PROVE moment - x <= MaxAge
      BY <1>1, <2>4
    <3>1. PICK m \in P : moment - MaxAge <= m /\ m < moment
      BY <1>1, <2>2 DEF Covered
    <3>2. m <= x /\ m \in Nat
      BY <1>1, <2>2
    <3> QED BY <1>1, <2>4, <3>1, <3>2
  <2>8. x <= moment /\ moment - x <= MaxAge => (Spaced(P) <=> Covered(P, moment))
    <3> HIDE DEF P, moment
    <3> QED BY <1>1, <2>2, SpacedIsCovered
  <2> QED BY <2>5, <2>6, <2>7, <2>8
<1> QED BY <1>4, <1>5, <1>6

\* Rounding has nothing to decide where no neighbours are the window apart.
LEMMA NotEdgedNotRounded ==
    ASSUME IInv, Settled, check.quiet, check.pc = "date", check.found = {}, Clean, ~Edged
    PROVE  OnTheWindow(check.age) = {}
<1> DEFINE P == DOMAIN check.age
           moment == check.moment
           age == check.age
<1>1. moment \in Nat /\ P \subseteq Nat /\ \A n \in P : age[n] = moment - n
  BY DEF IInv, TypeOK, ChecksTruly, Stamp, Instant
<1>2. P = Present
  BY DEF Settled, Clean
<1>3. ASSUME NEW a \in P, NEW b \in P, age[b] - age[a] = MaxAge,
             ~\E m \in P : age[a] < age[m] /\ age[m] < age[b]
      PROVE  Edged
  <2>1. a - b = MaxAge
    BY <1>1, <1>3
  <2>2. ASSUME NEW k \in P, b < k, k < a PROVE FALSE
    BY <1>1, <1>3, <2>2
  <2> QED BY <1>2, <1>3, <2>1, <2>2 DEF Edged
<1> QED BY <1>3 DEF OnTheWindow

LEMMA VerdictStep ==
    ASSUME IInv, Settled, [Next]_vars,
           check.pc \notin Resting, check'.pc \in Resting, check.quiet
    PROVE  /\ check'.pc = "green" => Promise(check.moment)
           /\ Promise(check.moment) /\ ~Edged => check'.pc = "green"
<1>0. DOMAIN check = DOMAIN Fresh
  BY DEF IInv, TypeOK
<1>1. CASE UNCHANGED vars \/ Surroundings \/ Begin
  <2>1. check'.pc = check.pc \/ check.pc \in Resting
    BY <1>0, <1>1 DEF vars, Surroundings, Write, Tick, Ask, Land, Answer, Harm, Begin, Fresh
  <2> QED BY <2>1
<1>2. CASE List
  <2>1. Present = {} /\ check'.pc = "red"
    BY <1>0, <1>2 DEF List, Step, Ended, Fresh, Resting
  <2> QED BY <2>1 DEF Promise
<1>3. ASSUME NEW n \in Stamp, Date(n) \/ Verify(n) PROVE FALSE
  <2>1. check'.pc = "date"
    BY <1>0, <1>3 DEF Date, Verify, Step, Fresh
  <2> QED BY <2>1 DEF Resting
<1>4. CASE Report
  <2>1. /\ check.found = {} /\ check.pc = "date"
        /\ check.newest # NoArchive \/ DOMAIN check.age \subseteq check.failed
        /\ check'.pc = "green" => Clean
        /\ Clean /\ OnTheWindow(check.age) = {} => check'.pc = "green"
    BY <1>4 DEF Report, Step, Ended, Fresh
  <2>2. Clean <=> Promise(check.moment)
    BY <2>1, CleanIsPromised
  <2>3. Clean /\ ~Edged => OnTheWindow(check.age) = {}
    BY <2>1, NotEdgedNotRounded
  <2> QED BY <2>1, <2>2, <2>3
<1> QED BY <1>1, <1>2, <1>3, <1>4 DEF Next, Checking

\* The variables keep their types.
THEOREM StatusTypes == Spec => []TypeOK
<1>1. IInv => TypeOK
  BY DEF IInv
<1> QED BY <1>1, Invariance, PTL

\* Exit code 0 means that an archive dated inside the window and sound when the
\* check began holds every record older than the window: report() cannot miss it.
THEOREM GreenIsCovered == Spec => []GreenMeansCovered
  BY IInvCovers, Invariance, PTL

\* A check that nothing disturbs exits 0 only when the root keeps the promise, and always
\* then, but where neighbours are exactly the window apart and rounding decides: the
\* neighbours it compares and the newest it verifies say as much as every window would.
THEOREM UndisturbedIsRight == Spec => VerdictExact
<1>1. IInv /\ Settled /\ [Next]_vars =>
        [ (check.pc \notin Resting /\ check'.pc \in Resting /\ check.quiet) =>
            /\ check'.pc = "green" => Promise(check.moment)
            /\ Promise(check.moment) /\ ~Edged => check'.pc = "green" ]_vars
  BY VerdictStep
<1> QED BY <1>1, SettledInvariance, PTL DEF Spec, VerdictExact
=============================================================================
