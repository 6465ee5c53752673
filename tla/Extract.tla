------------------------------- MODULE Extract --------------------------------
(***************************************************************************)
(* Reading a balance from a platform (src/internal/provider): the request  *)
(* with its retries (Client.Do, GetJSON), the platform's own verdict on    *)
(* the answer (customCheck) and the number in the answer (pathExtract,     *)
(* minWindowExtract).                                                      *)
(*                                                                         *)
(* A JSON value is [t, v] with t one of null, num, word, text, obj, arr.   *)
(* A `text' is a string with the number v in it; `clean' says that it is   *)
(* nothing but the number.  A path is a sequence of tokens: a field, an    *)
(* index or a filter; alternatives are a sequence of paths.  Percentages   *)
(* are in hundredths, as round2 leaves them.                               *)
(***************************************************************************)
EXTENDS Integers, Sequences, FiniteSets, FiniteSetsExt, SequencesExt

CONSTANTS
  MaxRetries,      \* 3
  Answers,         \* what the platform may answer: [status, json, data]
  Definitions      \* the page-defined platforms fetched from


Null == [t |-> "null", v |-> 0]
NumV(n) == [t |-> "num", v |-> n]
Word(s) == [t |-> "word", v |-> s]
Text(n, clean) == [t |-> "text", v |-> n, clean |-> clean]
Obj(f) == [t |-> "obj", v |-> f]
Arr(q) == [t |-> "arr", v |-> q]

Field(name) == [k |-> "field", f |-> name, i |-> 0, want |-> Null]
Index(n) == [k |-> "index", f |-> "", i |-> n, want |-> Null]
Filter(name, want) == [k |-> "filter", f |-> name, i |-> 0, want |-> want]

At(obj, name) ==
  IF obj.t = "obj" /\ name \in DOMAIN obj.v THEN obj.v[name] ELSE Null

\* Mutant: the filter is not applied.
PickElementFirst(cur, tok) == IF cur.t = "arr" /\ cur.v # <<>> THEN cur.v[1] ELSE Null

\* pickElement: the first element whose field has the value, else the first.
PickElement(cur, tok) ==
  LET arr == cur.v
      hits == {i \in DOMAIN arr : At(arr[i], tok.f) = tok.want /\ tok.want.t \in {"word", "num"}}
  IN  IF cur.t # "arr" THEN Null
      ELSE IF arr = <<>> THEN Null
      ELSE IF hits = {} THEN arr[1] ELSE arr[Min(hits)]

\* One token of DigPath; a missing level is null from there on.
Walk(cur, tok) ==
  CASE tok.k = "filter" -> PickElement(cur, tok)
    [] tok.k = "index" -> IF cur.t = "arr" /\ tok.i + 1 \in DOMAIN cur.v THEN cur.v[tok.i + 1] ELSE Null
    [] tok.k = "field" -> At(cur, tok.f)

DigPath(data, path) == FoldLeft(Walk, data, path)

\* DigFirst: the first alternative that finds something.
DigFirst(data, paths) ==
  LET found == {i \in DOMAIN paths : DigPath(data, paths[i]).t # "null"}
  IN  IF found = {} THEN Null ELSE DigPath(data, paths[Min(found)])

\* numLoose: a number, a numeric string, or the first number inside a string.
NumLoose(v) == IF v.t \in {"num", "text"} THEN <<v.v>> ELSE <<>>

\* jsonNum of the window fields: no sentences.
JsonNum(v) == IF v.t = "num" \/ (v.t = "text" /\ v.clean) THEN <<v.v>> ELSE <<>>

\* pathExtract: <<number>>, or nothing when the answer has no number there.
PathExtract(p, data) ==
  LET raw == NumLoose(DigFirst(data, p.balancePath))
      used == NumLoose(DigFirst(data, p.subtractPath))
  IN  IF raw = <<>> THEN <<>>
      ELSE IF p.subtractPath = <<>> THEN <<raw[1] * p.scale>>
      ELSE IF used = <<>> THEN <<>> ELSE <<(raw[1] - used[1]) * p.scale>>

ClampPercent(x) == IF x < 0 THEN 0 ELSE IF x > 10000 THEN 10000 ELSE x

\* glmRemainingPercent: exact from totals, else from the used percentage.
RemainingPercent(limit) ==
  LET usage == JsonNum(At(limit, "usage"))
      left == JsonNum(At(limit, "remaining"))
      percent == JsonNum(At(limit, "percentage"))
  IN  IF usage # <<>> /\ left # <<>> /\ usage[1] > 0 THEN <<ClampPercent((left[1] * 10000) \div usage[1])>>
      ELSE IF percent # <<>> THEN <<ClampPercent(10000 - (percent[1] * 100))>>
      ELSE <<>>

\* glmResetsWithin: hours from now; a time in the past has already reset.
ResetsWithin(limit, hours) ==
  LET reset == JsonNum(At(limit, "nextResetTime"))
  IN  reset # <<>> /\ reset[1] > 0 /\ reset[1] <= hours

\* windowOfType: an unlabelled window qualifies.
WindowOfType(limit, types) ==
  LET got == At(limit, "type") IN got.t # "word" \/ got.v \in types

\* minWindowExtract: the least remaining percentage of the windows that reset
\* soon, or of the others when none does.
MinWindowExtract(p, data) ==
  LET limits == At(At(data, "data"), "limits")
      fit == {i \in DOMAIN limits.v : /\ limits.v[i].t = "obj"
                                     /\ WindowOfType(limits.v[i], p.windowTypes)
                                     /\ RemainingPercent(limits.v[i]) # <<>>}
      least(S) == <<Min({RemainingPercent(limits.v[i])[1] : i \in S})>>
      rolling == {i \in fit : ResetsWithin(limits.v[i], p.resetHours)}
  IN  IF limits.t # "arr" THEN <<>>
      ELSE IF rolling # {} THEN least(rolling)
      ELSE IF fit # {} THEN least(fit) ELSE <<>>

Truthy(v) == v.t \notin {"null"} /\ v # NumV(0) /\ v # Word("") /\ v # Word("false")

\* customCheck: the answer's own success field, when the definition names one.
CustomCheck(p, data) ==
  LET got == DigPath(data, p.successPath)
  IN  \/ p.successPath = <<>>
      \/ /\ got.t # "null"
         /\ IF p.successValues # {} THEN got \in p.successValues ELSE Truthy(got)

\* Spec.Extract as SpecFromCustomProvider chooses it; no scale means 1.
Extracted(p, data) ==
  IF p.mode = "min_window" THEN MinWindowExtract(p, data)
  ELSE PathExtract([p EXCEPT !.scale = IF @ = 0 THEN 1 ELSE @], data)

\* A definition that reads the total of the account in the currency p.wants.
ReadsAccount(p) ==
  /\ {"balancePath", "subtractPath", "scale"} \subseteq DOMAIN p
  /\ p.balancePath = << <<Field("accounts"), Filter("currency", Word(p.wants)), Field("total")>> >>
  /\ p.subtractPath = <<>>
  /\ p.scale \in {0, 1}

\* What the answers give of a window or an account, where they give a number, is a
\* whole one; only a definition that reads an account says which one it wants.
ASSUME FetchAssumption ==
  /\ MaxRetries \in Nat
  /\ \A a \in Answers :
       /\ LET limits == At(At(a.data, "data"), "limits") IN
          limits.t = "arr" =>
            \A i \in DOMAIN limits.v, f \in {"usage", "remaining", "percentage"} :
              At(limits.v[i], f).t \in {"num", "text"} => At(limits.v[i], f).v \in Int
       /\ LET accounts == At(a.data, "accounts") IN
          accounts.t = "arr" =>
            /\ DOMAIN accounts.v \subseteq Nat
            /\ \A i \in DOMAIN accounts.v :
                 At(accounts.v[i], "total").t \in {"num", "text"} => At(accounts.v[i], "total").v \in Int
  /\ \A p \in Definitions : p.mode = "path" /\ p.wants # "" => ReadsAccount(p)

-------------------------------------------------------------------------------
VARIABLES
  reads,      \* the definition fetched from; the method may be one that changes something
  get,        \* is the request idempotent?
  fetch,      \* [phase, attempt, why, reading]
  requests,   \* history: how many requests the platform was sent
  answered    \* history: the last answer, or that there was none

fetchVars == <<reads, get, fetch, requests, answered>>

Retriable == {429, 500, 502, 503, 504}
Silence == [status |-> 0, json |-> FALSE, data |-> Null]

FetchInit ==
  /\ reads \in Definitions
  /\ get \in BOOLEAN
  /\ fetch = [phase |-> "sending", attempt |-> 0, reading |-> <<>>]
  /\ requests = 0
  /\ answered = Silence

Failed == [fetch EXCEPT !.phase = "failed"]

\* After a network error: once more, unless the request may have had an effect.
AfterError == IF get /\ fetch.attempt < MaxRetries THEN [fetch EXCEPT !.phase = "waiting"] ELSE Failed

\* GetJSON, Check and Extract on the answer that Do returns.
Judge(a) ==
  IF a.status # 200 \/ ~a.json THEN Failed
  ELSE IF ~CustomCheck(reads, a.data) THEN Failed
  ELSE LET n == Extracted(reads, a.data)
       IN  [fetch EXCEPT !.phase = IF n = <<>> THEN "failed" ELSE "read", !.reading = n]

\* The platform answers.
Respond == \E a \in Answers :
  /\ fetch.phase = "sending"
  /\ requests' = requests + 1
  /\ answered' = a
  /\ fetch' = IF get /\ a.status \in Retriable /\ fetch.attempt < MaxRetries
              THEN [fetch EXCEPT !.phase = "waiting"] ELSE Judge(a)
  /\ UNCHANGED <<reads, get>>

\* The connection fails or times out; the platform may have had the request.
NetworkError ==
  /\ fetch.phase = "sending"
  /\ requests' \in {requests, requests + 1}
  /\ answered' = Silence
  /\ fetch' = AfterError
  /\ UNCHANGED <<reads, get>>

\* The backoff is over.
Resend ==
  /\ fetch.phase = "waiting"
  /\ fetch' = [fetch EXCEPT !.phase = "sending", !.attempt = @ + 1]
  /\ UNCHANGED <<reads, get, requests, answered>>

\* The check's context ends: nothing is waited for any longer.
ContextEnds ==
  /\ fetch.phase \in {"sending", "waiting"}
  /\ fetch' = Failed
  /\ UNCHANGED <<reads, get, requests, answered>>

FetchNext == Respond \/ NetworkError \/ Resend \/ ContextEnds

FetchSpec == FetchInit /\ [][FetchNext]_fetchVars

\* A request that may change something reaches the platform at most once,
\* whatever fails and times out; a read is sent a bounded number of times.
SentOnce == requests <= (IF get THEN MaxRetries + 1 ELSE 1)

\* A balance is only read from an answer that is well-formed, that the platform
\* itself calls a success, and whose windows or paths hold the number: no error
\* page, no half answer and no earlier attempt is ever taken for a balance.
ReadingIsReal ==
  fetch.phase = "read" =>
    LET d == answered.data
        limits == At(At(d, "data"), "limits").v
        soon == {i \in DOMAIN limits : WindowOfType(limits[i], reads.windowTypes) /\ ResetsWithin(limits[i], reads.resetHours)}
    IN  /\ answered.status = 200 /\ answered.json /\ CustomCheck(reads, d)
        /\ reads.mode = "min_window" =>
             /\ fetch.reading[1] \in 0..10000
             /\ \A i \in soon : RemainingPercent(limits[i]) # <<>> =>
                                  fetch.reading[1] <= RemainingPercent(limits[i])[1]

\* A filter finds the account it names wherever the platform lists it: the
\* reading never comes from another account when that one is there.
NamedAccountRead ==
  fetch.phase = "read" /\ reads.mode = "path" /\ reads.wants # "" =>
    LET accounts == At(answered.data, "accounts")
        mine == {i \in DOMAIN accounts.v : At(accounts.v[i], "currency") = Word(reads.wants)}
    IN  (accounts.t = "arr" /\ mine # {}) =>
          \E i \in mine : fetch.reading = <<At(accounts.v[i], "total").v>>

\* A fetch is safe to make and its number is the one that was asked for.
FetchSound == SentOnce /\ ReadingIsReal /\ NamedAccountRead
===============================================================================
