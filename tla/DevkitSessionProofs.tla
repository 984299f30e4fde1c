------------------------ MODULE DevkitSessionProofs ------------------------
(***************************************************************************)
(* What the programs of get_fps/ do to the handles of the board, and what  *)
(* results their scripts get, for every number of programs, handles,       *)
(* frames, buffers of a batch, failing requests and signals.               *)
(***************************************************************************)
EXTENDS DevkitSession, FiniteSetTheorems, TLAPS

(* The handles a program has, and the whole of what it takes.              *)
Own(s) == {h \in held : h.of = s}

Taken(s, n, m) ==
  {Model(s)} \cup {Ifm(s, i) : i \in 1 .. n} \cup {Ofm(s, i) : i \in 1 .. m}

Buffered(s) == kind[s] \in {"eval", "api"}

Whole(s) == IF Buffered(s) THEN Taken(s, batch[s], batch[s])
            ELSE IF kind[s] = "pm" THEN {Model(s)} ELSE {Env(s)}

Spare(s) == {h \in Buffers(s) : h.i > 1}

Asks(s, op) == req[s] # <<>> /\ Tail(req[s]) = <<>> /\ Head(req[s]).op = op

Early == {"off", "tunnel", "tunnelZmq", "copy", "connect"}
Starting == Early \cup {"model", "env", "ifm", "ofm", "ofm?"}
Looping == {"loop", "run", "ran", "download", "next"}
Places == Starting \cup Looping \cup {"raised"} \cup {Step[i] : i \in 1 .. 4} \cup Ended

TypesOf(s) ==
  /\ kind[s] \in Kinds /\ batch[s] \in 1 .. MaxBatch /\ pc[s] \in Places
  /\ kind[s] # "eval" => batch[s] = 1
  /\ frame[s] \in Nat /\ releases[s] \in Nat

Domains ==
  /\ DOMAIN kind = Sessions /\ DOMAIN batch = Sessions /\ DOMAIN pc = Sessions
  /\ DOMAIN port = Sessions /\ DOMAIN frame = Sessions /\ DOMAIN req = Sessions
  /\ DOMAIN ok = Sessions /\ DOMAIN up = Sessions /\ DOMAIN down = Sessions
  /\ DOMAIN got = Sessions /\ DOMAIN missed = Sessions /\ DOMAIN releases = Sessions
  /\ DOMAIN ifm = Sessions /\ DOMAIN ofm = Sessions

Types == Domains /\ \A s \in Sessions : TypesOf(s)

(* A request is about a handle of its program, and there is one at a time. *)
OneRequest(s) ==
  req[s] = <<>> \/ (Tail(req[s]) = <<>> /\ Head(req[s]).h.of = s)

(* Which program gets where.                                               *)
KindHere(s) ==
  /\ pc[s] \in {"ofm?", "run", "download", "raised"} => kind[s] = "api"
  /\ pc[s] \in {"ifm", "ofm"} => Buffered(s)
  /\ pc[s] = "env" => kind[s] = "runner"
  /\ pc[s] \in {"model"} \cup Looping => kind[s] # "runner"

(* Until its loop a program has released nothing and run no frame.         *)
Starts(s) ==
  pc[s] \in Starting =>
    frame[s] = 1 /\ releases[s] = 0 /\ up[s] = <<>> /\ down[s] = <<>>

(* What a program has taken while it connects and allocates: what it asks  *)
(* for is what comes next, and an answer that was yes added it.            *)
Connects(s) ==
  /\ pc[s] \in Early => req[s] = <<>> /\ Own(s) = {}
  /\ pc[s] = "model" =>
       \/ Asks(s, "connect") /\ Subject(s) = Model(s) /\ Own(s) = {}
       \/ req[s] = <<>> /\ (ok[s] => Own(s) = IF kind[s] = "pm" THEN {Model(s)} ELSE {})
  /\ pc[s] = "env" =>
       \/ Asks(s, "alloc") /\ Subject(s) = Env(s) /\ Own(s) = {}
       \/ req[s] = <<>> /\ (ok[s] => Own(s) = {Env(s)})

Allocates(s) ==
  /\ pc[s] = "ifm" =>
       \/ Asks(s, "alloc") /\ Subject(s) = Model(s) /\ Own(s) = {}
       \/ \E n \in 0 .. batch[s] - 1 :
            Asks(s, "alloc") /\ Subject(s) = Ofm(s, n + 1) /\ Own(s) = Taken(s, n + 1, n)
       \/ req[s] = <<>> /\ (ok[s] => \E n \in 0 .. batch[s] : Own(s) = Taken(s, n, n))
  /\ pc[s] = "ofm" => \E n \in 0 .. batch[s] - 1 :
       \/ Asks(s, "alloc") /\ Subject(s) = Ifm(s, n + 1) /\ Own(s) = Taken(s, n, n)
       \/ req[s] = <<>> /\ (ok[s] => Own(s) = Taken(s, n + 1, n))
  /\ pc[s] = "ofm?" =>
       \/ Asks(s, "alloc") /\ Subject(s) = Ofm(s, 1) /\ Own(s) = Taken(s, 1, 0)
       \/ req[s] = <<>> /\ Own(s) = IF ok[s] THEN Taken(s, 1, 1) ELSE Taken(s, 1, 0)

(* In the loop it has everything, and asks for one thing at each place.    *)
Loops(s) ==
  /\ pc[s] \in Looping => releases[s] = 0 /\ Own(s) = Whole(s)
  /\ pc[s] \in {"loop", "next"} => req[s] = <<>>
  /\ pc[s] = "run" => req[s] = <<>> \/ (Asks(s, "upload") /\ Subject(s) = Ifm(s, 1))
  /\ pc[s] = "ran" => req[s] = <<>> \/ (Asks(s, "run") /\ Subject(s) = Model(s))
  /\ pc[s] = "download" => req[s] = <<>> \/ Asks(s, "download")
  /\ pc[s] = "raised" =>
       \/ req[s] = <<>> /\ releases[s] = 0 /\ Own(s) = Whole(s)
       \/ /\ Asks(s, "free") /\ Subject(s) = Ifm(s, 1)
          /\ releases[s] = 1 /\ Own(s) = Taken(s, 1, 0)
       \/ req[s] = <<>> /\ releases[s] = 1 /\ Own(s) = Taken(s, 0, 0)

(* Giving back begins with everything, unless it began before; a signal    *)
(* may have left a run or a free that is not answered.                     *)
BeginsRelease(s) ==
  pc[s] = "release" =>
    /\ Spare(s) \subseteq Own(s) /\ Own(s) \subseteq Whole(s)
    /\ releases[s] = 0 => Own(s) = Whole(s)
    /\ \/ req[s] = <<>>
       \/ /\ Asks(s, "run") /\ Own(s) = Whole(s)
          /\ kind[s] # "api" /\ (kind[s] # "eval" => Subject(s) \in Whole(s))
       \/ /\ Asks(s, "free") /\ \E i \in 1 .. Len(Returned(s)) : Subject(s) = Returned(s)[i]
          /\ releases[s] > 0 /\ (releases[s] = 1 => Subject(s) \in Own(s))

(* After k calls the first k of what it returns are gone, or the last of   *)
(* them is on its way; the first time, the others are still there.         *)
Releases(s) ==
  \A k \in 1 .. 3 : pc[s] = Step[k + 1] =>
    /\ k <= Len(Returned(s)) /\ releases[s] > 0
    /\ Spare(s) \subseteq Own(s) /\ Own(s) \subseteq Whole(s)
    /\ \A j \in 1 .. k - 1 : Returned(s)[j] \notin Own(s)
    /\ \/ req[s] = <<>> /\ Returned(s)[k] \notin Own(s)
       \/ /\ Asks(s, "free") /\ Subject(s) = Returned(s)[k]
          /\ releases[s] = 1 => Returned(s)[k] \in Own(s)
    /\ releases[s] = 1 => \A j \in k + 1 .. Len(Returned(s)) : Returned(s)[j] \in Own(s)

Ends(s) ==
  /\ pc[s] \in Ended => req[s] = <<>>
  /\ pc[s] = "done" => Own(s) = Spare(s)

NoMisuse(s) ==
  /\ <<s, "run">> \notin misuse
  /\ <<s, "free">> \in misuse => releases[s] > 1

(* Where the frame of a script is between its parts, while none of its      *)
(* uploads was refused.                                                     *)
InOrder(s) ==
  /\ pc[s] \in {"loop", "next", "raised"} => up[s] = <<>> /\ down[s] = <<>>
  /\ pc[s] = "run" => /\ down[s] = <<>>
                      /\ IF req[s] = <<>> THEN up[s] = <<>> /\ ifm[s] = frame[s]
                                          ELSE up[s] = <<frame[s]>>
  /\ pc[s] = "ran" => /\ up[s] = <<>> /\ down[s] = <<>>
                      /\ kind[s] = "api" => /\ ifm[s] = frame[s]
                                            /\ req[s] = <<>> /\ ok[s] => ofm[s] = frame[s]
  /\ pc[s] = "download" => /\ up[s] = <<>> /\ ofm[s] = frame[s]
                           /\ req[s] # <<>> => down[s] = <<>>
                           /\ down[s] \in {<<>>, <<frame[s]>>}

Carries(s) ==
  /\ missed[s] \subseteq 0 .. frame[s]
  /\ missed[s] = {} => InOrder(s)
  /\ \A r \in got[s] : \/ r[1] = r[2]
                       \/ \E f \in missed[s] : f <= r[1]

Handles(s) == /\ OneRequest(s) /\ KindHere(s) /\ Starts(s) /\ Connects(s) /\ Allocates(s)
              /\ Loops(s) /\ BeginsRelease(s) /\ Releases(s) /\ Ends(s) /\ NoMisuse(s)

Inv == Types /\ \A s \in Sessions : Handles(s) /\ Carries(s)

HandlesInv == \A s \in Sessions : Handles(s)

-----------------------------------------------------------------------------
(* Handles.                                                                *)

LEMMA HandleParts ==
  ASSUME NEW s, NEW i
  PROVE  /\ Ifm(s, i).of = s /\ Ifm(s, i).what = "ifm" /\ Ifm(s, i).i = i
         /\ Ofm(s, i).of = s /\ Ofm(s, i).what = "ofm" /\ Ofm(s, i).i = i
         /\ Model(s).of = s /\ Model(s).what = "model" /\ Model(s).i = 0
         /\ Env(s).of = s /\ Env(s).what = "env" /\ Env(s).i = 0
BY DEF Ifm, Ofm, Model, Env, Handle

LEMMA InTaken ==
  ASSUME NEW s, NEW n, NEW m, NEW h
  PROVE  h \in Taken(s, n, m) <=> \/ h = Model(s)
                                  \/ \E i \in 1 .. n : h = Ifm(s, i)
                                  \/ \E i \in 1 .. m : h = Ofm(s, i)
BY DEF Taken

(* One more of either kind.                                                *)
LEMMA OneMoreIfm ==
  ASSUME NEW s, NEW n \in Nat, NEW m \in Nat
  PROVE  Taken(s, n, m) \cup {Ifm(s, n + 1)} = Taken(s, n + 1, m)
<1>1. \A i : i \in 1 .. n + 1 <=> i \in 1 .. n \/ i = n + 1
  OBVIOUS
<1> QED BY <1>1 DEF Taken

LEMMA OneMoreOfm ==
  ASSUME NEW s, NEW n \in Nat, NEW m \in Nat
  PROVE  Taken(s, n, m) \cup {Ofm(s, m + 1)} = Taken(s, n, m + 1)
<1>1. \A i : i \in 1 .. m + 1 <=> i \in 1 .. m \/ i = m + 1
  OBVIOUS
<1> QED BY <1>1 DEF Taken

LEMMA TakenNone ==
  ASSUME NEW s
  PROVE  Taken(s, 0, 0) = {Model(s)}
<1>1. 1 .. 0 = {}
  OBVIOUS
<1> QED BY <1>1 DEF Taken

LEMMA FirstIfmFreed ==
  ASSUME NEW s
  PROVE  Taken(s, 1, 0) \ {Ifm(s, 1)} = Taken(s, 0, 0)
<1>1. 1 .. 1 = {1} /\ 1 .. 0 = {}
  OBVIOUS
<1>2. Model(s) # Ifm(s, 1)
  BY HandleParts
<1> QED BY <1>1, <1>2 DEF Taken

(* As many handles as numbers.                                             *)
LEMMA CountTaken ==
  ASSUME NEW s, NEW n \in Nat, NEW m \in Nat, Own(s) = Taken(s, n, m)
  PROVE  Took(s, "ifm") = n /\ Took(s, "ofm") = m
<1>1. ASSUME NEW k \in Nat PROVE IsFiniteSet(1 .. k) /\ Cardinality(1 .. k) = k
  <2>1. IsFiniteSet(1 .. k) /\ Cardinality(1 .. k) = IF 1 > k THEN 0 ELSE k - 1 + 1
    BY FS_Interval
  <2> QED BY <2>1
<1>2. Took(s, "ifm") = n
  <2> DEFINE S == {h \in held : h.of = s /\ h.what = "ifm"}
             f == [i \in 1 .. n |-> Ifm(s, i)]
  <2>1. \A h : h \in S <=> \E i \in 1 .. n : h = Ifm(s, i)
    <3>1. \A h : h \in S <=> h \in Taken(s, n, m) /\ h.what = "ifm"
      BY DEF Own
    <3> QED BY <3>1, InTaken, HandleParts
  <2>2. f \in Bijection(1 .. n, S)
    <3> HIDE DEF S
    <3>1. f \in [1 .. n -> S]
      BY <2>1
    <3>2. \A i, j \in 1 .. n : f[i] = f[j] => i = j
      BY HandleParts
    <3>3. \A h \in S : \E i \in 1 .. n : f[i] = h
      BY <2>1
    <3> QED BY <3>1, <3>2, <3>3 DEF Bijection, Injection, Surjection, IsInjective
  <2>3. Cardinality(S) = n
    <3> HIDE DEF S, f
    <3> QED BY <1>1, <2>2, FS_Bijection DEF ExistsBijection
  <2> QED BY <2>3 DEF Took
<1>3. Took(s, "ofm") = m
  <2> DEFINE S == {h \in held : h.of = s /\ h.what = "ofm"}
             f == [i \in 1 .. m |-> Ofm(s, i)]
  <2>1. \A h : h \in S <=> \E i \in 1 .. m : h = Ofm(s, i)
    <3>1. \A h : h \in S <=> h \in Taken(s, n, m) /\ h.what = "ofm"
      BY DEF Own
    <3> QED BY <3>1, InTaken, HandleParts
  <2>2. f \in Bijection(1 .. m, S)
    <3> HIDE DEF S
    <3>1. f \in [1 .. m -> S]
      BY <2>1
    <3>2. \A i, j \in 1 .. m : f[i] = f[j] => i = j
      BY HandleParts
    <3>3. \A h \in S : \E i \in 1 .. m : f[i] = h
      BY <2>1
    <3> QED BY <3>1, <3>2, <3>3 DEF Bijection, Injection, Surjection, IsInjective
  <2>3. Cardinality(S) = m
    <3> HIDE DEF S, f
    <3> QED BY <1>1, <2>2, FS_Bijection DEF ExistsBijection
  <2> QED BY <2>3 DEF Took
<1> QED BY <1>2, <1>3

(* What a program gives back, and what it forgets.                         *)
LEMMA ReturnedParts ==
  ASSUME NEW s
  PROVE  /\ Buffered(s) => /\ Len(Returned(s)) = 3 /\ Returned(s)[1] = Ifm(s, 1)
                           /\ Returned(s)[2] = Ofm(s, 1) /\ Returned(s)[3] = Model(s)
         /\ kind[s] = "pm" => Len(Returned(s)) = 1 /\ Returned(s)[1] = Model(s)
         /\ kind[s] = "runner" => Len(Returned(s)) = 1 /\ Returned(s)[1] = Env(s)
<1>1. CASE Buffered(s)
  <2>1. Returned(s) = <<Ifm(s, 1), Ofm(s, 1), Model(s)>> /\ kind[s] # "pm" /\ kind[s] # "runner"
    BY <1>1 DEF Returned, Buffered
  <2> QED BY <2>1
<1>2. CASE kind[s] = "pm"
  <2>1. Returned(s) = <<Model(s)>>
    BY <1>2 DEF Returned
  <2> QED BY <1>2, <2>1 DEF Buffered
<1>3. CASE kind[s] = "runner"
  <2>1. Returned(s) = <<Env(s)>>
    BY <1>3 DEF Returned
  <2> QED BY <1>3, <2>1 DEF Buffered
<1> QED BY <1>1, <1>2, <1>3

LEMMA ReturnedAndSpare ==
  ASSUME Types, NEW s \in Sessions
  PROVE  /\ Len(Returned(s)) \in 1 .. 3
         /\ \A i, j \in 1 .. Len(Returned(s)) : Returned(s)[i] = Returned(s)[j] => i = j
         /\ \A i \in 1 .. Len(Returned(s)) :
              /\ Returned(s)[i] \in Whole(s) /\ Returned(s)[i] \notin Spare(s)
              /\ Returned(s)[i].of = s
         /\ Spare(s) \subseteq Whole(s)
         /\ \A h \in Whole(s) : h \in Spare(s) \/ \E i \in 1 .. Len(Returned(s)) : h = Returned(s)[i]
<1>1. kind[s] \in {"eval", "api", "pm", "runner"} /\ batch[s] \in Nat \ {0}
      /\ (kind[s] # "eval" => batch[s] = 1)
  BY DevkitConstants DEF Types, TypesOf, Domains, Kinds
<1>2. \A h : h \in Spare(s) <=> \E i \in 1 .. batch[s] : i > 1 /\ (h = Ifm(s, i) \/ h = Ofm(s, i))
  BY HandleParts DEF Spare, Buffers
<1>3. CASE Buffered(s)
  <2>1. \A h : h \in Whole(s) <=> \/ h = Model(s)
                                  \/ \E i \in 1 .. batch[s] : h = Ifm(s, i) \/ h = Ofm(s, i)
    BY <1>3, InTaken DEF Whole
  <2>2. 1 \in 1 .. batch[s] /\ \A i \in 1 .. batch[s] : i = 1 \/ i > 1
    BY <1>1
  <2>3. Len(Returned(s)) = 3 /\ 1 .. 3 = {1, 2, 3}
    BY <1>3, ReturnedParts
  <2>4. Returned(s)[1] = Ifm(s, 1) /\ Returned(s)[2] = Ofm(s, 1) /\ Returned(s)[3] = Model(s)
    BY <1>3, ReturnedParts
  <2>5. \A i, j \in {1, 2, 3} : Returned(s)[i] = Returned(s)[j] => i = j
    BY <2>4, HandleParts
  <2>6. \A i \in {1, 2, 3} : /\ Returned(s)[i] \in Whole(s) /\ Returned(s)[i] \notin Spare(s)
                             /\ Returned(s)[i].of = s
    <3>1. /\ Ifm(s, 1) \in Whole(s) /\ Ofm(s, 1) \in Whole(s) /\ Model(s) \in Whole(s)
      BY <2>1, <2>2
    <3>2. /\ Ifm(s, 1) \notin Spare(s) /\ Ofm(s, 1) \notin Spare(s) /\ Model(s) \notin Spare(s)
      BY <1>2, HandleParts
    <3> QED BY <2>4, <3>1, <3>2, HandleParts
  <2>7. Spare(s) \subseteq Whole(s)
    BY <1>2, <2>1
  <2>8. \A h \in Whole(s) : h \in Spare(s) \/ \E i \in {1, 2, 3} : h = Returned(s)[i]
    BY <1>2, <2>1, <2>2, <2>4
  <2> QED BY <2>3, <2>5, <2>6, <2>7, <2>8
<1>4. CASE kind[s] \in {"pm", "runner"}
  <2>1. Spare(s) = {}
    <3>1. \A i \in 1 .. batch[s] : ~(i > 1)
      BY <1>1, <1>4
    <3> QED BY <1>2, <3>1
  <2>2. Len(Returned(s)) = 1 /\ Whole(s) = {Returned(s)[1]} /\ Returned(s)[1].of = s
    BY <1>4, ReturnedParts, HandleParts DEF Whole, Buffered
  <2>3. 1 .. 1 = {1}
    OBVIOUS
  <2> QED BY <2>1, <2>2, <2>3
<1> QED BY <1>1, <1>3, <1>4 DEF Buffered

-----------------------------------------------------------------------------
(* What a step leaves alone.                                               *)

LEMMA OwnGrows ==
  ASSUME NEW s, NEW h, h.of = s, held' = held \cup {h}
  PROVE  Own(s)' = Own(s) \cup {h} /\ \A t : t # s => Own(t)' = Own(t)
BY DEF Own

LEMMA OwnShrinks ==
  ASSUME NEW s, NEW h, h.of = s, held' = held \ {h}
  PROVE  Own(s)' = Own(s) \ {h} /\ \A t : t # s => Own(t)' = Own(t)
BY DEF Own

LEMMA OwnSame ==
  ASSUME held' = held
  PROVE  \A t : Own(t)' = Own(t)
BY DEF Own

LEMMA One ==
  ASSUME NEW r
  PROVE  Append(<<>>, r) # <<>> /\ Tail(Append(<<>>, r)) = <<>> /\ Head(Append(<<>>, r)) = r
OBVIOUS

LEMMA Calls ==
  ASSUME Types, NEW s \in Sessions, NEW op, NEW h, req[s] = <<>>, Call(s, op, h)
  PROVE  /\ DOMAIN req' = Sessions /\ \A t \in Sessions : t # s => req'[t] = req[t]
         /\ req'[s] # <<>> /\ Tail(req'[s]) = <<>>
         /\ Head(req'[s]).op = op /\ Head(req'[s]).h = h
<1>1. req'[s] = Append(<<>>, [op |-> op, h |-> h])
  BY DEF Types, TypesOf, Domains, Call
<1>2. DOMAIN req' = Sessions /\ \A t \in Sessions : t # s => req'[t] = req[t]
  BY DEF Types, TypesOf, Domains, Call
<1> QED BY <1>1, <1>2, One

LEMMA Answers ==
  ASSUME Types, NEW s \in Sessions, NEW yes, req[s] # <<>>, OneRequest(s), Answer(s, yes)
  PROVE  /\ DOMAIN req' = Sessions /\ \A t \in Sessions : t # s => req'[t] = req[t]
         /\ DOMAIN ok' = Sessions /\ \A t \in Sessions : t # s => ok'[t] = ok[t]
         /\ req'[s] = <<>> /\ ok'[s] = yes
BY DEF Types, TypesOf, Domains, Answer, OneRequest

Same(s) ==
  /\ kind'[s] = kind[s] /\ batch'[s] = batch[s] /\ pc'[s] = pc[s] /\ frame'[s] = frame[s]
  /\ req'[s] = req[s] /\ ok'[s] = ok[s] /\ up'[s] = up[s] /\ down'[s] = down[s]
  /\ got'[s] = got[s] /\ missed'[s] = missed[s] /\ releases'[s] = releases[s]
  /\ ifm'[s] = ifm[s] /\ ofm'[s] = ofm[s] /\ Own(s)' = Own(s)
  /\ \A w : <<s, w>> \in misuse' <=> <<s, w>> \in misuse

(* The handles of a program are a matter of its kind and batch.            *)
LEMMA Fixed ==
  ASSUME NEW s, kind'[s] = kind[s], batch'[s] = batch[s]
  PROVE  /\ Buffered(s)' <=> Buffered(s)
         /\ Returned(s)' = Returned(s) /\ Whole(s)' = Whole(s) /\ Spare(s)' = Spare(s)
BY DEF Buffered, Returned, Whole, Spare, Buffers, Taken, Model, Env, Ifm, Ofm, Handle

LEMMA SameKeeps ==
  ASSUME NEW s \in Sessions, Handles(s), Carries(s), Same(s)
  PROVE  Handles(s)' /\ Carries(s)'
<1>0. /\ kind'[s] = kind[s] /\ batch'[s] = batch[s] /\ pc'[s] = pc[s] /\ frame'[s] = frame[s]
      /\ req'[s] = req[s] /\ ok'[s] = ok[s] /\ up'[s] = up[s] /\ down'[s] = down[s]
      /\ got'[s] = got[s] /\ missed'[s] = missed[s] /\ releases'[s] = releases[s]
      /\ ifm'[s] = ifm[s] /\ ofm'[s] = ofm[s] /\ Own(s)' = Own(s)
      /\ \A w : <<s, w>> \in misuse' <=> <<s, w>> \in misuse
  BY DEF Same
<1>1. /\ Buffered(s)' <=> Buffered(s)
      /\ Returned(s)' = Returned(s) /\ Whole(s)' = Whole(s) /\ Spare(s)' = Spare(s)
  BY <1>0, Fixed
<1>2. \A op : Asks(s, op)' <=> Asks(s, op)
  BY <1>0 DEF Asks
<1>3. Subject(s)' = Subject(s)
  BY <1>0 DEF Subject
<1>4. OneRequest(s)' /\ KindHere(s)' /\ Starts(s)' /\ Ends(s)' /\ NoMisuse(s)'
  BY <1>0, <1>1 DEF Handles, OneRequest, KindHere, Starts, Ends, NoMisuse
<1>5. Connects(s)'
  BY <1>0, <1>1, <1>2, <1>3 DEF Handles, Connects
<1>6. Allocates(s)'
  BY <1>0, <1>1, <1>2, <1>3 DEF Handles, Allocates
<1>7. Loops(s)'
  BY <1>0, <1>1, <1>2, <1>3 DEF Handles, Loops
<1>8. BeginsRelease(s)'
  BY <1>0, <1>1, <1>2, <1>3 DEF Handles, BeginsRelease
<1>9. Releases(s)'
  BY <1>0, <1>1, <1>2, <1>3 DEF Handles, Releases
<1>10. Carries(s)'
  BY <1>0 DEF Carries, InOrder
<1> QED BY <1>4, <1>5, <1>6, <1>7, <1>8, <1>9, <1>10 DEF Handles

(* A step of one program, or of the service for it, is none of another's.  *)
LEMMA ProgramOfOther ==
  ASSUME Types, NEW s \in Sessions, NEW t \in Sessions, s # t, Program(s) \/ Signal(s) \/ Dies(s)
  PROVE  Same(t)
<1>1. CASE Start(s)
  BY <1>1, OwnSame DEF Types, TypesOf, Domains, Same, Start, Goto, client, board, pair, done
<1>2. CASE Tunnel(s)
  BY <1>2, OwnSame DEF Types, TypesOf, Domains, Same, Tunnel, Goto, Call, Leave, client, board,
     pair, done
<1>3. CASE TunnelZmq(s)
  BY <1>3, OwnSame DEF Types, TypesOf, Domains, Same, TunnelZmq, Goto, Call, Leave, client,
     board, pair, done
<1>4. CASE Copy(s)
  BY <1>4, OwnSame DEF Types, TypesOf, Domains, Same, Copy, Goto, Call, Leave, client, board,
     pair, done
<1>5. CASE Connect(s)
  BY <1>5, OwnSame DEF Types, TypesOf, Domains, Same, Connect, Goto, Call, Leave, client,
     board, pair, done
<1>6. CASE LoadModel(s)
  BY <1>6, OwnSame DEF Types, TypesOf, Domains, Same, LoadModel, Goto, Call, Leave, client,
     board, pair, done
<1>7. CASE AllocateIfm(s)
  BY <1>7, OwnSame DEF Types, TypesOf, Domains, Same, AllocateIfm, Goto, Call, Leave, client,
     board, pair, done
<1>8. CASE AllocateOfm(s)
  BY <1>8, OwnSame DEF Types, TypesOf, Domains, Same, AllocateOfm, Goto, Call, Leave, client,
     board, pair, done
<1>9. CASE OfmAllocated(s)
  BY <1>9, OwnSame DEF Types, TypesOf, Domains, Same, OfmAllocated, Goto, Call, client, board,
     pair, done
<1>10. CASE Upload(s)
  BY <1>10, OwnSame DEF Types, TypesOf, Domains, Same, Upload, Goto, Call, client, board, pair,
     done
<1>11. CASE Run(s)
  BY <1>11, OwnSame DEF Types, TypesOf, Domains, Same, Run, Goto, Call, client, board, pair, done
<1>12. CASE Ran(s)
  BY <1>12, OwnSame DEF Types, TypesOf, Domains, Same, Ran, Goto, Call, Leave, client, board,
     pair, done
<1>13. CASE Download(s)
  BY <1>13, OwnSame DEF Types, TypesOf, Domains, Same, Download, Goto, client, board, pair, done
<1>14. CASE NextFrame(s)
  BY <1>14, OwnSame DEF Types, TypesOf, Domains, Same, NextFrame, Goto, client, board, pair, done
<1>15. CASE StatsMissing(s)
  BY <1>15, OwnSame DEF Types, TypesOf, Domains, Same, StatsMissing, Goto, Call, Leave, client,
     board, pair, done
<1>16. CASE Caught(s)
  BY <1>16, OwnSame DEF Types, TypesOf, Domains, Same, Caught, Goto, client, board, pair, done
<1>17. CASE Release(s)
  BY <1>17, OwnSame DEF Types, TypesOf, Domains, Same, Release, Goto, Call, client, board, pair,
     done
<1>18. CASE Released(s)
  BY <1>18, OwnSame DEF Types, TypesOf, Domains, Same, Released, Goto, Call, Leave, client,
     board, pair, done
<1>19. CASE RunRemote(s)
  BY <1>19, OwnSame DEF Types, TypesOf, Domains, Same, RunRemote, Goto, Call, Leave, client,
     board, pair, done
<1>20. CASE Signal(s)
  BY <1>20, OwnSame DEF Types, TypesOf, Domains, Same, Signal, Goto, client, board, pair, done
<1>21. CASE Dies(s)
  BY <1>21, OwnSame DEF Types, TypesOf, Domains, Same, Dies, Goto, client, board, pair, done
<1> QED BY <1>1, <1>2, <1>3, <1>4, <1>5, <1>6, <1>7, <1>8, <1>9, <1>10, <1>11, <1>12, <1>13,
   <1>14, <1>15, <1>16, <1>17, <1>18, <1>19, <1>20, <1>21 DEF Program

LEMMA ServiceOfOther ==
  ASSUME Types, NEW s \in Sessions, NEW t \in Sessions, s # t, OneRequest(s), Service(s)
  PROVE  Same(t)
<1>0. req[s] # <<>> /\ Subject(s).of = s
  BY DEF Service, ServeConnect, ServeAlloc, ServeUpload, ServeRun, ServeDownload, ServeFree,
     Asked, OneRequest, Subject
<1>1. CASE ServeConnect(s)
  <2>1. Own(t)' = Own(t)
    BY <1>0, <1>1, OwnSame, OwnGrows DEF ServeConnect
  <2> QED BY <1>1, <2>1 DEF Types, TypesOf, Domains, Same, ServeConnect, Answer, Fails, client,
     board, pair, done
<1>2. CASE ServeAlloc(s)
  <2>1. Own(t)' = Own(t)
    BY <1>0, <1>2, OwnSame, OwnGrows DEF ServeAlloc
  <2> QED BY <1>2, <2>1 DEF Types, TypesOf, Domains, Same, ServeAlloc, Answer, Fails, client,
     board, pair, done
<1>3. CASE ServeFree(s)
  <2>1. Own(t)' = Own(t)
    BY <1>0, <1>3, OwnShrinks DEF ServeFree
  <2> QED BY <1>3, <2>1 DEF Types, TypesOf, Domains, Same, ServeFree, Answer, Fails, client,
     board, pair, done
<1>4. CASE ServeUpload(s)
  BY <1>4, OwnSame DEF Types, TypesOf, Domains, Same, ServeUpload, Answer, Fails, client,
     board, pair, done
<1>5. CASE ServeRun(s)
  BY <1>5, OwnSame DEF Types, TypesOf, Domains, Same, ServeRun, Answer, Fails, client, board,
     pair, done
<1>6. CASE ServeDownload(s)
  BY <1>6, OwnSame DEF Types, TypesOf, Domains, Same, ServeDownload, Answer, Fails, client,
     board, pair, done
<1> QED BY <1>1, <1>2, <1>3, <1>4, <1>5, <1>6 DEF Service

(* Types are kept.                                                         *)
LEMMA StepNames ==
  /\ Step[1] = "release" /\ Step[2] = "release2" /\ Step[3] = "release3" /\ Step[4] = "release4"
  /\ Len(Step) = 4
BY DEF Step

LEMMA PlacesAre ==
  Places = {"off", "tunnel", "tunnelZmq", "copy", "connect", "model", "env", "ifm", "ofm", "ofm?",
            "loop", "run", "ran", "download", "next", "raised",
            "release", "release2", "release3", "release4", "done", "error"}
<1>1. {Step[i] : i \in 1 .. 4} = {"release", "release2", "release3", "release4"}
  <2>1. 1 .. 4 = {1, 2, 3, 4}
    OBVIOUS
  <2> QED BY <2>1, StepNames
<1> QED BY <1>1 DEF Places, Starting, Early, Looping, Ended

LEMMA TypesOfStep ==
  ASSUME Types, NEW s \in Sessions, Program(s) \/ Service(s) \/ Signal(s) \/ Dies(s)
  PROVE  Domains' /\ TypesOf(s)'
<1>0. Domains /\ TypesOf(s)
  BY DEF Types, Domains, TypesOf
<1>1. CASE Start(s)
  <2>1. PICK k \in Kinds, n \in 1 .. MaxBatch, l \in {"connect", "copy", "tunnel"} :
          /\ k = "eval" \/ n = 1
          /\ kind' = [kind EXCEPT ![s] = k] /\ batch' = [batch EXCEPT ![s] = n]
          /\ pc' = [pc EXCEPT ![s] = l]
    BY <1>1 DEF Start, Goto
  <2> QED BY <1>0, <1>1, <2>1, PlacesAre DEF Domains, TypesOf, Start, board, pair, done
<1>2. CASE Tunnel(s)
  BY <1>0, <1>2, PlacesAre DEF Domains, TypesOf, Tunnel, Goto, Call, Leave, client, board, pair,
     done
<1>3. CASE TunnelZmq(s)
  BY <1>0, <1>3, PlacesAre DEF Domains, TypesOf, TunnelZmq, Goto, Call, Leave, client, board,
     pair, done
<1>4. CASE Copy(s)
  BY <1>0, <1>4, PlacesAre DEF Domains, TypesOf, Copy, Goto, Call, Leave, client, board, pair,
     done
<1>5. CASE Connect(s)
  BY <1>0, <1>5, PlacesAre DEF Domains, TypesOf, Connect, Goto, Call, Leave, client, board,
     pair, done
<1>6. CASE LoadModel(s)
  BY <1>0, <1>6, PlacesAre DEF Domains, TypesOf, LoadModel, Goto, Call, Leave, client, board,
     pair, done
<1>7. CASE AllocateIfm(s)
  BY <1>0, <1>7, PlacesAre DEF Domains, TypesOf, AllocateIfm, Goto, Call, Leave, client, board,
     pair, done
<1>8. CASE AllocateOfm(s)
  BY <1>0, <1>8, PlacesAre DEF Domains, TypesOf, AllocateOfm, Goto, Call, Leave, client, board,
     pair, done
<1>9. CASE OfmAllocated(s)
  BY <1>0, <1>9, PlacesAre DEF Domains, TypesOf, OfmAllocated, Goto, Call, client, board, pair,
     done
<1>10. CASE Upload(s)
  BY <1>0, <1>10, PlacesAre DEF Domains, TypesOf, Upload, Goto, Call, client, board, pair, done
<1>11. CASE Run(s)
  BY <1>0, <1>11, PlacesAre DEF Domains, TypesOf, Run, Goto, Call, client, board, pair, done
<1>12. CASE Ran(s)
  BY <1>0, <1>12, PlacesAre DEF Domains, TypesOf, Ran, Goto, Call, Leave, client, board, pair,
     done
<1>13. CASE Download(s)
  BY <1>0, <1>13, PlacesAre DEF Domains, TypesOf, Download, Goto, client, board, pair, done
<1>14. CASE NextFrame(s)
  BY <1>0, <1>14, PlacesAre DEF Domains, TypesOf, NextFrame, Goto, client, board, pair, done
<1>15. CASE StatsMissing(s)
  BY <1>0, <1>15, PlacesAre DEF Domains, TypesOf, StatsMissing, Goto, Call, Leave, client,
     board, pair, done
<1>16. CASE Caught(s)
  BY <1>0, <1>16, PlacesAre DEF Domains, TypesOf, Caught, Goto, client, board, pair, done
<1>17. CASE Release(s)
  <2>1. PICK i \in 1 .. 3 :
          /\ Goto(s, Step[i + 1])
          /\ releases' = IF i = 1 THEN [releases EXCEPT ![s] = @ + 1] ELSE releases
          /\ (req' = req \/ Call(s, "free", Returned(s)[i]))
          /\ UNCHANGED <<client, frame, ok, pair, done, board, faults, signals>>
    BY <1>17 DEF Release
  <2>2. pc' = [pc EXCEPT ![s] = Step[i + 1]] /\ Step[i + 1] \in Places
    BY <2>1, StepNames, PlacesAre DEF Goto
  <2> QED BY <1>0, <2>1, <2>2 DEF Domains, TypesOf, Call, client, board, pair, done
<1>18. CASE Released(s)
  BY <1>0, <1>18, PlacesAre DEF Domains, TypesOf, Released, Goto, Call, Leave, client, board,
     pair, done
<1>19. CASE RunRemote(s)
  BY <1>0, <1>19, PlacesAre DEF Domains, TypesOf, RunRemote, Goto, Call, Leave, client, board,
     pair, done
<1>20. CASE Signal(s)
  BY <1>0, <1>20, PlacesAre DEF Domains, TypesOf, Signal, Goto, client, board, pair, done
<1>21. CASE Dies(s)
  BY <1>0, <1>21, PlacesAre DEF Domains, TypesOf, Dies, Goto, client, board, pair, done
<1>22. CASE ServeConnect(s)
  BY <1>0, <1>22, PlacesAre DEF Domains, TypesOf, ServeConnect, Answer, Fails, client, board,
     pair, done
<1>23. CASE ServeAlloc(s)
  BY <1>0, <1>23, PlacesAre DEF Domains, TypesOf, ServeAlloc, Answer, Fails, client, board,
     pair, done
<1>24. CASE ServeUpload(s)
  BY <1>0, <1>24, PlacesAre DEF Domains, TypesOf, ServeUpload, Answer, Fails, client, board,
     pair, done
<1>25. CASE ServeRun(s)
  BY <1>0, <1>25, PlacesAre DEF Domains, TypesOf, ServeRun, Answer, Fails, client, board, pair,
     done
<1>26. CASE ServeDownload(s)
  BY <1>0, <1>26, PlacesAre DEF Domains, TypesOf, ServeDownload, Answer, Fails, client, board,
     pair, done
<1>27. CASE ServeFree(s)
  BY <1>0, <1>27, PlacesAre DEF Domains, TypesOf, ServeFree, Answer, Fails, client, board, pair,
     done
<1> QED BY <1>1, <1>2, <1>3, <1>4, <1>5, <1>6, <1>7, <1>8, <1>9, <1>10, <1>11, <1>12, <1>13,
   <1>14, <1>15, <1>16, <1>17, <1>18, <1>19, <1>20, <1>21, <1>22, <1>23, <1>24, <1>25, <1>26,
      <1>27 DEF Program, Service

LEMMA TypesStep ==
  ASSUME Types, HandlesInv, [Next]_vars
  PROVE  Types'
<1>1. CASE UNCHANGED vars
  BY <1>1 DEF Types, TypesOf, Domains, vars
<1>2. ASSUME NEW s \in Sessions, Program(s) \/ Service(s) \/ Signal(s) \/ Dies(s)
      PROVE  Types'
  <2>1. OneRequest(s)
    BY DEF HandlesInv, Handles
  <2>2. Domains' /\ TypesOf(s)'
    BY <1>2, TypesOfStep
  <2>3. ASSUME NEW t \in Sessions, t # s PROVE TypesOf(t)'
    <3>1. Same(t)
      BY <1>2, <2>1, <2>3, ProgramOfOther, ServiceOfOther
    <3> QED BY <3>1 DEF Same, Types, Domains, TypesOf
  <2> QED BY <2>2, <2>3 DEF Types, Domains, TypesOf
<1> QED BY <1>1, <1>2 DEF Next

-----------------------------------------------------------------------------
(* A step of a program keeps its own invariant.                            *)

LEMMA NotReleasing ==
  ASSUME NEW s, pc[s] \notin {"release2", "release3", "release4"}
  PROVE  Releases(s)
BY StepNames DEF Releases

LEMMA NotReleasingNext ==
  ASSUME NEW s, pc'[s] \notin {"release2", "release3", "release4"}
  PROVE  Releases(s)'
<1>1. ASSUME NEW k \in 1 .. 3 PROVE Step[k + 1] \in {"release2", "release3", "release4"}
  BY StepNames
<1> QED BY <1>1 DEF Releases

(* A program that ends anywhere leaves no request.                         *)
LEMMA EndsInError ==
  ASSUME Types, NEW s \in Sessions, Handles(s), Carries(s), pc'[s] = "error", req'[s] = <<>>,
         frame'[s] = frame[s], misuse' = misuse, releases'[s] = releases[s],
         got'[s] = got[s], missed'[s] = missed[s]
  PROVE  Handles(s)' /\ Carries(s)'
<1>1. Releases(s)'
  BY NotReleasingNext
<1>2. OneRequest(s)' /\ KindHere(s)' /\ Starts(s)' /\ Connects(s)' /\ Allocates(s)'
      /\ Loops(s)' /\ BeginsRelease(s)' /\ Ends(s)'
  BY DEF OneRequest, KindHere, Starts, Connects, Allocates, Loops, BeginsRelease, Ends,
     Starting, Early, Looping, Ended
<1>3. NoMisuse(s)' /\ Carries(s)'
  BY DEF Handles, NoMisuse, Carries, InOrder
<1> QED BY <1>1, <1>2, <1>3 DEF Handles

LEMMA LeavesInError ==
  ASSUME Types, NEW s \in Sessions, Handles(s), Carries(s), Leave(s, "error")
  PROVE  Handles(s)' /\ Carries(s)'
<1>1. pc'[s] = "error" /\ req'[s] = <<>> /\ misuse' = misuse
      /\ releases'[s] = releases[s] /\ got'[s] = got[s]
      /\ missed'[s] = missed[s] /\ frame'[s] = frame[s]
  BY DEF Leave, Goto, Types, TypesOf, Domains, done
<1> QED BY <1>1, EndsInError

LEMMA EarlySteps ==
  ASSUME Types, NEW s \in Sessions, Handles(s), Carries(s),
         Start(s) \/ Tunnel(s) \/ TunnelZmq(s) \/ Copy(s)
  PROVE  Handles(s)' /\ Carries(s)'
<1>1. CASE Leave(s, "error")
  BY <1>1, LeavesInError
<1>2. CASE ~Leave(s, "error")
  <2>1. /\ pc[s] \in {"off", "tunnel", "tunnelZmq", "copy"}
        /\ pc'[s] \in {"tunnel", "tunnelZmq", "copy", "connect"}
        /\ UNCHANGED <<frame, req, releases, held, misuse, got, missed, up, down>>
    BY <1>2 DEF Start, Tunnel, TunnelZmq, Copy, Goto, Types, TypesOf, Domains, client, board,
       pair, done
  <2>2. req[s] = <<>> /\ Own(s) = {} /\ Own(s)' = Own(s)
        /\ frame[s] = 1 /\ releases[s] = 0 /\ up[s] = <<>> /\ down[s] = <<>>
    BY <2>1, OwnSame DEF Handles, Connects, Starts, Starting, Early
  <2>3. Releases(s)'
    BY <2>1, NotReleasingNext
  <2>4. OneRequest(s)' /\ KindHere(s)' /\ Starts(s)' /\ Connects(s)' /\ Allocates(s)'
        /\ Loops(s)' /\ BeginsRelease(s)' /\ Ends(s)'
    BY <2>1, <2>2 DEF OneRequest, KindHere, Starts, Connects, Allocates, Loops,
       BeginsRelease, Ends, Starting, Early, Looping, Ended
  <2>5. NoMisuse(s)' /\ Carries(s)'
    BY <2>1, <2>2 DEF Handles, NoMisuse, Carries, InOrder
  <2> QED BY <2>3, <2>4, <2>5 DEF Handles
<1> QED BY <1>1, <1>2

LEMMA ConnectStep ==
  ASSUME Types, NEW s \in Sessions, Handles(s), Carries(s), Connect(s)
  PROVE  Handles(s)' /\ Carries(s)'
<1> USE DEF OneRequest, KindHere, Connects, Allocates, Loops, BeginsRelease, Ends,
    Starting, Early, Looping, Ended, Asks, Subject, Buffered
<1>1. CASE Leave(s, "error")
  BY <1>1, LeavesInError
<1>2. CASE ~Leave(s, "error")
  <2>1. req[s] = <<>> /\ Own(s) = {} /\ frame[s] = 1 /\ releases[s] = 0
        /\ up[s] = <<>> /\ down[s] = <<>>
    BY <1>2 DEF Connect, Handles, Starts
  <2>2. UNCHANGED <<kind, batch, frame, ok, up, down, got, missed, releases, held, ifm, ofm,
                    misuse>>
        /\ Own(s)' = Own(s)
    BY <1>2, OwnSame DEF Connect, client, pair, done
  <2>3. CASE kind[s] = "runner"
    <3>1. pc'[s] = "env" /\ Call(s, "alloc", Env(s))
      BY <1>2, <2>3 DEF Connect, Goto, Types, TypesOf, Domains
    <3>2. req'[s] # <<>> /\ Tail(req'[s]) = <<>>
          /\ Head(req'[s]).op = "alloc" /\ Head(req'[s]).h = Env(s)
      BY <2>1, <3>1, Calls
    <3>3. Releases(s)'
      BY <3>1, NotReleasingNext
    <3>4. OneRequest(s)' /\ KindHere(s)' /\ Starts(s)' /\ Connects(s)' /\ Allocates(s)'
          /\ Loops(s)' /\ BeginsRelease(s)' /\ Ends(s)'
      BY <2>1, <2>2, <2>3, <3>1, <3>2, HandleParts DEF Starts
    <3>5. NoMisuse(s)' /\ Carries(s)'
      BY <2>1, <2>2, <2>3, <3>1, <3>2 DEF Handles, NoMisuse, Carries, InOrder
    <3> QED BY <3>3, <3>4, <3>5 DEF Handles
  <2>4. CASE kind[s] # "runner"
    <3>1. pc'[s] = "model" /\ Call(s, "connect", Model(s))
      BY <1>2, <2>4 DEF Connect, Goto, Types, TypesOf, Domains
    <3>2. req'[s] # <<>> /\ Tail(req'[s]) = <<>>
          /\ Head(req'[s]).op = "connect" /\ Head(req'[s]).h = Model(s)
      BY <2>1, <3>1, Calls
    <3>3. Releases(s)'
      BY <3>1, NotReleasingNext
    <3>4. OneRequest(s)' /\ KindHere(s)' /\ Starts(s)' /\ Connects(s)' /\ Allocates(s)'
          /\ Loops(s)' /\ BeginsRelease(s)' /\ Ends(s)'
      BY <2>1, <2>2, <2>4, <3>1, <3>2, HandleParts DEF Starts
    <3>5. NoMisuse(s)' /\ Carries(s)'
      BY <2>1, <2>2, <2>4, <3>1, <3>2 DEF Handles, NoMisuse, Carries, InOrder
    <3> QED BY <3>3, <3>4, <3>5 DEF Handles
  <2> QED BY <2>3, <2>4
<1> QED BY <1>1, <1>2

LEMMA LoadModelStep ==
  ASSUME Types, NEW s \in Sessions, Handles(s), Carries(s), LoadModel(s)
  PROVE  Handles(s)' /\ Carries(s)'
<1> USE DEF OneRequest, KindHere, Connects, Allocates, Loops, BeginsRelease, Ends,
    Starting, Early, Looping, Ended, Asks, Subject, Buffered
<1>1. CASE ~ok[s]
  BY <1>1, LeavesInError DEF LoadModel
<1>2. CASE ok[s]
  <2>1. /\ pc[s] = "model" /\ req[s] = <<>> /\ kind[s] # "runner" /\ frame[s] = 1 /\ releases[s] = 0
        /\ up[s] = <<>> /\ down[s] = <<>> /\ kind[s] \in {"eval", "pm", "api"}
        /\ Own(s) = IF kind[s] = "pm" THEN {Model(s)} ELSE {}
    BY <1>2 DEF LoadModel, At, Handles, Starts, Types, TypesOf, Domains, Kinds
  <2>2. UNCHANGED <<kind, batch, frame, ok, up, down, got, missed, releases, held, ifm, ofm,
                    misuse>>
        /\ Own(s)' = Own(s)
    BY <1>2, OwnSame DEF LoadModel, client, pair, done, board
  <2>3. CASE kind[s] = "pm"
    <3>1. pc'[s] = "loop" /\ req'[s] = <<>>
      BY <1>2, <2>1, <2>3 DEF LoadModel, Goto, Types, TypesOf, Domains
    <3>2. Whole(s) = {Model(s)} /\ Whole(s)' = Whole(s)
      BY <2>2, <2>3, Fixed DEF Whole
    <3>3. Releases(s)'
      BY <3>1, NotReleasingNext
    <3>4. OneRequest(s)' /\ KindHere(s)' /\ Starts(s)' /\ Connects(s)' /\ Allocates(s)'
          /\ Loops(s)' /\ BeginsRelease(s)' /\ Ends(s)'
      BY <2>1, <2>2, <2>3, <3>1, <3>2 DEF Starts
    <3>5. NoMisuse(s)' /\ Carries(s)'
      BY <2>1, <2>2, <2>3, <3>1, <3>2 DEF Handles, NoMisuse, Carries, InOrder
    <3> QED BY <3>3, <3>4, <3>5 DEF Handles
  <2>4. CASE kind[s] # "pm"
    <3>1. pc'[s] = "ifm" /\ Call(s, "alloc", Model(s))
      BY <1>2, <2>4 DEF LoadModel, Goto, Types, TypesOf, Domains
    <3>2. req'[s] # <<>> /\ Tail(req'[s]) = <<>>
          /\ Head(req'[s]).op = "alloc" /\ Head(req'[s]).h = Model(s)
      BY <2>1, <3>1, Calls
    <3>3. Releases(s)'
      BY <3>1, NotReleasingNext
    <3>4. OneRequest(s)' /\ KindHere(s)' /\ Starts(s)' /\ Connects(s)' /\ Allocates(s)'
          /\ Loops(s)' /\ BeginsRelease(s)' /\ Ends(s)'
      BY <2>1, <2>2, <2>4, <3>1, <3>2, HandleParts DEF Starts
    <3>5. NoMisuse(s)' /\ Carries(s)'
      BY <2>1, <2>2, <2>4, <3>1, <3>2 DEF Handles, NoMisuse, Carries, InOrder
    <3> QED BY <3>3, <3>4, <3>5 DEF Handles
  <2> QED BY <2>3, <2>4
<1> QED BY <1>1, <1>2

LEMMA RunRemoteStep ==
  ASSUME Types, NEW s \in Sessions, Handles(s), Carries(s), RunRemote(s)
  PROVE  Handles(s)' /\ Carries(s)'
<1> USE DEF OneRequest, KindHere, Connects, Allocates, Loops, BeginsRelease, Ends,
    Starting, Early, Looping, Ended, Asks, Subject, Buffered
<1>1. CASE ~ok[s]
  BY <1>1, LeavesInError DEF RunRemote
<1>2. CASE ok[s]
  <2>1. /\ pc[s] = "env" /\ req[s] = <<>> /\ kind[s] = "runner" /\ frame[s] = 1 /\ releases[s] = 0
        /\ Own(s) = {Env(s)}
    BY <1>2 DEF RunRemote, At, Handles, Starts
  <2>2. UNCHANGED <<kind, batch, frame, ok, up, down, got, missed, releases, held, ifm, ofm,
                    misuse>>
        /\ Own(s)' = Own(s)
    BY <1>2, OwnSame DEF RunRemote, client, pair, done, board
  <2>3. pc'[s] = "release" /\ Call(s, "run", Env(s))
    BY <1>2 DEF RunRemote, Goto, Types, TypesOf, Domains
  <2>4. req'[s] # <<>> /\ Tail(req'[s]) = <<>>
        /\ Head(req'[s]).op = "run" /\ Head(req'[s]).h = Env(s)
    BY <2>1, <2>3, Calls
  <2>5. Whole(s) = {Env(s)} /\ Whole(s)' = Whole(s) /\ Spare(s)' = Spare(s) /\ Spare(s) \subseteq Whole(s)
    BY <2>1, <2>2, Fixed, ReturnedAndSpare DEF Whole
  <2>6. Releases(s)'
    BY <2>3, NotReleasingNext
  <2>7. OneRequest(s)' /\ KindHere(s)' /\ Starts(s)' /\ Connects(s)' /\ Allocates(s)'
        /\ Loops(s)' /\ BeginsRelease(s)' /\ Ends(s)'
    BY <2>1, <2>2, <2>3, <2>4, <2>5, HandleParts DEF Starts
  <2>8. NoMisuse(s)' /\ Carries(s)'
    BY <2>1, <2>2, <2>3, <2>4, <2>5 DEF Handles, NoMisuse, Carries, InOrder
  <2> QED BY <2>6, <2>7, <2>8 DEF Handles
<1> QED BY <1>1, <1>2

LEMMA AllocateIfmStep ==
  ASSUME Types, NEW s \in Sessions, Handles(s), Carries(s), AllocateIfm(s)
  PROVE  Handles(s)' /\ Carries(s)'
<1> USE DEF OneRequest, KindHere, Connects, Allocates, Loops, BeginsRelease, Ends,
    Starting, Early, Looping, Ended, Asks, Subject, Buffered
<1>1. CASE ~ok[s]
  BY <1>1, LeavesInError DEF AllocateIfm
<1>2. CASE ok[s]
  <2>1. /\ pc[s] = "ifm" /\ req[s] = <<>> /\ kind[s] \in {"eval", "api"}
        /\ frame[s] = 1 /\ releases[s] = 0 /\ up[s] = <<>> /\ down[s] = <<>>
    BY <1>2 DEF AllocateIfm, At, Handles, Starts
  <2>2. PICK n \in 0 .. batch[s] : Own(s) = Taken(s, n, n)
    BY <1>2, <2>1 DEF Handles
  <2>3. /\ n \in Nat /\ batch[s] \in Nat /\ Took(s, "ifm") = n /\ Took(s, "ofm") = n
    BY <2>2, CountTaken, DevkitConstants DEF Types, TypesOf, Domains
  <2>4. UNCHANGED <<kind, batch, frame, ok, up, down, got, missed, releases, held, ifm, ofm,
                    misuse>>
        /\ Own(s)' = Own(s)
    BY <1>2, OwnSame DEF AllocateIfm, client, pair, done, board
  <2>5. CASE n = batch[s]
    <3>1. pc'[s] = "loop" /\ req'[s] = <<>>
      BY <1>2, <2>1, <2>3, <2>5 DEF AllocateIfm, Goto, Types, TypesOf, Domains
    <3>2. Own(s)' = Whole(s)'
      BY <2>1, <2>2, <2>4, <2>5, Fixed DEF Whole
    <3>3. Releases(s)'
      BY <3>1, NotReleasingNext
    <3>4. OneRequest(s)' /\ KindHere(s)' /\ Starts(s)' /\ Connects(s)' /\ Allocates(s)'
          /\ Loops(s)' /\ BeginsRelease(s)' /\ Ends(s)'
      BY <2>1, <2>4, <3>1, <3>2 DEF Starts
    <3>5. NoMisuse(s)' /\ Carries(s)'
      BY <2>1, <2>4, <3>1, <3>2 DEF Handles, NoMisuse, Carries, InOrder
    <3> QED BY <3>3, <3>4, <3>5 DEF Handles
  <2>6. CASE n # batch[s]
    <3>1. pc'[s] = "ofm" /\ Call(s, "alloc", Ifm(s, n + 1)) /\ n \in 0 .. batch[s] - 1
      BY <1>2, <2>1, <2>3, <2>6 DEF AllocateIfm, Goto, Types, TypesOf, Domains
    <3>2. req'[s] # <<>> /\ Tail(req'[s]) = <<>>
          /\ Head(req'[s]).op = "alloc" /\ Head(req'[s]).h = Ifm(s, n + 1)
      BY <2>1, <3>1, Calls
    <3>3. Releases(s)'
      BY <3>1, NotReleasingNext
    <3>4. OneRequest(s)' /\ KindHere(s)' /\ Starts(s)' /\ Connects(s)' /\ Allocates(s)'
          /\ Loops(s)' /\ BeginsRelease(s)' /\ Ends(s)'
      BY <2>1, <2>2, <2>4, <3>1, <3>2, HandleParts DEF Starts
    <3>5. NoMisuse(s)' /\ Carries(s)'
      BY <2>1, <2>2, <2>4, <3>1, <3>2 DEF Handles, NoMisuse, Carries, InOrder
    <3> QED BY <3>3, <3>4, <3>5 DEF Handles
  <2> QED BY <2>5, <2>6
<1> QED BY <1>1, <1>2

LEMMA AllocateOfmStep ==
  ASSUME Types, NEW s \in Sessions, Handles(s), Carries(s), AllocateOfm(s)
  PROVE  Handles(s)' /\ Carries(s)'
<1> USE DEF OneRequest, KindHere, Connects, Allocates, Loops, BeginsRelease, Ends,
    Starting, Early, Looping, Ended, Asks, Subject, Buffered
<1>1. CASE ~ok[s]
  BY <1>1, LeavesInError DEF AllocateOfm
<1>2. CASE ok[s]
  <2>1. /\ pc[s] = "ofm" /\ req[s] = <<>> /\ kind[s] \in {"eval", "api"}
        /\ frame[s] = 1 /\ releases[s] = 0 /\ up[s] = <<>> /\ down[s] = <<>>
    BY <1>2 DEF AllocateOfm, At, Handles, Starts
  <2>2. PICK n \in 0 .. batch[s] - 1 : Own(s) = Taken(s, n + 1, n)
    BY <1>2, <2>1 DEF Handles
  <2>3. /\ n \in Nat /\ n + 1 \in Nat /\ Took(s, "ofm") = n /\ (kind[s] = "api" => n = 0)
    BY <2>2, CountTaken, DevkitConstants DEF Types, TypesOf, Domains
  <2>4. UNCHANGED <<kind, batch, frame, ok, up, down, got, missed, releases, held, ifm, ofm,
                    misuse>>
        /\ Own(s)' = Own(s)
    BY <1>2, OwnSame DEF AllocateOfm, client, pair, done, board
  <2>5. pc'[s] = (IF kind[s] = "api" THEN "ofm?" ELSE "ifm") /\ Call(s, "alloc", Ofm(s, n + 1))
    BY <1>2, <2>3 DEF AllocateOfm, Goto, Types, TypesOf, Domains
  <2>6. req'[s] # <<>> /\ Tail(req'[s]) = <<>>
        /\ Head(req'[s]).op = "alloc" /\ Head(req'[s]).h = Ofm(s, n + 1)
    BY <2>1, <2>5, Calls
  <2>7. CASE kind[s] = "api"
    <3>1. Releases(s)'
      BY <2>5, <2>7, NotReleasingNext
    <3>2. OneRequest(s)' /\ KindHere(s)' /\ Starts(s)' /\ Connects(s)' /\ Allocates(s)'
          /\ Loops(s)' /\ BeginsRelease(s)' /\ Ends(s)'
      BY <2>1, <2>2, <2>3, <2>4, <2>5, <2>6, <2>7, HandleParts DEF Starts
    <3>3. NoMisuse(s)' /\ Carries(s)'
      BY <2>1, <2>2, <2>3, <2>4, <2>5, <2>6, <2>7 DEF Handles, NoMisuse, Carries, InOrder
    <3> QED BY <3>1, <3>2, <3>3 DEF Handles
  <2>8. CASE kind[s] # "api"
    <3>1. Releases(s)'
      BY <2>5, <2>8, NotReleasingNext
    <3>2. OneRequest(s)' /\ KindHere(s)' /\ Starts(s)' /\ Connects(s)' /\ Allocates(s)'
          /\ Loops(s)' /\ BeginsRelease(s)' /\ Ends(s)'
      BY <2>1, <2>2, <2>3, <2>4, <2>5, <2>6, <2>8, HandleParts DEF Starts
    <3>3. NoMisuse(s)' /\ Carries(s)'
      BY <2>1, <2>2, <2>3, <2>4, <2>5, <2>6, <2>8 DEF Handles, NoMisuse, Carries, InOrder
    <3> QED BY <3>1, <3>2, <3>3 DEF Handles
  <2> QED BY <2>7, <2>8
<1> QED BY <1>1, <1>2

LEMMA OfmAllocatedStep ==
  ASSUME Types, NEW s \in Sessions, Handles(s), Carries(s), OfmAllocated(s)
  PROVE  Handles(s)' /\ Carries(s)'
<1> USE DEF OneRequest, KindHere, Connects, Allocates, Loops, BeginsRelease, Ends,
    Starting, Early, Looping, Ended, Asks, Subject, Buffered
<1>1. /\ pc[s] = "ofm?" /\ req[s] = <<>> /\ kind[s] = "api" /\ batch[s] = 1
      /\ frame[s] = 1 /\ releases[s] = 0 /\ up[s] = <<>> /\ down[s] = <<>>
      /\ Own(s) = IF ok[s] THEN Taken(s, 1, 1) ELSE Taken(s, 1, 0)
  BY DEF OfmAllocated, At, Handles, Starts, Types, TypesOf, Domains
<1>2. UNCHANGED <<kind, batch, frame, ok, up, down, got, missed, held, ifm, ofm, misuse>>
      /\ Own(s)' = Own(s)
  BY OwnSame DEF OfmAllocated, client, pair, done, board
<1>3. CASE ok[s]
  <2>1. pc'[s] = "loop" /\ req'[s] = <<>> /\ releases'[s] = 0
    BY <1>1, <1>3 DEF OfmAllocated, Goto, Types, TypesOf, Domains
  <2>2. Own(s)' = Whole(s)'
    BY <1>1, <1>2, <1>3, Fixed DEF Whole
  <2>3. Releases(s)'
    BY <2>1, NotReleasingNext
  <2>4. OneRequest(s)' /\ KindHere(s)' /\ Starts(s)' /\ Connects(s)' /\ Allocates(s)'
        /\ Loops(s)' /\ BeginsRelease(s)' /\ Ends(s)'
    BY <1>1, <1>2, <2>1, <2>2 DEF Starts
  <2>5. NoMisuse(s)' /\ Carries(s)'
    BY <1>1, <1>2, <2>1, <2>2 DEF Handles, NoMisuse, Carries, InOrder
  <2> QED BY <2>3, <2>4, <2>5 DEF Handles
<1>4. CASE ~ok[s]
  <2>1. pc'[s] = "raised" /\ Call(s, "free", Ifm(s, 1)) /\ releases'[s] = 1
    BY <1>1, <1>4 DEF OfmAllocated, Goto, Types, TypesOf, Domains
  <2>2. req'[s] # <<>> /\ Tail(req'[s]) = <<>>
        /\ Head(req'[s]).op = "free" /\ Head(req'[s]).h = Ifm(s, 1)
    BY <1>1, <2>1, Calls
  <2>3. Releases(s)'
    BY <2>1, NotReleasingNext
  <2>4. OneRequest(s)' /\ KindHere(s)' /\ Starts(s)' /\ Connects(s)' /\ Allocates(s)'
        /\ Loops(s)' /\ BeginsRelease(s)' /\ Ends(s)'
    BY <1>1, <1>2, <1>4, <2>1, <2>2, HandleParts DEF Starts
  <2>5. NoMisuse(s)' /\ Carries(s)'
    BY <1>1, <1>2, <1>4, <2>1, <2>2 DEF Handles, NoMisuse, Carries, InOrder
  <2> QED BY <2>3, <2>4, <2>5 DEF Handles
<1> QED BY <1>3, <1>4

LEMMA UploadStep ==
  ASSUME Types, NEW s \in Sessions, Handles(s), Carries(s), Upload(s)
  PROVE  Handles(s)' /\ Carries(s)'
<1> USE DEF OneRequest, KindHere, Connects, Allocates, Loops, BeginsRelease, Ends,
    Starting, Early, Looping, Ended, Asks, Subject, Buffered
<1>1. /\ pc[s] = "loop" /\ req[s] = <<>> /\ kind[s] = "api" /\ releases[s] = 0
      /\ Own(s) = Whole(s)
      /\ missed[s] = {} => up[s] = <<>> /\ down[s] = <<>>
  BY DEF Upload, At, Handles, Carries, InOrder
<1>2. UNCHANGED <<kind, batch, frame, ok, down, got, missed, releases, held, ifm, ofm, misuse>>
      /\ Own(s)' = Own(s) /\ Whole(s)' = Whole(s)
  BY OwnSame, Fixed DEF Upload, client, done, board
<1>3. pc'[s] = "run" /\ Call(s, "upload", Ifm(s, 1)) 
      /\ (missed[s] = {} => up'[s] = <<frame[s]>>)
  <2>1. pc'[s] = "run" /\ Call(s, "upload", Ifm(s, 1)) /\ up'[s] = Append(up[s], frame[s])
    BY DEF Upload, Goto, Types, TypesOf, Domains
  <2>2. Append(<<>>, frame[s]) = <<frame[s]>>
    OBVIOUS
  <2> QED BY <1>1, <2>1, <2>2
<1>4. req'[s] # <<>> /\ Tail(req'[s]) = <<>>
      /\ Head(req'[s]).op = "upload" /\ Head(req'[s]).h = Ifm(s, 1)
  BY <1>1, <1>3, Calls
<1>5. Releases(s)'
  BY <1>3, NotReleasingNext
<1>6. OneRequest(s)' /\ KindHere(s)' /\ Starts(s)' /\ Connects(s)' /\ Allocates(s)'
      /\ Loops(s)' /\ BeginsRelease(s)' /\ Ends(s)'
  BY <1>1, <1>2, <1>3, <1>4, HandleParts DEF Starts
<1>7. NoMisuse(s)' /\ Carries(s)'
  BY <1>1, <1>2, <1>3, <1>4 DEF Handles, NoMisuse, Carries, InOrder
<1> QED BY <1>5, <1>6, <1>7 DEF Handles

LEMMA RunStep ==
  ASSUME Types, NEW s \in Sessions, Handles(s), Carries(s), Run(s)
  PROVE  Handles(s)' /\ Carries(s)'
<1> USE DEF OneRequest, KindHere, Connects, Allocates, Loops, BeginsRelease, Ends,
    Starting, Early, Looping, Ended, Asks, Subject, Buffered
<1>1. /\ pc[s] \in {"loop", "run"} /\ req[s] = <<>> /\ kind[s] # "runner" /\ releases[s] = 0
      /\ Own(s) = Whole(s)
      /\ missed[s] = {} => /\ up[s] = <<>> /\ down[s] = <<>>
                           /\ kind[s] = "api" => ifm[s] = frame[s]
  BY DEF Run, At, Handles, Carries, InOrder
<1>2. UNCHANGED <<kind, batch, frame, ok, up, down, got, missed, releases, held, ifm, ofm,
                  misuse>>
      /\ Own(s)' = Own(s) /\ Whole(s)' = Whole(s)
  BY OwnSame, Fixed DEF Run, client, pair, done, board
<1>3. pc'[s] = "ran" /\ Call(s, "run", Model(s))
  BY <1>1 DEF Run, Goto, Types, TypesOf, Domains
<1>4. req'[s] # <<>> /\ Tail(req'[s]) = <<>>
      /\ Head(req'[s]).op = "run" /\ Head(req'[s]).h = Model(s)
  BY <1>1, <1>3, Calls
<1>5. Releases(s)'
  BY <1>3, NotReleasingNext
<1>6. OneRequest(s)' /\ KindHere(s)' /\ Starts(s)' /\ Connects(s)' /\ Allocates(s)'
      /\ Loops(s)' /\ BeginsRelease(s)' /\ Ends(s)'
  BY <1>1, <1>2, <1>3, <1>4, HandleParts DEF Starts
<1>7. NoMisuse(s)' /\ Carries(s)'
  BY <1>1, <1>2, <1>3, <1>4 DEF Handles, NoMisuse, Carries, InOrder
<1> QED BY <1>5, <1>6, <1>7 DEF Handles

LEMMA RanStep ==
  ASSUME Types, NEW s \in Sessions, Handles(s), Carries(s), Ran(s)
  PROVE  Handles(s)' /\ Carries(s)'
<1> USE DEF OneRequest, KindHere, Connects, Allocates, Loops, BeginsRelease, Ends,
    Starting, Early, Looping, Ended, Asks, Subject, Buffered
<1>1. CASE kind[s] = "eval" /\ ~ok[s]
  BY <1>1, LeavesInError DEF Ran
<1>2. CASE ~(kind[s] = "eval" /\ ~ok[s])
  <2>1. /\ pc[s] = "ran" /\ req[s] = <<>> /\ kind[s] # "runner" /\ releases[s] = 0
        /\ Own(s) = Whole(s)
        /\ missed[s] = {} => /\ up[s] = <<>> /\ down[s] = <<>>
                             /\ kind[s] = "api" /\ ok[s] => ofm[s] = frame[s]
    BY DEF Ran, At, Handles, Carries, InOrder
  <2>2. \/ kind[s] = "api" /\ ~ok[s] /\ Goto(s, "raised") /\ req' = req
        \/ kind[s] = "api" /\ ok[s] /\ Goto(s, "download") /\ Call(s, "download", Ofm(s, 1))
        \/ kind[s] # "api" /\ Goto(s, "next") /\ req' = req
    BY <1>2 DEF Ran
  <2>3. UNCHANGED <<kind, batch, frame, ok, up, down, got, missed, releases, held, ifm, ofm,
                    misuse>>
        /\ Own(s)' = Own(s) /\ Whole(s)' = Whole(s)
    <3>1. UNCHANGED <<pair, owner>>
      BY <1>2 DEF Ran
    <3> QED BY <3>1, OwnSame, Fixed DEF Ran, client, pair, done
  <2>4. CASE Goto(s, "download") /\ Call(s, "download", Ofm(s, 1)) /\ kind[s] = "api" /\ ok[s]
    <3>1. pc'[s] = "download"
      BY <2>4 DEF Goto, Types, TypesOf, Domains
    <3>2. req'[s] # <<>> /\ Tail(req'[s]) = <<>>
          /\ Head(req'[s]).op = "download" /\ Head(req'[s]).h = Ofm(s, 1)
      BY <2>1, <2>4, Calls
    <3>3. Releases(s)'
      BY <3>1, NotReleasingNext
    <3>4. OneRequest(s)' /\ KindHere(s)' /\ Starts(s)' /\ Connects(s)' /\ Allocates(s)'
          /\ Loops(s)' /\ BeginsRelease(s)' /\ Ends(s)'
      BY <2>1, <2>3, <2>4, <3>1, <3>2, HandleParts DEF Starts
    <3>5. NoMisuse(s)' /\ Carries(s)'
      BY <2>1, <2>3, <2>4, <3>1, <3>2 DEF Handles, NoMisuse, Carries, InOrder
    <3> QED BY <3>3, <3>4, <3>5 DEF Handles
  <2>5. CASE \/ kind[s] = "api" /\ Goto(s, "raised") /\ req' = req
             \/ kind[s] # "api" /\ Goto(s, "next") /\ req' = req
    <3>1. /\ pc'[s] \in {"raised", "next"} /\ req'[s] = <<>>
          /\ pc'[s] = "raised" => kind[s] = "api"
      BY <2>1, <2>5 DEF Goto, Types, TypesOf, Domains
    <3>2. Releases(s)'
      BY <3>1, NotReleasingNext
    <3>3. OneRequest(s)' /\ KindHere(s)' /\ Starts(s)' /\ Connects(s)' /\ Allocates(s)'
          /\ Loops(s)' /\ BeginsRelease(s)' /\ Ends(s)'
      BY <2>1, <2>3, <3>1 DEF Starts
    <3>4. NoMisuse(s)' /\ Carries(s)'
      BY <2>1, <2>3, <3>1 DEF Handles, NoMisuse, Carries, InOrder
    <3> QED BY <3>2, <3>3, <3>4 DEF Handles
  <2> QED BY <2>2, <2>4, <2>5
<1> QED BY <1>1, <1>2

LEMMA DownloadStep ==
  ASSUME Types, NEW s \in Sessions, Handles(s), Carries(s), Download(s)
  PROVE  Handles(s)' /\ Carries(s)'
<1> USE DEF OneRequest, KindHere, Connects, Allocates, Loops, BeginsRelease, Ends,
    Starting, Early, Looping, Ended, Asks, Subject, Buffered
<1>1. /\ pc[s] = "download" /\ req[s] = <<>> /\ kind[s] = "api" /\ releases[s] = 0
      /\ Own(s) = Whole(s) /\ down[s] # <<>>
      /\ missed[s] = {} => up[s] = <<>> /\ down[s] = <<frame[s]>>
  BY DEF Download, At, Handles, Carries, InOrder
<1>2. UNCHANGED <<kind, batch, frame, ok, up, missed, releases, held, ifm, ofm,
                  misuse>> /\ req' = req
      /\ Own(s)' = Own(s) /\ Whole(s)' = Whole(s)
  BY OwnSame, Fixed DEF Download, client, board
<1>3. /\ pc'[s] = "next" /\ got'[s] = got[s] \cup {<<frame[s], Head(down[s])>>}
      /\ missed[s] = {} => down'[s] = <<>> /\ Head(down[s]) = frame[s]
  <2>1. pc'[s] = "next" /\ got'[s] = got[s] \cup {<<frame[s], Head(down[s])>>}
        /\ down'[s] = Tail(down[s])
    BY DEF Download, Goto, Types, TypesOf, Domains
  <2>2. Tail(<<frame[s]>>) = <<>> /\ Head(<<frame[s]>>) = frame[s]
    OBVIOUS
  <2> QED BY <1>1, <2>1, <2>2
<1>3a. \A r \in got'[s] : \/ r[1] = r[2]
                          \/ \E f \in missed[s] : f <= r[1]
  <2>1. missed[s] # {} => \E f \in missed[s] : f <= frame[s]
    BY DEF Carries
  <2> QED BY <1>3, <2>1 DEF Carries
<1>4. Releases(s)'
  BY <1>3, NotReleasingNext
<1>5. OneRequest(s)' /\ KindHere(s)' /\ Starts(s)' /\ Connects(s)' /\ Allocates(s)'
      /\ Loops(s)' /\ BeginsRelease(s)' /\ Ends(s)'
  BY <1>1, <1>2, <1>3 DEF Starts
<1>6. NoMisuse(s)' /\ Carries(s)'
  BY <1>1, <1>2, <1>3, <1>3a DEF Handles, NoMisuse, Carries, InOrder
<1> QED BY <1>4, <1>5, <1>6 DEF Handles

LEMMA NextFrameStep ==
  ASSUME Types, NEW s \in Sessions, Handles(s), Carries(s), NextFrame(s)
  PROVE  Handles(s)' /\ Carries(s)'
<1> USE DEF OneRequest, KindHere, Connects, Allocates, Loops, BeginsRelease, Ends,
    Starting, Early, Looping, Ended, Asks, Subject, Buffered
<1>1. /\ pc[s] = "next" /\ req[s] = <<>> /\ kind[s] # "runner" /\ releases[s] = 0
      /\ Own(s) = Whole(s)
      /\ missed[s] = {} => up[s] = <<>> /\ down[s] = <<>>
  BY DEF NextFrame, Handles, Carries, InOrder
<1>2. UNCHANGED <<kind, batch, ok, up, down, got, missed, releases, held, ifm, ofm,
                  misuse>> /\ req' = req
      /\ Own(s)' = Own(s) /\ Whole(s)' = Whole(s) /\ Spare(s)' = Spare(s)
  BY OwnSame, Fixed DEF NextFrame, client, pair, done, board
<1>3. pc'[s] \in {"loop", "release"}
  BY DEF NextFrame, Goto, Types, TypesOf, Domains
<1>4. Spare(s) \subseteq Whole(s)
  BY ReturnedAndSpare
<1>5. Releases(s)'
  BY <1>3, NotReleasingNext
<1>6. OneRequest(s)' /\ KindHere(s)' /\ Starts(s)' /\ Connects(s)' /\ Allocates(s)'
      /\ Loops(s)' /\ BeginsRelease(s)' /\ Ends(s)'
  BY <1>1, <1>2, <1>3, <1>4 DEF Starts
<1>7. frame[s] \in Nat /\ frame'[s] \in {frame[s], frame[s] + 1}
  BY DEF NextFrame, Types, TypesOf, Domains
<1>8. missed'[s] \subseteq 0 .. frame'[s]
  BY <1>2, <1>7 DEF Carries
<1>9. NoMisuse(s)' /\ Carries(s)'
  BY <1>1, <1>2, <1>3, <1>8 DEF Handles, NoMisuse, Carries, InOrder
<1> QED BY <1>5, <1>6, <1>9 DEF Handles

LEMMA CaughtStep ==
  ASSUME Types, NEW s \in Sessions, Handles(s), Carries(s), Caught(s)
  PROVE  Handles(s)' /\ Carries(s)'
<1> USE DEF OneRequest, KindHere, Connects, Allocates, Loops, BeginsRelease, Ends,
    Starting, Early, Looping, Ended, Asks, Subject, Buffered
<1>1. /\ pc[s] = "raised" /\ req[s] = <<>> /\ kind[s] = "api" /\ batch[s] = 1
      /\ missed[s] = {} => up[s] = <<>> /\ down[s] = <<>>
      /\ \/ releases[s] = 0 /\ Own(s) = Whole(s)
         \/ releases[s] = 1 /\ Own(s) = {Model(s)}
  BY TakenNone DEF Caught, At, Handles, Carries, InOrder, Types, TypesOf, Domains
<1>2. UNCHANGED <<kind, batch, ok, up, down, got, missed, releases, held, ifm, ofm,
                  misuse>> /\ req' = req
      /\ Own(s)' = Own(s) /\ Whole(s)' = Whole(s) /\ Spare(s)' = Spare(s)
  BY OwnSame, Fixed DEF Caught, client, pair, done, board
<1>3. \/ pc'[s] = "loop" /\ Ofm(s, 1) \in held
      \/ pc'[s] = "release"
  BY DEF Caught, Goto, Types, TypesOf, Domains
<1>4. Spare(s) = {} /\ Model(s) \in Whole(s)
  <2>1. Spare(s) = {}
    <3>1. 1 .. 1 = {1}
      OBVIOUS
    <3> QED BY <1>1, <3>1, HandleParts DEF Spare, Buffers
  <2> QED BY <1>1, <2>1 DEF Whole, Taken
<1>5. pc'[s] = "loop" => releases[s] = 0 /\ Own(s) = Whole(s)
  BY <1>1, <1>3, HandleParts DEF Own
<1>6. Releases(s)'
  BY <1>3, NotReleasingNext
<1>7. OneRequest(s)' /\ KindHere(s)' /\ Starts(s)' /\ Connects(s)' /\ Allocates(s)'
      /\ Loops(s)' /\ BeginsRelease(s)' /\ Ends(s)'
  BY <1>1, <1>2, <1>3, <1>4, <1>5 DEF Starts
<1>8. frame[s] \in Nat /\ frame'[s] \in {frame[s], frame[s] + 1}
  BY DEF Caught, Types, TypesOf, Domains
<1>9. missed'[s] \subseteq 0 .. frame'[s]
  BY <1>2, <1>8 DEF Carries
<1>10. NoMisuse(s)' /\ Carries(s)'
  BY <1>1, <1>2, <1>3, <1>9 DEF Handles, NoMisuse, Carries, InOrder
<1> QED BY <1>6, <1>7, <1>10 DEF Handles

(* The i-th call of release(): what it asks for was not given back in this  *)
(* round, nor, the first time, ever.                                        *)
LEMMA ReleaseStep ==
  ASSUME Types, NEW s \in Sessions, Handles(s), Carries(s), Release(s)
  PROVE  Handles(s)' /\ Carries(s)'
<1> USE DEF OneRequest, KindHere, Connects, Allocates, Loops, BeginsRelease, Ends,
    Starting, Early, Looping, Ended, Asks, Subject, Buffered
<1>1. PICK i \in 1 .. 3 :
        /\ pc[s] = Step[i] /\ req[s] = <<>> /\ i <= Len(Returned(s))
        /\ \/ req' = req /\ Returned(s)[i] \notin held
           \/ Call(s, "free", Returned(s)[i])
        /\ pc' = [pc EXCEPT ![s] = Step[i + 1]]
        /\ releases' = IF i = 1 THEN [releases EXCEPT ![s] = @ + 1] ELSE releases
        /\ UNCHANGED <<client, frame, ok, pair, done, board, faults, signals>>
  BY DEF Release, At, Goto
<1>2. UNCHANGED <<kind, batch, frame, ok, up, down, got, missed, held, ifm, ofm, misuse>>
      /\ Own(s)' = Own(s) /\ Whole(s)' = Whole(s) /\ Spare(s)' = Spare(s)
      /\ Returned(s)' = Returned(s)
  BY <1>1, OwnSame, Fixed DEF client, pair, done, board
<1>3. pc'[s] = Step[i + 1] /\ releases'[s] = (IF i = 1 THEN releases[s] + 1 ELSE releases[s])
      /\ releases[s] \in Nat /\ Len(Returned(s)) \in 1 .. 3
  BY <1>1, ReturnedAndSpare DEF Types, TypesOf, Domains
<1>4. /\ Spare(s) \subseteq Own(s) /\ Own(s) \subseteq Whole(s) /\ releases'[s] > 0
      /\ \A j \in 1 .. i - 1 : Returned(s)[j] \notin Own(s)
      /\ releases'[s] = 1 => \A j \in i .. Len(Returned(s)) : Returned(s)[j] \in Own(s)
  <2>1. CASE i = 1
    <3>1. pc[s] = "release"
      BY <1>1, <2>1, StepNames
    <3>2. Spare(s) \subseteq Own(s) /\ Own(s) \subseteq Whole(s)
          /\ (releases[s] = 0 => Own(s) = Whole(s))
      BY <3>1 DEF Handles
    <3>3. \A j \in 1 .. Len(Returned(s)) : Returned(s)[j] \in Whole(s)
      BY ReturnedAndSpare
    <3>4. 1 .. i - 1 = {}
      BY <2>1
    <3> QED BY <1>3, <2>1, <3>2, <3>3, <3>4
  <2>2. CASE i = 2
    <3>1. pc[s] = Step[1 + 1] /\ 1 \in 1 .. 3
      BY <1>1, <2>2
    <3>2. /\ Spare(s) \subseteq Own(s) /\ Own(s) \subseteq Whole(s) /\ releases[s] > 0
          /\ Returned(s)[1] \notin Own(s)
          /\ releases[s] = 1 => \A j \in 1 + 1 .. Len(Returned(s)) : Returned(s)[j] \in Own(s)
      BY <1>1, <3>1 DEF Handles, Releases
    <3>3. 1 .. i - 1 = {1}
      BY <2>2
    <3> QED BY <1>3, <2>2, <3>2, <3>3
  <2>3. CASE i = 3
    <3>1. pc[s] = Step[2 + 1] /\ 2 \in 1 .. 3
      BY <1>1, <2>3
    <3>2. /\ Spare(s) \subseteq Own(s) /\ Own(s) \subseteq Whole(s) /\ releases[s] > 0
          /\ Returned(s)[2] \notin Own(s) /\ \A j \in 1 .. 2 - 1 : Returned(s)[j] \notin Own(s)
          /\ releases[s] = 1 => \A j \in 2 + 1 .. Len(Returned(s)) : Returned(s)[j] \in Own(s)
      BY <1>1, <3>1 DEF Handles, Releases
    <3>3. \A j \in 1 .. i - 1 : j = 2 \/ j \in 1 .. 2 - 1
      BY <2>3
    <3> QED BY <1>3, <2>3, <3>2, <3>3
  <2> QED BY <2>1, <2>2, <2>3
<1>5. \/ req'[s] = <<>> /\ Returned(s)[i] \notin Own(s)
      \/ /\ req'[s] # <<>> /\ Tail(req'[s]) = <<>>
         /\ Head(req'[s]).op = "free" /\ Head(req'[s]).h = Returned(s)[i]
  BY <1>1, Calls DEF Own
<1>6. Releases(s)'
  <2>1. \A k \in 1 .. 3 : Step[k + 1] = Step[i + 1] => k = i
    BY StepNames
  <2>2. i \in i .. Len(Returned(s)) /\ i + 1 .. Len(Returned(s)) \subseteq i .. Len(Returned(s))
    BY <1>1, <1>3
  <2>3. i <= Len(Returned(s))
    BY <1>1
  <2> QED BY <1>2, <1>3, <1>4, <1>5, <2>1, <2>2, <2>3 DEF Releases
<1>7. pc'[s] \in {"release2", "release3", "release4"}
  BY <1>3, StepNames
<1>8. Returned(s)[i].of = s
  BY <1>1, ReturnedAndSpare
<1>9. OneRequest(s)' /\ KindHere(s)' /\ Starts(s)' /\ Connects(s)' /\ Allocates(s)'
      /\ Loops(s)' /\ BeginsRelease(s)' /\ Ends(s)'
  BY <1>5, <1>7, <1>8 DEF Starts
<1>10. NoMisuse(s)' /\ Carries(s)'
  BY <1>2, <1>3, <1>7 DEF Handles, NoMisuse, Carries, InOrder
<1> QED BY <1>6, <1>9, <1>10 DEF Handles

LEMMA ReleasedStep ==
  ASSUME Types, NEW s \in Sessions, Handles(s), Carries(s), Released(s)
  PROVE  Handles(s)' /\ Carries(s)'
<1> USE DEF OneRequest, KindHere, Connects, Allocates, Loops, BeginsRelease, Ends,
    Starting, Early, Looping, Ended, Asks, Subject, Buffered
<1>1. Len(Returned(s)) \in 1 .. 3
  BY ReturnedAndSpare
<1>2. PICK k \in 1 .. 3 : k = Len(Returned(s)) /\ pc[s] = Step[k + 1] /\ req[s] = <<>>
  BY <1>1 DEF Released, At
<1>3. /\ pc'[s] = "done" /\ req'[s] = <<>>
      /\ UNCHANGED <<kind, batch, frame, releases, got, missed, misuse, held>>
      /\ Own(s)' = Own(s) /\ Spare(s)' = Spare(s)
  BY OwnSame, Fixed DEF Released, Leave, Goto, Types, TypesOf, Domains, client, done
<1>4. Own(s) = Spare(s)
  <2>1. /\ Spare(s) \subseteq Own(s) /\ Own(s) \subseteq Whole(s)
        /\ Returned(s)[k] \notin Own(s) /\ \A j \in 1 .. k - 1 : Returned(s)[j] \notin Own(s)
    BY <1>2 DEF Handles, Releases
  <2>2. \A j \in 1 .. Len(Returned(s)) : Returned(s)[j] \notin Own(s)
    BY <1>2, <2>1
  <2>3. \A h \in Whole(s) : h \in Spare(s) \/ \E i \in 1 .. Len(Returned(s)) : h = Returned(s)[i]
    BY ReturnedAndSpare
  <2> QED BY ONLY <2>1, <2>2, <2>3
<1>5. Releases(s)'
  BY <1>3, NotReleasingNext
<1>6. OneRequest(s)' /\ KindHere(s)' /\ Starts(s)' /\ Connects(s)' /\ Allocates(s)'
      /\ Loops(s)' /\ BeginsRelease(s)' /\ Ends(s)'
  BY <1>3, <1>4 DEF Starts
<1>7. NoMisuse(s)' /\ Carries(s)'
  BY <1>3, <1>4 DEF Handles, NoMisuse, Carries, InOrder
<1> QED BY <1>5, <1>6, <1>7 DEF Handles

(* A signal comes in the loop or in a release.                             *)
LEMMA SignalStep ==
  ASSUME Types, NEW s \in Sessions, Handles(s), Carries(s), Signal(s)
  PROVE  Handles(s)' /\ Carries(s)'
<1> USE DEF OneRequest, KindHere, Connects, Allocates, Loops, BeginsRelease, Ends,
    Starting, Early, Looping, Ended, Asks, Subject, Buffered
<1>1. /\ kind[s] \in {"eval", "pm"} /\ frame[s] > 1 /\ pc[s] \notin Ended /\ pc'[s] = "release"
  BY DEF Signal, Goto, Types, TypesOf, Domains
<1>2. UNCHANGED <<kind, batch, frame, ok, up, down, got, missed, releases, held, ifm, ofm,
                  misuse>> /\ req' = req
      /\ Own(s)' = Own(s) /\ Whole(s)' = Whole(s) /\ Spare(s)' = Spare(s)
      /\ Returned(s)' = Returned(s)
  BY OwnSame, Fixed DEF Signal, client, pair, done, board
<1>3. pc[s] \in {"loop", "ran", "next", "release", "release2", "release3", "release4"}
  BY <1>1, PlacesAre DEF Handles, Starts, Types, TypesOf, Domains
<1>4. OneRequest(s)'
  BY <1>2 DEF Handles
<1>5. BeginsRelease(s)'
  <2>1. CASE pc[s] \in {"loop", "ran", "next"}
    <3>1. Own(s) = Whole(s) /\ Spare(s) \subseteq Whole(s)
      BY <2>1, ReturnedAndSpare DEF Handles
    <3>2. req[s] = <<>> \/ (Asks(s, "run") /\ Subject(s) = Model(s))
      BY <2>1 DEF Handles
    <3>3. kind[s] = "pm" => Model(s) \in Whole(s)
      BY DEF Whole
    <3> QED BY <1>1, <1>2, <3>1, <3>2, <3>3
  <2>2. CASE pc[s] = "release"
    <3>1. BeginsRelease(s)
      BY DEF Handles
    <3> QED BY <1>2, <2>2, <3>1
  <2>3. ASSUME NEW k \in 1 .. 3, pc[s] = Step[k + 1] PROVE BeginsRelease(s)'
    <3>1. /\ k \in 1 .. Len(Returned(s)) /\ releases[s] > 0
          /\ Spare(s) \subseteq Own(s) /\ Own(s) \subseteq Whole(s)
          /\ \/ req[s] = <<>>
             \/ /\ Asks(s, "free") /\ Subject(s) = Returned(s)[k]
                /\ releases[s] = 1 => Returned(s)[k] \in Own(s)
      BY <2>3, ReturnedAndSpare DEF Handles, Releases
    <3> QED BY <1>2, <3>1 DEF Types, TypesOf, Domains
  <2>4. Step[1 + 1] = "release2" /\ Step[2 + 1] = "release3" /\ Step[3 + 1] = "release4"
    BY StepNames
  <2> QED BY <1>3, <2>1, <2>2, <2>3, <2>4
<1>6. Releases(s)'
  BY <1>1, NotReleasingNext
<1>7. KindHere(s)' /\ Starts(s)' /\ Connects(s)' /\ Allocates(s)' /\ Loops(s)' /\ Ends(s)'
  BY <1>1 DEF Starts
<1>8. NoMisuse(s)' /\ Carries(s)'
  BY <1>1, <1>2 DEF Handles, NoMisuse, Carries, InOrder
<1> QED BY <1>4, <1>5, <1>6, <1>7, <1>8 DEF Handles

LEMMA ProgramStep ==
  ASSUME Types, NEW s \in Sessions, Handles(s), Carries(s), Program(s) \/ Signal(s) \/ Dies(s)
  PROVE  Handles(s)' /\ Carries(s)'
<1>1. CASE StatsMissing(s)
  BY <1>1, LeavesInError DEF StatsMissing
<1>2. CASE Dies(s)
  <2>1. pc'[s] = "error" /\ req'[s] = <<>> /\ misuse' = misuse
        /\ releases'[s] = releases[s] /\ got'[s] = got[s]
        /\ missed'[s] = missed[s] /\ frame'[s] = frame[s]
    BY <1>2 DEF Dies, Goto, Types, TypesOf, Domains, done
  <2> QED BY <2>1, EndsInError
<1>3. CASE Start(s) \/ Tunnel(s) \/ TunnelZmq(s) \/ Copy(s)
  BY <1>3, EarlySteps
<1>4. CASE Connect(s) \/ LoadModel(s) \/ RunRemote(s)
  BY <1>4, ConnectStep, LoadModelStep, RunRemoteStep
<1>5. CASE AllocateIfm(s) \/ AllocateOfm(s) \/ OfmAllocated(s)
  BY <1>5, AllocateIfmStep, AllocateOfmStep, OfmAllocatedStep
<1>6. CASE Upload(s) \/ Run(s) \/ Ran(s) \/ Download(s) \/ NextFrame(s) \/ Caught(s)
  BY <1>6, UploadStep, RunStep, RanStep, DownloadStep, NextFrameStep, CaughtStep
<1>7. CASE Release(s) \/ Released(s) \/ Signal(s)
  BY <1>7, ReleaseStep, ReleasedStep, SignalStep
<1> QED BY <1>1, <1>2, <1>3, <1>4, <1>5, <1>6, <1>7 DEF Program

-----------------------------------------------------------------------------
(* An answer of the service keeps the invariant of the program it is for.   *)

LEMMA Unreleased ==
  ASSUME NEW s, Handles(s), Asks(s, "connect") \/ Asks(s, "alloc") \/ Asks(s, "upload")
                            \/ Asks(s, "run") \/ Asks(s, "download")
  PROVE  pc[s] \notin {"release2", "release3", "release4"}
<1>1. ASSUME NEW k \in 1 .. 3, pc[s] = Step[k + 1] PROVE FALSE
  <2>1. req[s] = <<>> \/ Asks(s, "free")
    BY <1>1 DEF Handles, Releases
  <2> QED BY <2>1 DEF Asks
<1>2. Step[1 + 1] = "release2" /\ Step[2 + 1] = "release3" /\ Step[3 + 1] = "release4"
  BY StepNames
<1> QED BY <1>1, <1>2

LEMMA ServeConnectStep ==
  ASSUME Types, NEW s \in Sessions, Handles(s), Carries(s), ServeConnect(s)
  PROVE  Handles(s)' /\ Carries(s)'
<1> USE DEF OneRequest, KindHere, Connects, Allocates, Loops, BeginsRelease, Ends,
    Starting, Early, Looping, Ended, Asks, Subject, Buffered
<1>1. Asks(s, "connect")
  BY DEF ServeConnect, Asked, Handles
<1>2. pc[s] \notin {"release2", "release3", "release4"}
  BY <1>1, Unreleased
<1>3. pc[s] = "model" /\ Subject(s) = Model(s) /\ Own(s) = {} /\ kind[s] # "runner"
  BY <1>1, <1>2, PlacesAre DEF Handles, Types, TypesOf, Domains
<1>4. \/ ok'[s] = FALSE /\ held' = held
      \/ held' = IF kind[s] = "pm" THEN held \cup {Model(s)} ELSE held
  BY <1>3, Answers DEF ServeConnect, Handles, Asked
<1>5. req'[s] = <<>> /\ UNCHANGED <<kind, batch, pc, frame, up, down, got, missed, releases,
                                    ifm, ofm, misuse>>
  BY Answers DEF ServeConnect, Handles, Asked, client, pair, done
<1>6. ok'[s] => Own(s)' = IF kind[s] = "pm" THEN {Model(s)} ELSE {}
  BY <1>3, <1>4, OwnGrows, OwnSame, HandleParts
<1>7. Releases(s)'
  BY <1>3, <1>5, NotReleasingNext
<1>8. OneRequest(s)' /\ KindHere(s)' /\ Starts(s)' /\ Connects(s)' /\ Allocates(s)'
      /\ Loops(s)' /\ BeginsRelease(s)' /\ Ends(s)'
  BY <1>3, <1>5, <1>6 DEF Handles, Starts
<1>9. NoMisuse(s)' /\ Carries(s)'
  BY <1>3, <1>5, <1>6 DEF Handles, NoMisuse, Carries, InOrder
<1> QED BY <1>7, <1>8, <1>9 DEF Handles

LEMMA ServeAllocStep ==
  ASSUME Types, NEW s \in Sessions, Handles(s), Carries(s), ServeAlloc(s)
  PROVE  Handles(s)' /\ Carries(s)'
<1> USE DEF OneRequest, KindHere, Connects, Allocates, Loops, BeginsRelease, Ends,
    Starting, Early, Looping, Ended, Asks, Subject, Buffered
<1>1. Asks(s, "alloc")
  BY DEF ServeAlloc, Asked, Handles
<1>2. pc[s] \notin {"release2", "release3", "release4"}
  BY <1>1, Unreleased
<1>3. pc[s] \in {"env", "ifm", "ofm", "ofm?"}
  BY <1>1, <1>2, PlacesAre DEF Handles, Types, TypesOf, Domains
<1>4. req'[s] = <<>> /\ UNCHANGED <<kind, batch, pc, frame, up, down, got, missed, releases,
                                    ifm, ofm, misuse>>
  BY Answers DEF ServeAlloc, Handles, Asked, client, pair, done
<1>5. Subject(s).of = s /\ batch[s] \in Nat \ {0}
  BY <1>1, DevkitConstants DEF Handles, Types, TypesOf, Domains
<1>6. \/ ~ok'[s] /\ held' = held /\ Own(s)' = Own(s)
      \/ ok'[s] /\ held' = held \cup {Subject(s)} /\ Own(s)' = Own(s) \cup {Subject(s)}
  <2>1. \/ ok'[s] = FALSE /\ held' = held
        \/ ok'[s] = TRUE /\ held' = held \cup {Subject(s)}
    BY Answers DEF ServeAlloc, Handles, Asked
  <2> QED BY ONLY <1>5, <2>1, OwnGrows, OwnSame
<1>7. CASE pc[s] = "env"
  <2>1. Subject(s) = Env(s) /\ Own(s) = {}
    BY <1>1, <1>7 DEF Handles
  <2>2. ok'[s] => Own(s)' = {Env(s)}
    BY <1>6, <2>1
  <2>3. Releases(s)'
    BY <1>4, <1>7, NotReleasingNext
  <2>4. OneRequest(s)' /\ KindHere(s)' /\ Starts(s)' /\ Connects(s)' /\ Allocates(s)'
        /\ Loops(s)' /\ BeginsRelease(s)' /\ Ends(s)'
    BY <1>4, <1>7, <2>2 DEF Handles, Starts
  <2>5. NoMisuse(s)' /\ Carries(s)'
    BY <1>4, <1>7, <2>2 DEF Handles, NoMisuse, Carries, InOrder
  <2> QED BY <2>3, <2>4, <2>5 DEF Handles
<1>8. CASE pc[s] = "ifm"
  <2>1. ok'[s] => \E n \in 0 .. batch[s] : Own(s)' = Taken(s, n, n)
    <3>1. CASE Subject(s) = Model(s) /\ Own(s) = {}
      <4>1. ok'[s] => Own(s)' = Taken(s, 0, 0)
        BY <1>6, <3>1, TakenNone
      <4> QED BY <1>5, <4>1
    <3>2. ASSUME NEW n \in 0 .. batch[s] - 1, Subject(s) = Ofm(s, n + 1), Own(s) = Taken(s, n + 1, n)
          PROVE  ok'[s] => \E m \in 0 .. batch[s] : Own(s)' = Taken(s, m, m)
      <4>1. n \in Nat /\ n + 1 \in Nat /\ n + 1 \in 0 .. batch[s]
        BY <1>5
      <4>2. ok'[s] => Own(s)' = Taken(s, n + 1, n + 1)
        <5>1. Taken(s, n + 1, n) \cup {Ofm(s, n + 1)} = Taken(s, n + 1, n + 1)
          BY <4>1, OneMoreOfm
        <5> QED BY <1>6, <3>2, <5>1
      <4> QED BY <4>1, <4>2
    <3> QED BY <1>1, <1>8, <3>1, <3>2 DEF Handles
  <2>2. Releases(s)'
    BY <1>4, <1>8, NotReleasingNext
  <2>3. OneRequest(s)' /\ KindHere(s)' /\ Starts(s)' /\ Connects(s)' /\ Allocates(s)'
        /\ Loops(s)' /\ BeginsRelease(s)' /\ Ends(s)'
    BY <1>4, <1>8, <2>1 DEF Handles, Starts
  <2>4. NoMisuse(s)' /\ Carries(s)'
    BY <1>4, <1>8, <2>1 DEF Handles, NoMisuse, Carries, InOrder
  <2> QED BY <2>2, <2>3, <2>4 DEF Handles
<1>9. CASE pc[s] = "ofm"
  <2>1. PICK n \in 0 .. batch[s] - 1 : Subject(s) = Ifm(s, n + 1) /\ Own(s) = Taken(s, n, n)
    BY <1>1, <1>9 DEF Handles
  <2>2. ok'[s] => Own(s)' = Taken(s, n + 1, n)
    <3>1. n \in Nat
      BY <1>5
    <3>2. Taken(s, n, n) \cup {Ifm(s, n + 1)} = Taken(s, n + 1, n)
      BY ONLY <3>1, OneMoreIfm
    <3> QED BY <1>6, <2>1, <3>2
  <2>3. Releases(s)'
    BY <1>4, <1>9, NotReleasingNext
  <2>4. OneRequest(s)' /\ KindHere(s)' /\ Starts(s)' /\ Connects(s)' /\ Allocates(s)'
        /\ Loops(s)' /\ BeginsRelease(s)' /\ Ends(s)'
    BY <1>4, <1>9, <2>2 DEF Handles, Starts
  <2>5. NoMisuse(s)' /\ Carries(s)'
    BY <1>4, <1>9, <2>2 DEF Handles, NoMisuse, Carries, InOrder
  <2> QED BY <2>3, <2>4, <2>5 DEF Handles
<1>10. CASE pc[s] = "ofm?"
  <2>1. Subject(s) = Ofm(s, 1) /\ Own(s) = Taken(s, 1, 0)
    BY <1>1, <1>10 DEF Handles
  <2>2. Own(s)' = IF ok'[s] THEN Taken(s, 1, 1) ELSE Taken(s, 1, 0)
    <3>1. 0 \in Nat /\ 1 \in Nat /\ 0 + 1 = 1
      OBVIOUS
    <3>2. Taken(s, 1, 0) \cup {Ofm(s, 0 + 1)} = Taken(s, 1, 0 + 1)
      BY ONLY <3>1, OneMoreOfm
    <3> QED BY <1>6, <2>1, <3>1, <3>2
  <2>3. Releases(s)'
    BY <1>4, <1>10, NotReleasingNext
  <2>4. OneRequest(s)' /\ KindHere(s)' /\ Starts(s)' /\ Connects(s)' /\ Allocates(s)'
        /\ Loops(s)' /\ BeginsRelease(s)' /\ Ends(s)'
    BY <1>4, <1>10, <2>2 DEF Handles, Starts
  <2>5. NoMisuse(s)' /\ Carries(s)'
    BY <1>4, <1>10, <2>2 DEF Handles, NoMisuse, Carries, InOrder
  <2> QED BY <2>3, <2>4, <2>5 DEF Handles
<1> QED BY <1>3, <1>7, <1>8, <1>9, <1>10

LEMMA ServeUploadStep ==
  ASSUME Types, NEW s \in Sessions, Handles(s), Carries(s), ServeUpload(s)
  PROVE  Handles(s)' /\ Carries(s)'
<1> USE DEF OneRequest, KindHere, Connects, Allocates, Loops, BeginsRelease, Ends,
    Starting, Early, Looping, Ended, Asks, Subject, Buffered
<1>1. Asks(s, "upload")
  BY DEF ServeUpload, Asked, Handles
<1>2. pc[s] \notin {"release2", "release3", "release4"}
  BY <1>1, Unreleased
<1>3. pc[s] = "run" /\ Subject(s) = Ifm(s, 1) /\ kind[s] = "api" /\ batch[s] = 1
  BY <1>1, <1>2, PlacesAre DEF Handles, Types, TypesOf, Domains
<1>4. /\ releases[s] = 0 /\ Own(s) = Whole(s) /\ frame[s] \in Nat
      /\ missed[s] = {} => up[s] = <<frame[s]>> /\ down[s] = <<>>
  BY <1>1, <1>3 DEF Handles, Carries, InOrder, Types, TypesOf, Domains
<1>5. Subject(s) \in held
  <2>1. Ifm(s, 1) \in Whole(s)
    BY <1>3, InTaken DEF Whole
  <2> QED BY <1>3, <1>4, <2>1 DEF Own
<1>6. UNCHANGED <<kind, batch, pc, frame, down, got, releases, held, ofm, misuse>>
  BY <1>5 DEF ServeUpload, client
<1>7. /\ req'[s] = <<>> /\ Own(s)' = Own(s) /\ Whole(s)' = Whole(s)
      /\ \/ /\ missed'[s] = missed[s]
            /\ missed[s] = {} => up'[s] = <<>> /\ ifm'[s] = frame[s]
         \/ missed'[s] = missed[s] \cup {frame[s]}
  <2>1. req'[s] = <<>>
    BY Answers DEF ServeUpload, Handles, Asked
  <2>2. \/ /\ missed'[s] = missed[s]
           /\ up'[s] = Tail(up[s]) /\ ifm'[s] = Head(up[s])
        \/ missed'[s] = missed[s] \cup {frame[s]}
    BY DEF ServeUpload, Types, TypesOf, Domains
  <2>3. Tail(<<frame[s]>>) = <<>> /\ Head(<<frame[s]>>) = frame[s]
    OBVIOUS
  <2> QED BY <1>4, <1>6, <2>1, <2>2, <2>3, OwnSame, Fixed
<1>8. Releases(s)'
  BY <1>3, <1>6, NotReleasingNext
<1>9. OneRequest(s)' /\ KindHere(s)' /\ Starts(s)' /\ Connects(s)' /\ Allocates(s)'
      /\ Loops(s)' /\ BeginsRelease(s)' /\ Ends(s)'
  BY <1>3, <1>4, <1>6, <1>7 DEF Starts
<1>10. NoMisuse(s)' /\ Carries(s)'
  BY <1>3, <1>4, <1>6, <1>7 DEF Handles, NoMisuse, Carries, InOrder
<1> QED BY <1>8, <1>9, <1>10 DEF Handles

LEMMA ServeRunStep ==
  ASSUME Types, NEW s \in Sessions, Handles(s), Carries(s), ServeRun(s)
  PROVE  Handles(s)' /\ Carries(s)'
<1> USE DEF OneRequest, KindHere, Connects, Allocates, Loops, BeginsRelease, Ends,
    Starting, Early, Looping, Ended, Asks, Subject, Buffered
<1>1. Asks(s, "run")
  BY DEF ServeRun, Asked, Handles
<1>2. pc[s] \notin {"release2", "release3", "release4"}
  BY <1>1, Unreleased
<1>3. pc[s] \in {"ran", "release"}
  BY <1>1, <1>2, PlacesAre DEF Handles, Types, TypesOf, Domains
<1>4. Own(s) = Whole(s)
  BY <1>1, <1>3 DEF Handles
<1>5. Needed(s) \subseteq held
  <2>1. CASE kind[s] \in {"eval", "api"}
    <3>1. Needed(s) = Whole(s)
      BY <2>1 DEF Needed, Whole, Taken, Buffers
    <3> QED BY <1>4, <3>1 DEF Own
  <2>2. CASE kind[s] \notin {"eval", "api"}
    <3>1. Subject(s) \in Whole(s)
      <4>1. CASE pc[s] = "ran"
        <5>1. kind[s] = "pm" /\ Subject(s) = Model(s)
          BY <1>1, <2>2, <4>1 DEF Handles, Types, TypesOf, Domains, Kinds
        <5> QED BY <5>1 DEF Whole
      <4>2. CASE pc[s] = "release"
        BY <1>1, <2>2, <4>2 DEF Handles
      <4> QED BY <1>3, <4>1, <4>2
    <3> QED BY <1>4, <2>2, <3>1 DEF Needed, Own
  <2> QED BY <2>1, <2>2
<1>6. UNCHANGED <<kind, batch, pc, frame, up, down, got, missed, releases, held, ifm, misuse>>
  BY <1>5 DEF ServeRun, client, pair, done
<1>7. /\ req'[s] = <<>> /\ (ok'[s] => ofm'[s] = ifm[s])
      /\ Own(s)' = Own(s) /\ Whole(s)' = Whole(s) /\ Spare(s)' = Spare(s)
  <2>1. req'[s] = <<>>
    BY Answers DEF ServeRun, Handles, Asked
  <2>2. ok'[s] = FALSE \/ ofm'[s] = ifm[s]
    BY Answers DEF ServeRun, Handles, Asked, Types, TypesOf, Domains
  <2> QED BY <1>6, <2>1, <2>2, OwnSame, Fixed
<1>8. Spare(s) \subseteq Whole(s)
  BY ReturnedAndSpare
<1>9. Releases(s)'
  BY <1>3, <1>6, NotReleasingNext
<1>10. OneRequest(s)' /\ KindHere(s)' /\ Starts(s)' /\ Connects(s)' /\ Allocates(s)'
      /\ Loops(s)' /\ BeginsRelease(s)' /\ Ends(s)'
  BY <1>3, <1>4, <1>6, <1>7, <1>8 DEF Handles, Starts
<1>11. NoMisuse(s)' /\ Carries(s)'
  BY <1>3, <1>4, <1>6, <1>7, <1>8 DEF Handles, NoMisuse, Carries, InOrder
<1> QED BY <1>9, <1>10, <1>11 DEF Handles

LEMMA ServeDownloadStep ==
  ASSUME Types, NEW s \in Sessions, Handles(s), Carries(s), ServeDownload(s)
  PROVE  Handles(s)' /\ Carries(s)'
<1> USE DEF OneRequest, KindHere, Connects, Allocates, Loops, BeginsRelease, Ends,
    Starting, Early, Looping, Ended, Asks, Subject, Buffered
<1>1. Asks(s, "download")
  BY DEF ServeDownload, Asked, Handles
<1>2. pc[s] \notin {"release2", "release3", "release4"}
  BY <1>1, Unreleased
<1>3. pc[s] = "download" /\ kind[s] = "api"
  BY <1>1, <1>2, PlacesAre DEF Handles, Types, TypesOf, Domains
<1>4. /\ releases[s] = 0 /\ Own(s) = Whole(s)
      /\ missed[s] = {} => up[s] = <<>> /\ down[s] = <<>> /\ ofm[s] = frame[s]
  BY <1>1, <1>3 DEF Handles, Carries, InOrder
<1>5. UNCHANGED <<kind, batch, pc, frame, up, got, missed, releases, held, ifm, ofm, misuse>>
  BY DEF ServeDownload, client, done, board
<1>6. /\ req'[s] = <<>> /\ (missed[s] = {} => down'[s] \in {<<>>, <<frame[s]>>})
      /\ Own(s)' = Own(s) /\ Whole(s)' = Whole(s)
  <2>1. req'[s] = <<>>
    BY Answers DEF ServeDownload, Handles, Asked
  <2>2. down'[s] \in {down[s], Append(down[s], ofm[s])}
    BY DEF ServeDownload, Types, TypesOf, Domains
  <2>3. Append(<<>>, frame[s]) = <<frame[s]>>
    OBVIOUS
  <2> QED BY <1>4, <1>5, <2>1, <2>2, <2>3, OwnSame, Fixed
<1>7. Releases(s)'
  BY <1>3, <1>5, NotReleasingNext
<1>8. OneRequest(s)' /\ KindHere(s)' /\ Starts(s)' /\ Connects(s)' /\ Allocates(s)'
      /\ Loops(s)' /\ BeginsRelease(s)' /\ Ends(s)'
  BY <1>3, <1>4, <1>5, <1>6 DEF Starts
<1>9. NoMisuse(s)' /\ Carries(s)'
  BY <1>3, <1>4, <1>5, <1>6 DEF Handles, NoMisuse, Carries, InOrder
<1> QED BY <1>7, <1>8, <1>9 DEF Handles

LEMMA ServeFreeStep ==
  ASSUME Types, NEW s \in Sessions, Handles(s), Carries(s), ServeFree(s)
  PROVE  Handles(s)' /\ Carries(s)'
<1> USE DEF OneRequest, KindHere, Connects, Allocates, Loops, BeginsRelease, Ends,
    Starting, Early, Looping, Ended, Asks, Subject, Buffered
<1>1. Asks(s, "free") /\ Subject(s).of = s
  BY DEF ServeFree, Asked, Handles
<1>2. pc[s] \in {"raised", "release", "release2", "release3", "release4"}
  BY <1>1, PlacesAre DEF Handles, Types, TypesOf, Domains
<1>3. /\ req'[s] = <<>> /\ Own(s)' = Own(s) \ {Subject(s)}
      /\ UNCHANGED <<kind, batch, pc, frame, up, down, got, missed, releases, ifm, ofm>>
  <2>1. req'[s] = <<>> /\ held' = held \ {Subject(s)}
    BY Answers DEF ServeFree, Handles, Asked
  <2> QED BY <1>1, <2>1, OwnShrinks DEF ServeFree, client, pair, done
<1>4. releases[s] \in Nat /\ releases[s] > 0 /\ (releases[s] = 1 => Subject(s) \in Own(s))
  <2>1. CASE pc[s] = "raised"
    <3>1. Subject(s) = Ifm(s, 1) /\ releases[s] = 1 /\ Own(s) = Taken(s, 1, 0)
      BY <1>1, <2>1 DEF Handles
    <3>2. 1 \in 1 .. 1
      OBVIOUS
    <3> QED BY <3>1, <3>2, InTaken
  <2>2. CASE pc[s] = "release"
    BY <1>1, <2>2 DEF Handles, Types, TypesOf, Domains
  <2>3. ASSUME NEW k \in 1 .. 3, pc[s] = Step[k + 1]
        PROVE  releases[s] \in Nat /\ releases[s] > 0 /\ (releases[s] = 1 => Subject(s) \in Own(s))
    BY <1>1, <2>3 DEF Handles, Releases, Types, TypesOf, Domains
  <2>4. Step[1 + 1] = "release2" /\ Step[2 + 1] = "release3" /\ Step[3 + 1] = "release4"
    BY StepNames
  <2> QED BY <1>2, <2>1, <2>2, <2>3, <2>4
<1>5. NoMisuse(s)'
  <2>1. misuse' = IF Subject(s) \in held THEN misuse ELSE misuse \cup {<<s, "free">>}
    BY DEF ServeFree
  <2>2. Subject(s) \in Own(s) => Subject(s) \in held
    BY DEF Own
  <2>3. <<s, "run">> # <<s, "free">>
    OBVIOUS
  <2> QED BY <1>3, <1>4, <2>1, <2>2, <2>3 DEF Handles, NoMisuse
<1>6. Carries(s)'
  BY <1>2, <1>3 DEF Carries, InOrder
<1>7. OneRequest(s)' /\ KindHere(s)' /\ Starts(s)' /\ Connects(s)' /\ Allocates(s)' /\ Ends(s)'
  BY <1>2, <1>3 DEF Handles, Starts
<1>8. Loops(s)'
  <2>1. pc[s] = "raised" => releases[s] = 1 /\ Own(s)' = Taken(s, 0, 0)
    BY <1>1, <1>3, FirstIfmFreed DEF Handles
  <2> QED BY <1>2, <1>3, <2>1
<1>9. Whole(s)' = Whole(s) /\ Spare(s)' = Spare(s) /\ Returned(s)' = Returned(s)
  BY <1>3, Fixed
<1>10. BeginsRelease(s)'
  <2> SUFFICES ASSUME pc[s] = "release" PROVE BeginsRelease(s)'
    BY <1>3
  <2>1. PICK i \in 1 .. Len(Returned(s)) : Subject(s) = Returned(s)[i]
    BY <1>1 DEF Handles
  <2>2. Subject(s) \notin Spare(s)
    BY <2>1, ReturnedAndSpare
  <2>3. Spare(s) \subseteq Own(s) /\ Own(s) \subseteq Whole(s)
    BY DEF Handles
  <2> QED BY <1>3, <1>4, <1>9, <2>2, <2>3
<1>11. Releases(s)'
  <2> SUFFICES ASSUME NEW k \in 1 .. 3, pc[s] = Step[k + 1]
               PROVE  /\ k <= Len(Returned(s)) /\ releases[s] > 0
                      /\ Spare(s) \subseteq Own(s)' /\ Own(s)' \subseteq Whole(s)
                      /\ \A j \in 1 .. k - 1 : Returned(s)[j] \notin Own(s)'
                      /\ req'[s] = <<>> /\ Returned(s)[k] \notin Own(s)'
                      /\ releases[s] = 1 =>
                           \A j \in k + 1 .. Len(Returned(s)) : Returned(s)[j] \in Own(s)'
    BY <1>3, <1>9 DEF Releases
  <2>1. /\ k <= Len(Returned(s)) /\ Subject(s) = Returned(s)[k]
        /\ Spare(s) \subseteq Own(s) /\ Own(s) \subseteq Whole(s)
        /\ \A j \in 1 .. k - 1 : Returned(s)[j] \notin Own(s)
        /\ releases[s] = 1 => \A j \in k + 1 .. Len(Returned(s)) : Returned(s)[j] \in Own(s)
    BY <1>1 DEF Handles, Releases
  <2>2. Len(Returned(s)) \in 1 .. 3 /\ k \in 1 .. Len(Returned(s)) /\ Returned(s)[k] \notin Spare(s)
    BY <2>1, ReturnedAndSpare
  <2>3. \A j \in k + 1 .. Len(Returned(s)) : Returned(s)[j] # Returned(s)[k]
    <3>1. \A j \in k + 1 .. Len(Returned(s)) : j \in 1 .. Len(Returned(s)) /\ j # k
      BY <2>2
    <3> QED BY <2>2, <3>1, ReturnedAndSpare
  <2> QED BY <1>3, <1>4, <2>1, <2>2, <2>3
<1> QED BY <1>5, <1>6, <1>7, <1>8, <1>10, <1>11 DEF Handles

-----------------------------------------------------------------------------
(* The invariant holds, and what it says of the board and of the results.   *)

LEMMA InvStep == Inv /\ [Next]_vars => Inv'
<1> SUFFICES ASSUME Inv, [Next]_vars PROVE Inv'
  OBVIOUS
<1>1. Types'
  BY TypesStep DEF Inv, HandlesInv
<1>2. ASSUME NEW s \in Sessions, Program(s) \/ Service(s) \/ Signal(s) \/ Dies(s), NEW t \in Sessions
      PROVE  Handles(t)' /\ Carries(t)'
  <2>1. Types /\ Handles(s) /\ Carries(s) /\ Handles(t) /\ Carries(t) /\ OneRequest(s)
    BY DEF Inv, Handles
  <2>2. CASE t # s
    <3>1. Same(t)
      BY <1>2, <2>1, <2>2, ProgramOfOther, ServiceOfOther
    <3> QED BY <2>1, <3>1, SameKeeps
  <2>3. CASE t = s
    <3>1. CASE Service(s)
      BY <2>1, <2>3, <3>1, ServeConnectStep, ServeAllocStep, ServeUploadStep, ServeRunStep,
         ServeDownloadStep, ServeFreeStep DEF Service
    <3>2. CASE Program(s) \/ Signal(s) \/ Dies(s)
      BY <2>1, <2>3, <3>2, ProgramStep
    <3> QED BY <1>2, <3>1, <3>2
  <2> QED BY <2>2, <2>3
<1>3. ASSUME UNCHANGED vars, NEW t \in Sessions PROVE Handles(t)' /\ Carries(t)'
  <2>1. Same(t)
    BY <1>3, OwnSame DEF Same, vars
  <2>2. Handles(t) /\ Carries(t)
    BY DEF Inv
  <2> QED BY <2>1, <2>2, SameKeeps
<1> QED BY <1>1, <1>2, <1>3 DEF Inv, Next

LEMMA InitHolds == Init => Inv
<1> SUFFICES ASSUME Init PROVE Inv
  OBVIOUS
<1>1. Types
  BY PlacesAre, DevkitConstants DEF Init, Types, TypesOf, Domains, Kinds
<1>2. ASSUME NEW s \in Sessions PROVE Handles(s) /\ Carries(s)
  <2>1. pc[s] = "off" /\ req[s] = <<>> /\ Own(s) = {} /\ frame[s] = 1 /\ releases[s] = 0
        /\ up[s] = <<>> /\ down[s] = <<>> /\ got[s] = {} /\ missed[s] = {} /\ misuse = {}
    BY DEF Init, Own
  <2>2. Releases(s)
    BY <2>1, NotReleasing
  <2>3. OneRequest(s) /\ KindHere(s) /\ Starts(s) /\ Connects(s) /\ Allocates(s)
        /\ Loops(s) /\ BeginsRelease(s) /\ Ends(s)
    BY <2>1 DEF OneRequest, KindHere, Starts, Connects, Allocates, Loops, BeginsRelease, Ends,
       Starting, Early, Looping, Ended
  <2>4. NoMisuse(s) /\ Carries(s)
    BY <2>1 DEF NoMisuse, Carries, InOrder
  <2> QED BY <2>2, <2>3, <2>4 DEF Handles
<1> QED BY <1>1, <1>2 DEF Inv

LEMMA InvHolds == Spec => []Inv
BY InitHolds, InvStep, PTL DEF Spec

(* Whatever fails, whenever a signal comes and however many programs share  *)
(* a board: it never runs or fills a model without its buffers, and is      *)
(* asked to free a handle twice only by a program that began to release     *)
(* twice.                                                                   *)
THEOREM BoardIsNotMisused == Spec => []NoUseAfterFree
<1>1. Inv => NoUseAfterFree
  BY DEF Inv, Handles, NoMisuse, NoUseAfterFree
<1> QED BY <1>1, InvHolds, PTL

(* A program that ended by itself or by a signal leaves on the board exactly *)
(* the buffers of its batch from the second on.                              *)
THEOREM SpareBuffersAreLeft == Spec => []LeftBehind
<1>1. Inv => LeftBehind
  BY DEF Inv, Handles, Ends, LeftBehind, Own, Spare
<1> QED BY <1>1, InvHolds, PTL

(* The result a script gets was computed from the frame it asked about, for *)
(* every number of frames, whatever else failed and however often the       *)
(* script went on after an exception, as long as the upload of no frame up  *)
(* to that one was refused.                                                 *)
THEOREM ResultsAreOwn == Spec => []ResultIsOwn
<1>1. Inv => ResultIsOwn
  BY DEF Inv, Carries, ResultIsOwn
<1> QED BY <1>1, InvHolds, PTL
=============================================================================
