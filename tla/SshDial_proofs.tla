--------------------------- MODULE SshDial_proofs ---------------------------
(***************************************************************************)
(* Proofs about SshDial: nothing is offered or asked for on a connection   *)
(* whose server key known_hosts does not hold; over its rounds a dial      *)
(* offers every key it collected, once; and a dial that waits for an       *)
(* answer can be moved on.                                                 *)
(***************************************************************************)
EXTENDS SshDial, SequenceTheorems, TLAPS

-----------------------------------------------------------------------------
(* Types *)

Passwords == {"right", "wrong", "none"}
Errs == {"none", "authfailed", "toomany", "unreachable", "canceled", "changed", "rejected", "unwritable",
         "unreadable", "passphrase", "ok", "refused"}
Active == {"tcp", "hostkey", "next", "collect", "offer", "password", "wait", "up"}
Passphrases == {<<"passphrase", s, k>> : s \in {"agent", "file", "vault"}, k \in Keys}
About == {<<"hostkey">>, <<"ki">>, <<"password">>} \union Passphrases

Dialer ==
  [pc : Active \union {"idle", "done", "gone"}, kind : {"none", "session", "forward"},
   spec : [keys : Seq(Source), bound : BOOLEAN, agent : BOOLEAN, password : Passwords],
   ctx : BOOLEAN, round : 0..MaxRounds, db : BOOLEAN, tries : Nat,
   tried : SUBSET {"publickey", "password", "ki"}, merr : Errs, todo : Seq(Source), signers : Seq(Keys),
   built : BOOLEAN, err : Errs, offset : Nat, batch : Seq(Keys), attempt : Nat,
   about : About \union {<<>>}, reply : {"none", "yes", "no", "right", "wrong", "cancel"},
   asked : Seq(About), offers : Seq(Keys), won : Passwords, refused : BOOLEAN]

Prompt == [type : {"prompt"}, dial : Dials, about : About, n : Nat]
Done == [type : {"done"}, dial : Dials, kind : {"session", "forward"}, err : Errs]
Ui == [modal : {"none", "connecting", "hostkey", "secret", "error", "hint", "import"},
       hostKey : Prompt \union {NoPrompt}, secret : Prompt \union {NoPrompt}, remember : BOOLEAN,
       pendingPW : Passwords, dialing : Dials \union {NoDial}, cancel : Dials \union {NoDial},
       hintSeen : BOOLEAN, attached : BOOLEAN]

TypeOK ==
  /\ host \in Setups /\ known \in BOOLEAN /\ stored \in Passwords /\ imported \in BOOLEAN
  /\ eng \in [Dials -> Dialer] /\ inbox \subseteq Prompt \union Done /\ ui \in Ui

-----------------------------------------------------------------------------
(* One dial *)

\* The connection is used, or was.
Trusting(e) ==
  \/ e.offers # <<>> \/ e.pc \in {"next", "collect", "offer", "password", "up"}
  \/ \E i \in 1..Len(e.asked) : e.asked[i] # <<"hostkey">>

\* Used only with a key that known_hosts holds (k), and never with a changed one.
Trusted(e, k) ==
  /\ Trusting(e) => k /\ host.server.key # "changed"
  /\ e.pc = "wait" => /\ host.server.key # "changed" /\ e.about \in About
                      /\ e.about # <<"hostkey">> => k
  /\ e.asked # <<>> => host.server.key # "changed"
  /\ e.db => k

\* The dial may offer keys; the ring has moved once per round that got to them.
Keyed == host.mode = "key" /\ "publickey" \in host.server.allows
Moved(e) == IF "publickey" \in e.tried THEN e.round ELSE e.round - 1

\* What the ring of a dial is worth while no source failed.
Collected(e) ==
  /\ e.built => /\ e.offers \o e.batch = SubSeq(e.signers, 1, e.offset) /\ Keyed
                /\ e.offset = Len(e.signers) \/ e.offset = Moved(e) * BatchSize
  /\ ~e.built => /\ e.offers = <<>> /\ e.batch = <<>> /\ e.offset = 0
                 /\ e.round <= 1 \/ (e.pc = "done" /\ e.signers = <<>>)
  /\ e.offset <= Len(e.signers)
  /\ e.pc \notin {"offer", "up", "done"} => e.batch = <<>>
Collecting(e) ==
  /\ ~e.built /\ e.signers # <<>> => e.pc = "collect" \/ (e.pc = "wait" /\ e.about \in Passphrases)
  /\ e.pc = "collect" \/ (e.pc = "wait" /\ e.about \in Passphrases) =>
       Keyed /\ "publickey" \in e.tried /\ ~e.built /\ e.tries <= 1
  /\ Keyed /\ "publickey" \notin e.tried => e.tries <= 1
Offering(e) ==
  /\ e.pc \in Active => e.round >= 1
  /\ e.pc = "offer" => e.built /\ "publickey" \in e.tried /\ e.tries + Len(e.batch) <= BatchSize + 1
  /\ e.pc = "password" \/ (e.pc = "wait" /\ e.about = <<"password">>) => host.mode = "password"
  /\ e.pc = "wait" /\ e.about = <<"ki">> /\ Keyed => "publickey" \in e.tried
  /\ e.pc = "done" /\ e.merr \in HasMoreWorthy => Exhausted(e)
Ringing(e) == e.err = Nothing => Collected(e) /\ Collecting(e) /\ Offering(e)

\* The server lets a batch through, as one with OpenSSH's limit does.
Patient == host.server.limit > BatchSize

Good(e, k) == /\ e \in Dialer /\ (e.pc \in Active => e.kind # Nothing)
              /\ e.pc = "wait" /\ e.about \in Passphrases => e.todo # <<>>
              /\ Trusted(e, k) /\ (Patient => Ringing(e))

-----------------------------------------------------------------------------
(* The event loop *)

\* Until an import reports, one dial at a time is under way and the UI has it on
\* record, under an overlay that can move it; and there is at most one result to take.
Recorded ==
  /\ ui.cancel = ui.dialing
  /\ ui.dialing # NoDial => ui.modal \in {"connecting", "hostkey", "secret"}
  /\ \A d \in Dials : eng[d].pc \in Active => ui.dialing = d
  /\ \A m \in inbox : m.type = "done" => m.dial = ui.dialing /\ eng[m.dial].pc \in {"done", "gone"}
  /\ \A m, n \in inbox : m.type = "done" /\ n.type = "done" => m = n

IInv == TypeOK /\ (\A d \in Dials : Good(eng[d], known)) /\ (~imported => Recorded)

-----------------------------------------------------------------------------
(* What a step makes of a dial *)

\* A record of a dial that took a step.
Same(x, d) == x.kind = eng[d].kind /\ x.ctx = eng[d].ctx

Becomes(d, k) ==
  \E x : /\ Good(x, k) /\ Same(x, d) /\ eng' = [eng EXCEPT ![d] = x]
         /\ \/ x.pc \in Active /\ inbox' = inbox
            \/ x.pc \in Active /\ \E p \in Prompt : inbox' = inbox \union {p}
            \/ x.pc = "done" /\ \E m \in Done : m.dial = d /\ inbox' = inbox \union {m}

LEMMA SetupIs == TypeOK => host \in Setup
BY DialAssumption DEF TypeOK

LEMMA AboutIs ==
  /\ \A a \in About : /\ a[1] = "hostkey" <=> a = <<"hostkey">>
                      /\ a[1] = "passphrase" <=> a \in Passphrases
                      /\ a[1] = "password" <=> a = <<"password">>
                      /\ a[1] = "ki" <=> a = <<"ki">>
  /\ <<"hostkey">> # <<"ki">> /\ <<"hostkey">> # <<"password">> /\ <<"ki">> # <<"password">>
  /\ <<"hostkey">> \notin Passphrases /\ <<"password">> \notin Passphrases /\ <<"ki">> \notin Passphrases
  /\ <<"hostkey">> \in About /\ <<"password">> \in About /\ <<"ki">> \in About
BY DEF About, Passphrases

LEMMA Rounds == \A r, b \in Nat : r * b \in Nat /\ (r + 1) * b = r * b + b
OBVIOUS

LEMMA StepIs ==
  ASSUME NEW d \in Dials, NEW x, NEW k, Good(x, k), Same(x, d), x.pc \in Active, Step(d, x)
  PROVE  Becomes(d, k)
BY DEF Step, Becomes

LEMMA FinishIs ==
  ASSUME NEW d \in Dials, NEW e, NEW k, Good(e, k), Same(e, d), e.pc \in Active, NEW err \in Errs,
         Patient /\ e.err = Nothing /\ ~e.built => e.signers = <<>>,
         Patient /\ e.err = Nothing /\ err \in HasMoreWorthy => Exhausted(e),
         Finish(d, e, err)
  PROVE  Becomes(d, k)
<1>1. PICK x : x = [e EXCEPT !.pc = "done", !.merr = err]
  OBVIOUS
<1>2. x \in Dialer
  BY <1>1 DEF Good, Dialer
<1>3. /\ x.pc = "done" /\ x.merr = err /\ x.kind = e.kind /\ x.ctx = e.ctx /\ x.offers = e.offers
      /\ x.asked = e.asked /\ x.db = e.db /\ x.err = e.err /\ x.built = e.built /\ x.batch = e.batch
      /\ x.signers = e.signers /\ x.offset = e.offset /\ x.round = e.round /\ x.tried = e.tried
      /\ x.tries = e.tries
  BY <1>1 DEF Good, Dialer
<1>4. Trusted(x, k)
  BY <1>3 DEF Good, Trusted, Trusting, Active
<1>5. ASSUME Patient PROVE Ringing(x)
  <2> SUFFICES ASSUME x.err = Nothing PROVE Collected(x) /\ Collecting(x) /\ Offering(x)
    BY DEF Ringing
  <2>1. Collected(e) /\ Collecting(e) /\ Offering(e) /\ (~e.built => e.signers = <<>>)
    BY <1>3, <1>5 DEF Good, Ringing
  <2>2. Collected(x)
    BY <1>3, <2>1 DEF Collected, Moved
  <2>3. Collecting(x)
    BY <1>3, <2>1 DEF Collecting
  <2>4. Offering(x)
    BY <1>3, <1>5 DEF Offering, Exhausted, Active
  <2> QED BY <2>2, <2>3, <2>4
<1>6. Report(d, e.kind, err) \in Done /\ Report(d, e.kind, err).dial = d
  BY DEF Report, Done, Good, Dialer, Nothing
<1>7. eng' = [eng EXCEPT ![d] = x] /\ inbox' = inbox \union {Report(d, e.kind, err)}
  BY <1>1 DEF Finish
<1> QED BY <1>2, <1>3, <1>4, <1>5, <1>6, <1>7 DEF Becomes, Good, Same

\* A failure redials while keys remain; then the ring stands where the new round expects it.
LEMMA FailIs ==
  ASSUME TypeOK, NEW d \in Dials, NEW e, NEW k, Good(e, k), Same(e, d), e.pc \in Active, NEW err \in Errs,
         Patient /\ e.err = Nothing /\ ~e.built => e.signers = <<>>,
         Patient /\ e.err = Nothing /\ err \in HasMoreWorthy =>
           e.batch = <<>> /\ (Keyed => "publickey" \in e.tried),
         Fail(d, e, err)
  PROVE  Becomes(d, k)
<1> e \in Dialer /\ e.offset \in Nat /\ e.round \in 0..MaxRounds /\ e.signers \in Seq(Keys) /\ e.offers \in Seq(Keys)
    /\ MaxRounds \in Nat /\ BatchSize \in Nat /\ MaxRounds * BatchSize \in Nat
  BY DialAssumption, Rounds DEF Good, Dialer
<1>1. CASE Redials(e, err)
  <2>1. PICK x : x = NewRound(e)
    OBVIOUS
  <2>2. /\ x.pc = "tcp" /\ x.round = e.round + 1 /\ x.tried = {} /\ x.tries = 1 /\ x.merr = Nothing
        /\ x.attempt = 0 /\ x.batch = <<>> /\ x.kind = e.kind /\ x.ctx = e.ctx /\ x.offers = e.offers
        /\ x.asked = e.asked /\ x.db = e.db /\ x.err = e.err /\ x.built = e.built
        /\ x.signers = e.signers /\ x.offset = e.offset /\ x.about = e.about
    BY <2>1 DEF NewRound, Dialer
  <2>3. x \in Dialer
    <3>1. e.round + 1 \in 0..MaxRounds
      BY <1>1 DEF Redials
    <3>2. <<>> \in Seq(Keys) /\ "tcp" \in Active /\ Nothing \in Errs
      BY DEF Active, Errs, Nothing
    <3> QED BY <2>1, <3>1, <3>2 DEF NewRound, Dialer
  <2>4. Trusted(x, k)
    BY <2>2 DEF Good, Trusted, Trusting
  <2>5. ASSUME Patient PROVE Ringing(x)
    <3> SUFFICES ASSUME x.err = Nothing PROVE Collected(x) /\ Collecting(x) /\ Offering(x)
      BY DEF Ringing
    <3>1. Collected(e) /\ Collecting(e) /\ Offering(e)
      BY <2>2, <2>5 DEF Good, Ringing
    <3>2. e.built
      BY <2>2, <2>5, <1>1, <3>1 DEF Redials, HasMore, Collected
    <3>3. e.batch = <<>> /\ "publickey" \in e.tried
      BY <2>2, <2>5, <1>1, <3>1, <3>2 DEF Redials, Collected
    <3>4. Moved(e) = e.round /\ Moved(x) = e.round
      BY <2>2, <3>3 DEF Moved
    <3>5. Collected(x)
      BY <2>2, <3>1, <3>2, <3>3, <3>4 DEF Collected
    <3>6. Collecting(x)
      BY <2>2, <3>2 DEF Collecting
    <3>7. Offering(x)
      BY <2>2 DEF Offering, HasMoreWorthy, Nothing, Active
    <3> QED BY <3>5, <3>6, <3>7
  <2>6. Good(x, k) /\ Same(x, d) /\ Step(d, x)
    BY <1>1, <2>1, <2>2, <2>3, <2>4, <2>5 DEF Good, Same, Fail, Step, Active
  <2> QED BY <2>2, <2>6, StepIs DEF Active
<1>2. CASE ~Redials(e, err)
  <2>1. ASSUME Patient, e.err = Nothing, err \in HasMoreWorthy PROVE Exhausted(e)
    <3>1. Collected(e)
      BY <2>1 DEF Good, Ringing
    <3>2. e.batch = <<>> /\ (Keyed => "publickey" \in e.tried)
      BY <2>1
    <3>3. CASE ~e.built
      BY <3>1, <3>3, <2>1 DEF Collected, Exhausted
    <3>4. CASE e.built
      <4>1. e.offers = SubSeq(e.signers, 1, e.offset) /\ Keyed
        BY <3>1, <3>2, <3>4, ConcatEmptySeq DEF Collected
      <4>2. Len(e.offers) = e.offset
        BY <4>1, <3>1 DEF Collected
      <4>3. CASE ~HasMore(e)
        BY <4>2, <4>3, <3>1 DEF HasMore, Collected, Exhausted
      <4>4. CASE HasMore(e)
        <5>1. e.round = MaxRounds
          BY <1>2, <4>4, <2>1 DEF Redials
        <5>2. e.offset = Moved(e) * BatchSize
          BY <4>4, <3>1, <3>4 DEF HasMore, Collected
        <5>3. Moved(e) = MaxRounds
          BY <5>1, <3>2, <4>1 DEF Moved
        <5> QED BY <5>2, <5>3, <4>2 DEF Exhausted
      <4> QED BY <4>3, <4>4
    <3> QED BY <3>3, <3>4
  <2>2. Finish(d, e, err)
    BY <1>2 DEF Fail
  <2> QED BY <2>1, <2>2, FinishIs
<1> QED BY <1>1, <1>2

LEMMA AskIs ==
  ASSUME NEW d \in Dials, NEW e, NEW k, Good(e, k), Same(e, d), e.pc \in Active, NEW about \in About,
         host.server.key # "changed", about # <<"hostkey">> => k,
         e.pc \notin {"offer", "up"},
         about \in Passphrases => e.pc = "collect" /\ e.todo # <<>>,
         about \notin Passphrases /\ Patient /\ e.err = Nothing /\ ~e.built => e.signers = <<>>,
         Patient /\ e.err = Nothing /\ about = <<"password">> => host.mode = "password",
         Patient /\ e.err = Nothing /\ about = <<"ki">> /\ Keyed => "publickey" \in e.tried,
         Ask(d, e, about)
  PROVE  Becomes(d, k)
<1>1. PICK x : x = [e EXCEPT !.pc = "wait", !.about = about, !.reply = Nothing, !.asked = Append(@, about)]
  OBVIOUS
<1> e \in Dialer /\ e.asked \in Seq(About)
  BY DEF Good, Dialer
<1>2. x \in Dialer
  <2>1. Append(e.asked, about) \in Seq(About) /\ "wait" \in Active /\ Nothing = "none"
    BY DEF Active, Nothing
  <2> QED BY <1>1, <2>1 DEF Dialer
<1>3. /\ x.pc = "wait" /\ x.about = about /\ x.asked = Append(e.asked, about) /\ x.merr = e.merr
      /\ x.kind = e.kind /\ x.ctx = e.ctx /\ x.offers = e.offers /\ x.db = e.db /\ x.err = e.err
      /\ x.built = e.built /\ x.batch = e.batch /\ x.signers = e.signers /\ x.offset = e.offset
      /\ x.round = e.round /\ x.tried = e.tried /\ x.tries = e.tries /\ x.todo = e.todo
  BY <1>1 DEF Dialer
<1>4. Trusted(x, k)
  <2>1. ASSUME NEW i \in 1..Len(x.asked), x.asked[i] # <<"hostkey">> PROVE k
    BY <1>3, <2>1 DEF Good, Trusted, Trusting
  <2> QED BY <1>3, <2>1 DEF Good, Trusted, Trusting
<1>5. ASSUME Patient PROVE Ringing(x)
  <2> SUFFICES ASSUME x.err = Nothing PROVE Collected(x) /\ Collecting(x) /\ Offering(x)
    BY DEF Ringing
  <2>1. Collected(e) /\ Collecting(e) /\ Offering(e)
    BY <1>3, <1>5 DEF Good, Ringing
  <2>2. Collected(x)
    BY <1>3, <2>1 DEF Collected, Moved, Active
  <2>3. Collecting(x)
    BY <1>3, <1>5, <2>1 DEF Collecting
  <2>4. Offering(x)
    BY <1>3, <1>5, <2>1 DEF Offering, Active
  <2> QED BY <2>2, <2>3, <2>4
<1>6. PICK p : p = [type |-> "prompt", dial |-> d, about |-> about, n |-> Len(e.asked) + 1]
  OBVIOUS
<1>7. p \in Prompt
  BY <1>6 DEF Prompt
<1>8. eng' = [eng EXCEPT ![d] = x] /\ inbox' = inbox \union {p}
  BY <1>1, <1>6 DEF Ask
<1>9. Good(x, k) /\ Same(x, d) /\ x.pc \in Active
  BY <1>2, <1>3, <1>4, <1>5 DEF Good, Same, Active
<1> QED BY <1>7, <1>8, <1>9 DEF Becomes

-----------------------------------------------------------------------------
(* The ring and the methods *)

\* The head of the batch moves to the end of the offers.
LEMMA Shift ==
  ASSUME NEW s \in Seq(Keys), NEW t \in Seq(Keys), t # <<>>
  PROVE  /\ Append(s, Head(t)) \o Tail(t) = s \o t /\ Append(s, Head(t)) \in Seq(Keys)
         /\ Tail(t) \in Seq(Keys) /\ Len(Tail(t)) = Len(t) - 1 /\ Head(t) \in Keys
<1> PICK S : S = Keys
  OBVIOUS
<1>1. Head(t) \in S /\ Tail(t) \in Seq(S) /\ Len(Tail(t)) = Len(t) - 1
      /\ \A i \in 1..Len(Tail(t)) : Tail(t)[i] = t[i + 1]
  BY HeadTailProperties
<1>2. t = <<Head(t)>> \o Tail(t)
  <2>1. PICK u : u = <<Head(t)>> \o Tail(t)
    OBVIOUS
  <2>2. <<Head(t)>> \in Seq(S) /\ Len(<<Head(t)>>) = 1 /\ <<Head(t)>>[1] = Head(t)
    BY <1>1
  <2>3. u \in Seq(S) /\ Len(u) = Len(t) /\ \A i \in 1..Len(t) : u[i] = t[i]
    BY <1>1, <2>1, <2>2, ConcatProperties
  <2> QED BY <2>1, <2>3
<1>3. Append(s, Head(t)) = s \o <<Head(t)>>
  BY <1>1, AppendIsConcat
<1>4. (s \o <<Head(t)>>) \o Tail(t) = s \o (<<Head(t)>> \o Tail(t))
  BY <1>1, ConcatAssociative
<1> QED BY <1>1, <1>2, <1>3, <1>4

\* The next batch of a sequence of which the first `off' are gone.
LEMMA Batch ==
  ASSUME NEW q \in Seq(Keys), NEW off \in Nat, NEW end \in Nat, end <= Len(q), off <= end
  PROVE  /\ Len(SubSeq(q, off + 1, end)) = end - off
         /\ SubSeq(q, 1, off) \o SubSeq(q, off + 1, end) = SubSeq(q, 1, end)
<1>1. \A i \in off + 1 .. end : q[i] \in Keys
  OBVIOUS
<1>2. Len(SubSeq(q, off + 1, end)) = IF off + 1 <= end THEN end - (off + 1) + 1 ELSE 0
  BY <1>1, SubSeqProperties
<1>3. 1 \in 1 .. Len(q) + 1 /\ off \in 1 - 1 .. Len(q) /\ end \in off .. Len(q)
  OBVIOUS
<1>4. SubSeq(q, 1, off) \o SubSeq(q, off + 1, end) = SubSeq(q, 1, end)
  BY <1>3, ConcatAdjacentSubSeq
<1> QED BY <1>2, <1>4

LEMMA RingTyped ==
  ASSUME NEW e \in Dialer, NEW b \in Seq(Keys), NEW n \in Nat
  PROVE  [e EXCEPT !.batch = b, !.offset = n] \in Dialer
BY DEF Dialer

\* keyRing.next goes on exactly where the offers stopped.
LEMMA RingIs ==
  ASSUME NEW e, e \in Dialer, NEW r, r = RingNext(e)
  PROVE  /\ r \in Dialer
         /\ (e.offers = SubSeq(e.signers, 1, e.offset) /\ e.offset <= Len(e.signers)) =>
               /\ r.offers \o r.batch = SubSeq(r.signers, 1, r.offset) /\ r.offset <= Len(r.signers)
               /\ Len(r.batch) <= BatchSize
         /\ (e.offset = Len(e.signers) \/ e.offset = (e.round - 1) * BatchSize) /\ e.round >= 1 =>
               (r.offset = Len(r.signers) \/ r.offset = r.round * BatchSize)
<1>1. /\ e.offset \in Nat /\ e.round \in Nat /\ e.signers \in Seq(Keys) /\ Len(e.signers) \in Nat
      /\ BatchSize \in Nat \ {0} /\ MaxRounds \in Nat
  BY DialAssumption DEF Dialer
<1>2. PICK end : end = IF e.offset + BatchSize < Len(e.signers) THEN e.offset + BatchSize ELSE Len(e.signers)
  OBVIOUS
<1>3. end \in Nat /\ end <= Len(e.signers) /\ end <= e.offset + BatchSize /\ (e.offset <= Len(e.signers) => e.offset <= end)
  BY <1>1, <1>2
<1>4. r = [e EXCEPT !.batch = SubSeq(e.signers, e.offset + 1, end), !.offset = end]
  BY <1>2 DEF RingNext
<1>5. /\ r.batch = SubSeq(e.signers, e.offset + 1, end) /\ r.offset = end /\ r.signers = e.signers
      /\ r.round = e.round /\ r.offers = e.offers
  BY <1>4 DEF Dialer
<1>6. r \in Dialer
  <2>1. SubSeq(e.signers, e.offset + 1, end) \in Seq(Keys)
    BY <1>1, <1>3
  <2>2. PICK b \in Seq(Keys) : b = SubSeq(e.signers, e.offset + 1, end)
    BY <2>1
  <2>3. r = [e EXCEPT !.batch = b, !.offset = end]
    BY <1>4, <2>2
  <2> QED BY <1>3, <2>3, RingTyped
<1>7. ASSUME e.offers = SubSeq(e.signers, 1, e.offset), e.offset <= Len(e.signers)
      PROVE  /\ r.offers \o r.batch = SubSeq(r.signers, 1, r.offset) /\ r.offset <= Len(r.signers)
             /\ Len(r.batch) <= BatchSize
  <2>1. /\ Len(SubSeq(e.signers, e.offset + 1, end)) = end - e.offset
        /\ SubSeq(e.signers, 1, e.offset) \o SubSeq(e.signers, e.offset + 1, end) = SubSeq(e.signers, 1, end)
    BY <1>1, <1>3, <1>7, Batch
  <2>2. r.offers \o r.batch = SubSeq(r.signers, 1, r.offset)
    BY <1>5, <1>7, <2>1
  <2>3. Len(r.batch) <= BatchSize
    BY <1>1, <1>3, <1>5, <2>1
  <2> QED BY <1>3, <1>5, <2>2, <2>3
<1>8. ASSUME e.offset = Len(e.signers) \/ e.offset = (e.round - 1) * BatchSize, e.round >= 1
      PROVE  r.offset = Len(r.signers) \/ r.offset = r.round * BatchSize
  <2>1. ((e.round - 1) + 1) * BatchSize = (e.round - 1) * BatchSize + BatchSize
    BY <1>1, <1>8, Rounds
  <2>2. e.offset = (e.round - 1) * BatchSize => e.offset + BatchSize = e.round * BatchSize
    BY <1>1, <2>1
  <2> QED BY <1>1, <1>2, <1>5, <1>8, <2>2
<1> QED BY <1>6, <1>7, <1>8

LEMMA UpcomingIs ==
  ASSUME TypeOK, NEW e, e \in Dialer
  PROVE  /\ Untried(e) # {} =>
               /\ Upcoming(e) \in {"publickey", "password", "ki"} /\ Upcoming(e) \notin e.tried
               /\ Upcoming(e) = "publickey" => Keyed
               /\ Upcoming(e) = "password" => host.mode = "password"
               /\ Upcoming(e) = "ki" /\ Keyed => "publickey" \in e.tried
         /\ Untried(e) = {} /\ Keyed => "publickey" \in e.tried
<1> PICK m : m = Methods
  OBVIOUS
<1>1. /\ m = IF host.mode = "password" THEN <<"password", "ki">> ELSE <<"publickey", "ki">>
      /\ DOMAIN m = {1, 2} /\ host.mode \in {"key", "password"}
  BY SetupIs DEF Methods, Setup
<1>2. Untried(e) = {i \in {1, 2} : m[i] \notin e.tried /\ m[i] \in host.server.allows}
  BY <1>1 DEF Untried
<1>3. PICK c : c = CHOOSE i \in Untried(e) : \A j \in Untried(e) : i <= j
  OBVIOUS
<1>4. ASSUME Untried(e) # {} PROVE c \in Untried(e) /\ \A j \in Untried(e) : c <= j
  <2>1. \E i \in Untried(e) : \A j \in Untried(e) : i <= j
    BY <1>2, <1>4
  <2> QED BY <1>3, <2>1
<1>5. Upcoming(e) = m[c]
  BY <1>3 DEF Upcoming
<1>6. Keyed => m[1] = "publickey" /\ "publickey" \in host.server.allows
  BY <1>1 DEF Keyed
<1>7. ASSUME Untried(e) # {}, Keyed, "publickey" \notin e.tried PROVE Upcoming(e) = "publickey"
  <2>1. 1 \in Untried(e)
    BY <1>2, <1>6, <1>7
  <2>2. c = 1
    BY <1>2, <1>4, <1>7, <2>1
  <2> QED BY <1>5, <1>6, <1>7, <2>2
<1>8. ASSUME Untried(e) # {}
      PROVE  m[c] \notin e.tried /\ m[c] \in host.server.allows /\ c \in {1, 2}
  BY <1>2, <1>4, <1>8
<1> QED BY <1>1, <1>2, <1>5, <1>6, <1>7, <1>8 DEF Keyed

LEMMA MethodFailedIs ==
  ASSUME NEW e, NEW k, Good(e, k), e.pc \in Active, k, host.server.key # "changed", NEW err \in Errs,
         Patient /\ e.err = Nothing => e.batch = <<>> /\ (~e.built => e.signers = <<>>)
  PROVE  LET x == MethodFailed(e, err)
         IN  Good(x, k) /\ x.pc = "next" /\ x.kind = e.kind /\ x.ctx = e.ctx
<1>1. PICK x : x = MethodFailed(e, err)
  OBVIOUS
<1> e \in Dialer
  BY DEF Good
<1>2. x \in Dialer
  <2>1. <<>> \in Seq(Keys) /\ "next" \in Active
    BY DEF Active
  <2> QED BY <1>1, <2>1 DEF MethodFailed, Dialer
<1>3. /\ x.pc = "next" /\ x.batch = <<>> /\ x.asked = e.asked /\ x.kind = e.kind /\ x.ctx = e.ctx
      /\ x.offers = e.offers /\ x.db = e.db /\ x.err = e.err /\ x.built = e.built /\ x.signers = e.signers
      /\ x.offset = e.offset /\ x.round = e.round /\ x.tried = e.tried /\ x.tries = e.tries
  BY <1>1 DEF Dialer, MethodFailed
<1>4. Trusted(x, k)
  BY <1>3 DEF Good, Trusted
<1>5. ASSUME Patient PROVE Ringing(x)
  <2> SUFFICES ASSUME x.err = Nothing PROVE Collected(x) /\ Collecting(x) /\ Offering(x)
    BY DEF Ringing
  <2>1. Collected(e) /\ Collecting(e) /\ Offering(e)
    BY <1>3, <1>5 DEF Good, Ringing
  <2>2. Collected(x)
    BY <1>3, <1>5, <2>1 DEF Collected, Moved, Active
  <2>3. Collecting(x)
    BY <1>3, <1>5, <2>1 DEF Collecting
  <2>4. Offering(x)
    BY <1>3, <2>1 DEF Offering
  <2> QED BY <2>2, <2>3, <2>4
<1> QED BY <1>1, <1>2, <1>3, <1>4, <1>5 DEF Good

LEMMA NextIs ==
  ASSUME NEW e, NEW k, Good(e, k), e.pc \in Active, k, host.server.key # "changed",
         Patient /\ e.err = Nothing => e.batch = <<>> /\ (~e.built => e.signers = <<>>)
  PROVE  LET x == [e EXCEPT !.pc = "next"]
         IN  Good(x, k) /\ x.pc = "next" /\ x.kind = e.kind /\ x.ctx = e.ctx
<1>1. PICK x : x = [e EXCEPT !.pc = "next"]
  OBVIOUS
<1> e \in Dialer
  BY DEF Good
<1>2. x \in Dialer
  BY <1>1 DEF Active, Dialer
<1>3. /\ x.pc = "next" /\ x.batch = e.batch /\ x.asked = e.asked /\ x.kind = e.kind /\ x.ctx = e.ctx
      /\ x.offers = e.offers /\ x.db = e.db /\ x.err = e.err /\ x.built = e.built /\ x.signers = e.signers
      /\ x.offset = e.offset /\ x.round = e.round /\ x.tried = e.tried /\ x.tries = e.tries
  BY <1>1 DEF Dialer
<1>4. Trusted(x, k)
  BY <1>3 DEF Good, Trusted
<1>5. ASSUME Patient PROVE Ringing(x)
  <2> SUFFICES ASSUME x.err = Nothing PROVE Collected(x) /\ Collecting(x) /\ Offering(x)
    BY DEF Ringing
  <2>1. Collected(e) /\ Collecting(e) /\ Offering(e)
    BY <1>3, <1>5 DEF Good, Ringing
  <2>2. Collected(x)
    BY <1>3, <1>5, <2>1 DEF Collected, Moved, Active
  <2>3. Collecting(x)
    BY <1>3, <1>5, <2>1 DEF Collecting
  <2>4. Offering(x)
    BY <1>3, <2>1 DEF Offering
  <2> QED BY <2>2, <2>3, <2>4
<1> QED BY <1>1, <1>2, <1>3, <1>4, <1>5 DEF Good

LEMMA ReplyIs ==
  ASSUME NEW e, NEW k, Good(e, k), NEW a \in {"none", "yes", "no", "right", "wrong", "cancel"}
  PROVE  LET x == [e EXCEPT !.reply = a]
         IN  Good(x, k) /\ x.pc = e.pc /\ x.kind = e.kind /\ x.ctx = e.ctx /\ x.about = e.about
             /\ x.batch = e.batch /\ x.built = e.built /\ x.signers = e.signers /\ x.tried = e.tried
             /\ x.err = e.err /\ x.todo = e.todo
<1>1. PICK x : x = [e EXCEPT !.reply = a]
  OBVIOUS
<1> e \in Dialer
  BY DEF Good
<1>2. x \in Dialer
  BY <1>1 DEF Dialer
<1>3. /\ x.pc = e.pc /\ x.batch = e.batch /\ x.asked = e.asked /\ x.kind = e.kind /\ x.ctx = e.ctx
      /\ x.offers = e.offers /\ x.db = e.db /\ x.err = e.err /\ x.built = e.built /\ x.signers = e.signers
      /\ x.offset = e.offset /\ x.round = e.round /\ x.tried = e.tried /\ x.tries = e.tries
      /\ x.about = e.about /\ x.merr = e.merr /\ x.todo = e.todo
  BY <1>1 DEF Dialer
<1>4. Trusted(x, k)
  BY <1>3 DEF Good, Trusted, Trusting
<1>5. Ringing(e) => Ringing(x)
  BY <1>3 DEF Ringing, Collected, Collecting, Offering, Moved, Exhausted
<1> QED BY <1>1, <1>2, <1>3, <1>4, <1>5 DEF Good

LEMMA TriesIs ==
  ASSUME NEW e, NEW k, Good(e, k), e.pc \in Active \ {"offer", "collect"}, NEW n \in Nat,
         Patient /\ e.err = Nothing /\ Keyed => "publickey" \in e.tried,
         e.pc = "wait" => e.about \notin Passphrases
  PROVE  LET x == [e EXCEPT !.tries = n]
         IN  Good(x, k) /\ x.pc = e.pc /\ x.kind = e.kind /\ x.ctx = e.ctx /\ x.batch = e.batch
             /\ x.err = e.err /\ x.built = e.built /\ x.signers = e.signers /\ x.tried = e.tried
<1>1. PICK x : x = [e EXCEPT !.tries = n]
  OBVIOUS
<1> e \in Dialer
  BY DEF Good
<1>2. x \in Dialer
  BY <1>1 DEF Dialer
<1>3. /\ x.pc = e.pc /\ x.batch = e.batch /\ x.asked = e.asked /\ x.kind = e.kind /\ x.ctx = e.ctx
      /\ x.offers = e.offers /\ x.db = e.db /\ x.err = e.err /\ x.built = e.built /\ x.signers = e.signers
      /\ x.offset = e.offset /\ x.round = e.round /\ x.tried = e.tried /\ x.tries = n
      /\ x.about = e.about /\ x.merr = e.merr
  BY <1>1 DEF Dialer
<1>4. Trusted(x, k)
  BY <1>3 DEF Good, Trusted, Trusting
<1>5. Patient /\ Ringing(e) => Ringing(x)
  <2> SUFFICES ASSUME Patient, Ringing(e), x.err = Nothing PROVE Collected(x) /\ Collecting(x) /\ Offering(x)
    BY DEF Ringing
  <2>1. Collected(e) /\ Collecting(e) /\ Offering(e)
    BY <1>3 DEF Ringing
  <2>2. Collected(x)
    BY <1>3, <2>1 DEF Collected, Moved
  <2>3. Collecting(x)
    BY <1>3, <2>1 DEF Collecting, Active
  <2>4. Offering(x)
    BY <1>3, <2>1 DEF Offering, Active, Exhausted
  <2> QED BY <2>2, <2>3, <2>4
<1> QED BY <1>1, <1>2, <1>3, <1>4, <1>5 DEF Good

LEMMA RejectedIs ==
  ASSUME TypeOK, NEW d \in Dials, NEW e, NEW k, NEW after, NEW x, NEW y,
         x = [e EXCEPT !.tries = e.tries + 1], y = [after EXCEPT !.tries = e.tries + 1],
         Good(x, k), Same(x, d), x.pc \in Active, Good(y, k), Same(y, d), y.pc \in Active,
         Patient /\ x.err = Nothing /\ ~x.built => x.signers = <<>>,
         e.tries + 1 >= host.server.limit /\ Patient /\ x.err = Nothing =>
           x.batch = <<>> /\ (Keyed => "publickey" \in x.tried),
         Rejected(d, e, after)
  PROVE  Becomes(d, k)
<1>1. CASE e.tries + 1 >= host.server.limit
  <2>1. Fail(d, x, "toomany")
    BY <1>1 DEF Rejected
  <2>2. "toomany" \in Errs
    BY DEF Errs
  <2> QED BY <1>1, <2>1, <2>2, FailIs
<1>2. CASE ~(e.tries + 1 >= host.server.limit)
  <2>1. Step(d, y)
    BY <1>2 DEF Rejected
  <2> QED BY <2>1, StepIs
<1> QED BY <1>1, <1>2

-----------------------------------------------------------------------------
(* The steps of a dial *)

LEMMA UsedIs ==
  ASSUME NEW e, NEW k, Good(e, k),
         e.pc \in {"next", "collect", "offer", "password", "up"} \/ (e.pc = "wait" /\ e.about # <<"hostkey">>)
  PROVE  k /\ host.server.key # "changed"
BY DEF Good, Trusted, Trusting

LEMMA BuiltIs ==
  ASSUME NEW e, NEW k, Good(e, k), e.pc # "collect", e.pc = "wait" => e.about \notin Passphrases
  PROVE  Patient /\ e.err = Nothing => /\ ~e.built => e.signers = <<>>
                                       /\ e.pc \notin {"offer", "up", "done"} => e.batch = <<>>
BY DEF Good, Ringing, Collecting, Collected

LEMMA ConnectIs ==
  ASSUME TypeOK, NEW d \in Dials, Good(eng[d], known), Connect(d)
  PROVE  Becomes(d, known)
<1>1. PICK e : e = eng[d]
  OBVIOUS
<1>2. e \in Dialer /\ e.pc = "tcp" /\ e.pc \in Active /\ Same(e, d) /\ Good(e, known)
  BY <1>1 DEF Connect, Active, Good, Same
<1>3. Patient /\ e.err = Nothing /\ ~e.built => e.signers = <<>>
  BY <1>2, BuiltIs
<1>4. CASE Step(d, [e EXCEPT !.pc = "hostkey", !.db = known])
  <2>1. PICK x : x = [e EXCEPT !.pc = "hostkey", !.db = known]
    OBVIOUS
  <2>2. /\ x.pc = "hostkey" /\ x.db = known /\ x.batch = e.batch /\ x.asked = e.asked /\ x.kind = e.kind
        /\ x.ctx = e.ctx /\ x.offers = e.offers /\ x.err = e.err /\ x.built = e.built
        /\ x.signers = e.signers /\ x.offset = e.offset /\ x.round = e.round /\ x.tried = e.tried
        /\ x.tries = e.tries
    BY <1>2, <2>1 DEF Dialer
  <2>3. x \in Dialer
    BY <1>2, <2>1 DEF Dialer, Active, TypeOK
  <2>4. Trusted(x, known)
    BY <1>2, <2>2 DEF Good, Trusted, Trusting
  <2>5. ASSUME Patient PROVE Ringing(x)
    <3> SUFFICES ASSUME x.err = Nothing PROVE Collected(x) /\ Collecting(x) /\ Offering(x)
      BY DEF Ringing
    <3>1. Collected(e) /\ Collecting(e) /\ Offering(e)
      BY <1>2, <2>2, <2>5 DEF Good, Ringing
    <3>2. Collected(x)
      BY <1>2, <2>2, <3>1 DEF Collected, Moved, Active
    <3>3. Collecting(x)
      BY <1>2, <2>2, <3>1 DEF Collecting
    <3>4. Offering(x)
      BY <1>2, <2>2, <3>1 DEF Offering
    <3> QED BY <3>2, <3>3, <3>4
  <2>6. Good(x, known) /\ Same(x, d) /\ x.pc \in Active
    BY <1>2, <2>2, <2>3, <2>4, <2>5 DEF Good, Same, Active
  <2> QED BY <1>4, <2>1, <2>6, StepIs
<1>5. ASSUME NEW err \in {"unreachable", "canceled"}, Fail(d, e, err) PROVE Becomes(d, known)
  BY <1>2, <1>3, <1>5, FailIs DEF Errs, HasMoreWorthy
<1> QED BY <1>1, <1>4, <1>5 DEF Connect

LEMMA HostKeyCallbackIs ==
  ASSUME TypeOK, NEW d \in Dials, Good(eng[d], known), HostKeyCallback(d)
  PROVE  Becomes(d, known)
<1>1. PICK e : e = eng[d]
  OBVIOUS
<1>2. e \in Dialer /\ e.pc = "hostkey" /\ e.pc \in Active /\ Same(e, d) /\ Good(e, known)
  BY <1>1 DEF HostKeyCallback, Active, Good, Same
<1>3. Patient /\ e.err = Nothing => e.batch = <<>> /\ (~e.built => e.signers = <<>>)
  BY <1>2, BuiltIs
<1>4. CASE Fail(d, e, "changed")
  BY <1>2, <1>3, <1>4, FailIs DEF Errs, HasMoreWorthy
<1>5. CASE host.server.key # "changed" /\ e.db /\ Step(d, [e EXCEPT !.pc = "next"])
  <2>1. known
    BY <1>2, <1>5 DEF Good, Trusted
  <2>2. PICK x : x = [e EXCEPT !.pc = "next"]
    OBVIOUS
  <2>3. Good(x, known) /\ x.pc = "next" /\ x.kind = e.kind /\ x.ctx = e.ctx
    BY <1>2, <1>3, <1>5, <2>1, <2>2, NextIs
  <2> QED BY <1>2, <1>5, <2>2, <2>3, StepIs DEF Same, Active
<1>6. CASE host.server.key # "changed" /\ Ask(d, e, <<"hostkey">>)
  BY <1>2, <1>3, <1>6, AskIs, AboutIs
<1> QED BY <1>1, <1>4, <1>5, <1>6 DEF HostKeyCallback

LEMMA TryPasswordIs ==
  ASSUME TypeOK, NEW d \in Dials, NEW e, NEW k, Good(e, k), Same(e, d),
         e.pc = "password" \/ (e.pc = "wait" /\ e.about = <<"password">>),
         NEW pw \in Secrets, TryPassword(d, e, pw)
  PROVE  Becomes(d, k)
<1>1. e \in Dialer /\ e.pc \in Active /\ k /\ host.server.key # "changed" /\ e.attempt \in Nat /\ e.tries \in Nat
      /\ (e.pc = "wait" => e.about \notin Passphrases)
  <2>1. e \in Dialer /\ e.pc \in Active
    BY DEF Good, Active
  <2>2. e.pc = "wait" => e.about \notin Passphrases /\ e.about # <<"hostkey">>
    BY AboutIs
  <2>3. k /\ host.server.key # "changed"
    BY <2>2, UsedIs
  <2> QED BY <2>1, <2>2, <2>3 DEF Dialer
<1>2. Patient /\ e.err = Nothing => /\ e.batch = <<>> /\ (~e.built => e.signers = <<>>)
                                    /\ ~Keyed
  BY <1>1, BuiltIs DEF Good, Ringing, Offering, Keyed
<1>3. CASE pw = "right"
  <2>1. PICK x : x = [e EXCEPT !.pc = "up", !.won = pw]
    OBVIOUS
  <2>2. /\ x.pc = "up" /\ x.batch = e.batch /\ x.asked = e.asked /\ x.kind = e.kind
        /\ x.ctx = e.ctx /\ x.offers = e.offers /\ x.err = e.err /\ x.built = e.built /\ x.db = e.db
        /\ x.signers = e.signers /\ x.offset = e.offset /\ x.round = e.round /\ x.tried = e.tried
        /\ x.tries = e.tries
    BY <1>1, <2>1 DEF Dialer
  <2>3. x \in Dialer
    <3>1. "up" \in Active /\ pw \in Passwords
      BY <1>3 DEF Active, Passwords
    <3> QED BY <1>1, <2>1, <3>1 DEF Dialer
  <2>4. Trusted(x, k)
    BY <1>1, <2>2 DEF Good, Trusted, Trusting
  <2>5. ASSUME Patient PROVE Ringing(x)
    <3> SUFFICES ASSUME x.err = Nothing PROVE Collected(x) /\ Collecting(x) /\ Offering(x)
      BY DEF Ringing
    <3>1. Collected(e) /\ Collecting(e) /\ Offering(e) /\ (~e.built => e.signers = <<>>)
      BY <1>2, <2>2, <2>5 DEF Good, Ringing
    <3>2. Collected(x)
      BY <1>1, <2>2, <3>1 DEF Collected, Moved, Active
    <3>3. Collecting(x)
      BY <1>2, <2>2, <2>5, <3>1 DEF Collecting
    <3>4. Offering(x)
      BY <1>1, <2>2, <3>1 DEF Offering
    <3> QED BY <3>2, <3>3, <3>4
  <2>6. Good(x, k) /\ Same(x, d) /\ x.pc \in Active
    BY <1>1, <2>2, <2>3, <2>4, <2>5 DEF Good, Same, Active
  <2>7. Step(d, x)
    BY <1>3, <2>1 DEF TryPassword
  <2> QED BY <2>6, <2>7, StepIs
<1>4. CASE pw # "right"
  <2>1. PICK a : a = [e EXCEPT !.attempt = @ + 1, !.pc = "password"]
    OBVIOUS
  <2>2. /\ a.pc = "password" /\ a.batch = e.batch /\ a.asked = e.asked /\ a.kind = e.kind
        /\ a.ctx = e.ctx /\ a.offers = e.offers /\ a.err = e.err /\ a.built = e.built /\ a.db = e.db
        /\ a.signers = e.signers /\ a.offset = e.offset /\ a.round = e.round /\ a.tried = e.tried
        /\ a.tries = e.tries
    BY <1>1, <2>1 DEF Dialer
  <2>3. a \in Dialer
    <3>1. e.attempt + 1 \in Nat /\ "password" \in Active
      BY <1>1 DEF Active
    <3> QED BY <1>1, <2>1, <3>1 DEF Dialer
  <2>4. Trusted(a, k)
    BY <1>1, <2>2 DEF Good, Trusted, Trusting
  <2>5. ASSUME Patient PROVE Ringing(a)
    <3> SUFFICES ASSUME a.err = Nothing PROVE Collected(a) /\ Collecting(a) /\ Offering(a)
      BY DEF Ringing
    <3>1. Collected(e) /\ Collecting(e) /\ Offering(e) /\ (~e.built => e.signers = <<>>) /\ e.batch = <<>>
      BY <1>2, <2>2, <2>5 DEF Good, Ringing
    <3>2. Collected(a)
      BY <1>1, <2>2, <3>1 DEF Collected, Moved, Active
    <3>3. Collecting(a)
      BY <1>2, <2>2, <2>5, <3>1 DEF Collecting
    <3>4. Offering(a)
      BY <1>1, <2>2, <3>1 DEF Offering, Active
    <3> QED BY <3>2, <3>3, <3>4
  <2>6. Good(a, k)
    BY <1>1, <2>2, <2>3, <2>4, <2>5 DEF Good, Active
  <2>7. Patient /\ a.err = Nothing => a.batch = <<>> /\ (~a.built => a.signers = <<>>) /\ ~Keyed
    BY <1>2, <2>2
  <2>8. PICK x : x = [a EXCEPT !.tries = a.tries + 1]
    OBVIOUS
  <2>9. /\ Good(x, k) /\ x.pc = "password" /\ x.kind = e.kind /\ x.ctx = e.ctx /\ x.batch = a.batch
        /\ x.err = a.err /\ x.built = a.built /\ x.signers = a.signers
    <3>1. a.pc \in Active \ {"offer", "collect"} /\ a.tries + 1 \in Nat /\ a.pc # "wait"
      BY <1>1, <2>2 DEF Active
    <3>2. Good(x, k) /\ x.pc = a.pc /\ x.kind = a.kind /\ x.ctx = a.ctx /\ x.batch = a.batch
          /\ x.err = a.err /\ x.built = a.built /\ x.signers = a.signers
      BY <2>6, <2>7, <2>8, <3>1, TriesIs
    <3> QED BY <2>2, <3>2
  <2>10. PICK after : after = IF a.attempt = MaxAttempts(e) THEN MethodFailed(a, Nothing) ELSE a
    OBVIOUS
  <2>11. PICK y : y = [after EXCEPT !.tries = a.tries + 1]
    OBVIOUS
  <2>12. Good(y, k) /\ y.pc \in Active /\ y.kind = e.kind /\ y.ctx = e.ctx
    <3>1. CASE after = a
      BY <2>8, <2>9, <2>11, <3>1 DEF Active
    <3>2. CASE after = MethodFailed(a, Nothing)
      <4>1. Nothing \in Errs /\ a.pc \in Active
        BY <2>2 DEF Errs, Nothing, Active
      <4>2. Good(after, k) /\ after.pc = "next" /\ after.kind = a.kind /\ after.ctx = a.ctx
        BY <1>1, <2>6, <2>7, <3>2, <4>1, MethodFailedIs
      <4>3. after.err = a.err
        BY <2>3, <3>2 DEF MethodFailed, Dialer
      <4>4. after.pc \in Active \ {"offer", "collect"} /\ a.tries + 1 \in Nat
        BY <1>1, <2>2, <4>2 DEF Active
      <4>5. Good(y, k) /\ y.pc = after.pc /\ y.kind = after.kind /\ y.ctx = after.ctx
        BY <2>7, <2>11, <4>2, <4>3, <4>4, TriesIs
      <4> QED BY <2>2, <4>2, <4>5 DEF Active
    <3> QED BY <2>10, <3>1, <3>2
  <2>13. Rejected(d, a, after)
    BY <1>4, <2>1, <2>10 DEF TryPassword
  <2>14. Same(x, d) /\ Same(y, d) /\ x.pc \in Active
    BY <2>9, <2>12 DEF Same, Active
  <2>15. /\ Patient /\ x.err = Nothing /\ ~x.built => x.signers = <<>>
         /\ Patient /\ x.err = Nothing => x.batch = <<>> /\ (Keyed => "publickey" \in x.tried)
    BY <2>7, <2>9
  <2> QED BY <2>8, <2>9, <2>11, <2>12, <2>13, <2>14, <2>15, RejectedIs
<1> QED BY <1>3, <1>4

LEMMA PasswordMethodIs ==
  ASSUME TypeOK, NEW d \in Dials, Good(eng[d], known), PasswordMethod(d)
  PROVE  Becomes(d, known)
<1>1. PICK e : e = eng[d]
  OBVIOUS
<1>2. e \in Dialer /\ e.pc = "password" /\ e.pc \in Active /\ Same(e, d) /\ Good(e, known)
  BY <1>1 DEF PasswordMethod, Active, Good, Same
<1>3. known /\ host.server.key # "changed"
  BY <1>2, UsedIs
<1>4. CASE HasStored(e) /\ TryPassword(d, e, e.spec.password)
  <2>1. e.spec.password \in Secrets
    BY <1>2, <1>4 DEF HasStored, Dialer, Passwords, Secrets, Nothing
  <2> QED BY <1>2, <1>4, <2>1, TryPasswordIs
<1>5. CASE Ask(d, e, <<"password">>)
  <2>1. Patient /\ e.err = Nothing => (~e.built => e.signers = <<>>)
    BY <1>2, BuiltIs
  <2>2. host.mode = "password" \/ ~Patient \/ e.err # Nothing
    BY <1>2 DEF Good, Ringing, Offering
  <2> QED BY <1>2, <1>3, <1>5, <2>1, <2>2, AskIs, AboutIs
<1> QED BY <1>1, <1>4, <1>5 DEF PasswordMethod

LEMMA OpenedIs ==
  ASSUME TypeOK, NEW d \in Dials, Good(eng[d], known), Opened(d)
  PROVE  Becomes(d, known)
<1>1. PICK e : e = eng[d]
  OBVIOUS
<1>2. e.pc = "up" /\ e.pc \in Active /\ Same(e, d) /\ Good(e, known)
  BY <1>1 DEF Opened, Active, Same
<1>3. Patient /\ e.err = Nothing /\ ~e.built => e.signers = <<>>
  BY <1>2, BuiltIs
<1>4. PICK err \in {"ok", "refused"} : Finish(d, e, err)
  BY <1>1 DEF Opened
<1> QED BY <1>2, <1>3, <1>4, FinishIs DEF Errs, HasMoreWorthy

LEMMA OfferIs ==
  ASSUME TypeOK, NEW d \in Dials, Good(eng[d], known), Offer(d)
  PROVE  Becomes(d, known)
<1>1. PICK e : e = eng[d]
  OBVIOUS
<1>2. e \in Dialer /\ e.pc = "offer" /\ e.pc \in Active /\ Same(e, d) /\ Good(e, known)
  BY <1>1 DEF Offer, Active, Good, Same
<1>3. known /\ host.server.key # "changed"
  BY <1>2, UsedIs
<1>4. Patient /\ e.err = Nothing => e.built /\ "publickey" \in e.tried
  BY <1>2 DEF Good, Ringing, Offering
<1>5. CASE e.batch = <<>> /\ Step(d, MethodFailed(e, Nothing))
  <2>1. PICK x : x = MethodFailed(e, Nothing)
    OBVIOUS
  <2>2. Nothing \in Errs
    BY DEF Nothing, Errs
  <2>3. Good(x, known) /\ x.pc = "next" /\ x.kind = e.kind /\ x.ctx = e.ctx
    BY <1>2, <1>3, <1>4, <1>5, <2>1, <2>2, MethodFailedIs
  <2> QED BY <1>2, <1>5, <2>1, <2>3, StepIs DEF Same, Active
<1>6. ASSUME NEW x, x = [e EXCEPT !.batch = Tail(@), !.offers = Append(@, Head(e.batch)), !.pc = "up"]
                    \/ x = [e EXCEPT !.batch = Tail(@), !.offers = Append(@, Head(e.batch)), !.tries = e.tries + 1],
             e.batch # <<>>
      PROVE  /\ Good(x, known) /\ Same(x, d) /\ x.pc \in Active /\ x.err = e.err /\ x.built = e.built
             /\ x.tried = e.tried
             /\ Patient /\ e.err = Nothing /\ e.tries + 1 >= host.server.limit => x.batch = <<>>
  <2>1. PICK b : b = Tail(e.batch)
    OBVIOUS
  <2>2. PICK o : o = Append(e.offers, Head(e.batch))
    OBVIOUS
  <2>3. /\ o \o b = e.offers \o e.batch /\ o \in Seq(Keys) /\ b \in Seq(Keys) /\ Len(b) = Len(e.batch) - 1
        /\ e.batch \in Seq(Keys) /\ e.tries \in Nat
    <3>1. e.batch \in Seq(Keys) /\ e.offers \in Seq(Keys) /\ e.tries \in Nat
      BY <1>2 DEF Dialer
    <3>2. PICK t \in Seq(Keys) : t = e.batch /\ t # <<>>
      BY <1>6, <3>1
    <3>3. PICK f \in Seq(Keys) : f = e.offers
      BY <3>1
    <3>4. /\ Append(f, Head(t)) \o Tail(t) = f \o t /\ Append(f, Head(t)) \in Seq(Keys)
          /\ Tail(t) \in Seq(Keys) /\ Len(Tail(t)) = Len(t) - 1
      BY <3>2, Shift
    <3> QED BY <2>1, <2>2, <3>1, <3>2, <3>3, <3>4
  <2>4. x = [e EXCEPT !.batch = b, !.offers = o, !.pc = "up"] \/ x = [e EXCEPT !.batch = b, !.offers = o, !.tries = e.tries + 1]
    BY <1>6, <2>1, <2>2
  <2>5. /\ x.pc = "up" \/ (x.pc = "offer" /\ x.tries = e.tries + 1)
        /\ x.batch = b /\ x.offers = o /\ x.asked = e.asked /\ x.kind = e.kind /\ x.db = e.db
        /\ x.ctx = e.ctx /\ x.err = e.err /\ x.built = e.built
        /\ x.signers = e.signers /\ x.offset = e.offset /\ x.round = e.round /\ x.tried = e.tried
    <3>1. CASE x = [e EXCEPT !.batch = b, !.offers = o, !.pc = "up"]
      BY <1>2, <3>1 DEF Dialer
    <3>2. CASE x = [e EXCEPT !.batch = b, !.offers = o, !.tries = e.tries + 1]
      BY <1>2, <3>2 DEF Dialer
    <3> QED BY <2>4, <3>1, <3>2
  <2>6. x \in Dialer
    <3>1. "up" \in Active /\ e.tries + 1 \in Nat
      BY <2>3 DEF Active
    <3>2. CASE x = [e EXCEPT !.batch = b, !.offers = o, !.pc = "up"]
      BY <1>2, <2>3, <3>1, <3>2 DEF Dialer
    <3>3. CASE x = [e EXCEPT !.batch = b, !.offers = o, !.tries = e.tries + 1]
      BY <1>2, <2>3, <3>1, <3>3 DEF Dialer
    <3> QED BY <2>4, <3>2, <3>3
  <2>7. Trusted(x, known)
    BY <1>2, <1>3, <2>5 DEF Good, Trusted, Trusting
  <2>8. ASSUME Patient PROVE Ringing(x)
    <3> SUFFICES ASSUME x.err = Nothing PROVE Collected(x) /\ Collecting(x) /\ Offering(x)
      BY DEF Ringing
    <3>1. Collected(e) /\ Collecting(e) /\ Offering(e) /\ e.built /\ "publickey" \in e.tried
      BY <1>2, <1>4, <2>5, <2>8 DEF Good, Ringing
    <3>2. Collected(x)
      BY <2>3, <2>5, <3>1 DEF Collected, Moved
    <3>3. Collecting(x)
      BY <2>5, <3>1 DEF Collecting
    <3>4. e.tries + Len(e.batch) <= BatchSize + 1
      BY <1>2, <3>1 DEF Offering
    <3>5. x.pc = "offer" => x.tries + Len(x.batch) <= BatchSize + 1
      <4>1. Len(e.batch) \in Nat /\ Len(b) = Len(e.batch) - 1 /\ BatchSize \in Nat
        BY <2>3, DialAssumption
      <4>2. x.pc = "offer" => x.tries = e.tries + 1
        BY <2>5
      <4>3. x.batch = b
        BY <2>5
      <4> QED BY <2>3, <3>4, <4>1, <4>2, <4>3
    <3>6. Offering(x)
      BY <1>2, <2>5, <3>1, <3>5 DEF Offering
    <3> QED BY <3>2, <3>3, <3>6
  <2>9. ASSUME Patient, e.err = Nothing, e.tries + 1 >= host.server.limit PROVE x.batch = <<>>
    <3>1. e.tries + Len(e.batch) <= BatchSize + 1
      BY <1>2, <2>9 DEF Good, Ringing, Offering
    <3>2. host.server.limit \in Nat /\ BatchSize \in Nat /\ host.server.limit > BatchSize
      BY <2>9, SetupIs, DialAssumption DEF Setup, Patient
    <3>3. Len(b) = 0
      <4>1. Len(e.batch) \in Nat /\ Len(b) = Len(e.batch) - 1 /\ Len(b) \in Nat /\ e.tries \in Nat
        BY <2>3
      <4>2. PICK t \in Nat, l \in Nat, n \in Nat : t = e.tries /\ l = host.server.limit /\ n = Len(e.batch)
        BY <3>2, <4>1
      <4>3. t + n <= BatchSize + 1 /\ l > BatchSize /\ t + 1 >= l /\ Len(b) = n - 1
        BY <2>9, <3>1, <3>2, <4>1, <4>2
      <4>4. n <= 1
        BY <3>2, <4>3
      <4>5. PICK m \in Nat : m = Len(b)
        BY <4>1
      <4>6. m = n - 1
        BY <4>3, <4>5
      <4>7. m = 0
        BY <4>4, <4>6
      <4> QED BY <4>5, <4>7
    <3> QED BY <2>3, <2>5, <3>3
  <2> QED BY <1>2, <2>5, <2>6, <2>7, <2>8, <2>9 DEF Good, Same, Active
<1>7. CASE e.batch # <<>> /\ Step(d, [e EXCEPT !.batch = Tail(@), !.offers = Append(@, Head(e.batch)), !.pc = "up"])
  BY <1>6, <1>7, StepIs
<1>8. ASSUME NEW o, e.batch # <<>>, o = [e EXCEPT !.batch = Tail(@), !.offers = Append(@, Head(e.batch))],
             Rejected(d, o, o)
      PROVE  Becomes(d, known)
  <2>1. o.tries = e.tries /\ [o EXCEPT !.tries = o.tries + 1]
                = [e EXCEPT !.batch = Tail(@), !.offers = Append(@, Head(e.batch)), !.tries = e.tries + 1]
    BY <1>2, <1>8 DEF Dialer
  <2>2. PICK x : x = [o EXCEPT !.tries = o.tries + 1]
    OBVIOUS
  <2>3. /\ Good(x, known) /\ Same(x, d) /\ x.pc \in Active /\ x.err = e.err /\ x.built = e.built
        /\ x.tried = e.tried
        /\ Patient /\ e.err = Nothing /\ o.tries + 1 >= host.server.limit => x.batch = <<>>
    BY <1>6, <1>8, <2>1, <2>2
  <2>4. Patient /\ x.err = Nothing /\ ~x.built => x.signers = <<>>
    BY <1>4, <2>3
  <2>5. o.tries + 1 >= host.server.limit /\ Patient /\ x.err = Nothing =>
           x.batch = <<>> /\ (Keyed => "publickey" \in x.tried)
    BY <1>4, <2>3
  <2> QED BY <1>8, <2>2, <2>3, <2>4, <2>5, RejectedIs
<1>9. PICK o : o = [e EXCEPT !.batch = Tail(@), !.offers = Append(@, Head(e.batch))]
  OBVIOUS
<1>10. [o EXCEPT !.pc = "up"] = [e EXCEPT !.batch = Tail(@), !.offers = Append(@, Head(e.batch)), !.pc = "up"]
  BY <1>2, <1>9 DEF Dialer
<1> QED BY <1>1, <1>5, <1>7, <1>8, <1>9, <1>10 DEF Offer

\* The dial is collecting keys, or asks for the passphrase of one.
AtKeys(e) == e.pc = "collect" \/ (e.pc = "wait" /\ e.about \in Passphrases)

\* A source is dealt with: whatever it adds, the ring has not moved yet.
LEMMA SourceDone ==
  ASSUME NEW e, NEW k, Good(e, k), AtKeys(e), NEW x \in Dialer,
         x.err = Nothing => e.err = Nothing, x.pc = "collect", x.batch = e.batch, x.asked = e.asked,
         x.kind = e.kind, x.offers = e.offers, x.built = e.built, x.db = e.db,
         x.offset = e.offset, x.round = e.round, x.tried = e.tried, x.tries = e.tries
  PROVE  Good(x, k)
<1>1. e \in Dialer /\ k /\ host.server.key # "changed"
  BY UsedIs, AboutIs DEF AtKeys, Good
<1>2. /\ x.pc = "collect" /\ x.batch = e.batch /\ x.asked = e.asked /\ x.kind = e.kind
      /\ x.offers = e.offers /\ x.built = e.built /\ x.db = e.db
      /\ x.offset = e.offset /\ x.round = e.round /\ x.tried = e.tried
      /\ x.tries = e.tries /\ (x.err = Nothing => e.err = Nothing)
  OBVIOUS
<1>3. Trusted(x, k)
  BY <1>1, <1>2 DEF Good, Trusted, Trusting
<1>4. ASSUME Patient PROVE Ringing(x)
  <2> SUFFICES ASSUME x.err = Nothing PROVE Collected(x) /\ Collecting(x) /\ Offering(x)
    BY DEF Ringing
  <2>1. Collected(e) /\ Collecting(e) /\ Offering(e)
    BY <1>2, <1>4 DEF Good, Ringing
  <2>2. Keyed /\ "publickey" \in e.tried /\ ~e.built /\ e.tries <= 1
    BY <2>1 DEF Collecting, AtKeys
  <2>3. e.offers = <<>> /\ e.batch = <<>> /\ e.offset = 0 /\ (e.round <= 1 \/ (e.pc = "done" /\ e.signers = <<>>))
    BY <2>1, <2>2 DEF Collected
  <2>4. Collected(x)
    <3>1. 0 <= Len(x.signers) /\ e.round <= 1
      BY <2>3 DEF AtKeys, Dialer
    <3> QED BY <1>2, <2>2, <2>3, <3>1 DEF Collected
  <2>5. Collecting(x)
    BY <1>2, <2>2 DEF Collecting
  <2>6. e.pc \in Active
    BY DEF AtKeys, Active
  <2>7. Offering(x)
    BY <1>2, <2>1, <2>6 DEF Offering
  <2> QED BY <2>4, <2>5, <2>7
<1> QED BY <1>2, <1>3, <1>4 DEF Good, Active, AtKeys

LEMMA KeepIs ==
  ASSUME NEW e, NEW k, Good(e, k), AtKeys(e), e.todo # <<>>
  PROVE  Good(Keep(e), k) /\ Keep(e).pc \in Active /\ Keep(e).kind = e.kind /\ Keep(e).ctx = e.ctx
<1>1. e \in Dialer /\ Tail(e.todo) \in Seq(Source)
  BY HeadTailProperties DEF Good, Dialer
<1>2. PICK key \in Keys : key = Head(e.todo).key
  <2>1. Head(e.todo) \in Source
    BY <1>1, HeadTailProperties DEF Dialer
  <2> QED BY <2>1 DEF Source
<1>3. PICK ss \in Seq(Keys) : ss = Add(e, key).signers
  <2>1. e.signers \in Seq(Keys) /\ Append(e.signers, key) \in Seq(Keys)
    BY <1>1 DEF Dialer
  <2> QED BY <1>1, <2>1 DEF Add, Dialer
<1>4. PICK t \in Seq(Source) : t = Tail(e.todo)
  BY <1>1
<1>5. PICK x : x = [e EXCEPT !.signers = ss, !.todo = t, !.pc = "collect"]
  OBVIOUS
<1>6. Keep(e) = x
  BY <1>1, <1>2, <1>3, <1>4, <1>5 DEF Keep, Add, Dialer
<1>7. x \in Dialer
  BY <1>1, <1>5 DEF Dialer, Active
<1>8. /\ x.pc = "collect" /\ x.batch = e.batch /\ x.asked = e.asked /\ x.kind = e.kind /\ x.ctx = e.ctx
      /\ x.offers = e.offers /\ x.err = e.err /\ x.built = e.built /\ x.db = e.db
      /\ x.offset = e.offset /\ x.round = e.round /\ x.tried = e.tried /\ x.tries = e.tries
  BY <1>1, <1>5 DEF Dialer
<1>9. Good(x, k)
  BY <1>7, <1>8, SourceDone
<1> QED BY <1>6, <1>8, <1>9 DEF Active

LEMMA SkipIs ==
  ASSUME NEW e, NEW k, Good(e, k), AtKeys(e), e.todo # <<>>, NEW src,
         NEW err \in {"unreadable", "passphrase", "canceled"}
  PROVE  LET x == Skip(e, src, err)
         IN  Good(x, k) /\ x.pc \in Active /\ x.kind = e.kind /\ x.ctx = e.ctx
<1>1. e \in Dialer /\ Tail(e.todo) \in Seq(Source)
  BY HeadTailProperties DEF Good, Dialer
<1>2. PICK er : er = IF src = "file" /\ e.err = Nothing THEN err ELSE e.err
  OBVIOUS
<1>3. er \in Errs /\ (er = Nothing => e.err = Nothing)
  BY <1>1, <1>2 DEF Dialer, Errs, Nothing
<1>4. PICK t \in Seq(Source) : t = Tail(e.todo)
  BY <1>1
<1>5. PICK x : x = [e EXCEPT !.todo = t, !.pc = "collect", !.err = er]
  OBVIOUS
<1>6. Skip(e, src, err) = x
  BY <1>1, <1>2, <1>4, <1>5 DEF Skip, Dialer
<1>7. x \in Dialer
  BY <1>1, <1>3, <1>5 DEF Dialer, Active
<1>8. /\ x.pc = "collect" /\ x.batch = e.batch /\ x.asked = e.asked /\ x.kind = e.kind /\ x.ctx = e.ctx
      /\ x.offers = e.offers /\ x.err = er /\ x.built = e.built /\ x.db = e.db
      /\ x.offset = e.offset /\ x.round = e.round /\ x.tried = e.tried /\ x.tries = e.tries
  BY <1>1, <1>5 DEF Dialer
<1>9. Good(x, k)
  BY <1>3, <1>7, <1>8, SourceDone
<1> QED BY <1>6, <1>8, <1>9 DEF Active

LEMMA CollectIs ==
  ASSUME TypeOK, NEW d \in Dials, Good(eng[d], known), Collect(d)
  PROVE  Becomes(d, known)
<1>1. PICK e : e = eng[d]
  OBVIOUS
<1>2. e \in Dialer /\ e.pc = "collect" /\ e.pc \in Active /\ Same(e, d) /\ Good(e, known) /\ AtKeys(e)
  BY <1>1 DEF Collect, Active, Good, Same, AtKeys
<1>3. known /\ host.server.key # "changed"
  BY <1>2, UsedIs
<1>4. PICK b : b = [e EXCEPT !.built = TRUE]
  OBVIOUS
<1>5. /\ b.pc = "collect" /\ b.batch = e.batch /\ b.asked = e.asked /\ b.kind = e.kind
      /\ b.ctx = e.ctx /\ b.offers = e.offers /\ b.err = e.err /\ b.built = TRUE /\ b.db = e.db
      /\ b.signers = e.signers /\ b.offset = e.offset /\ b.round = e.round /\ b.tried = e.tried
      /\ b.tries = e.tries /\ b \in Dialer
  BY <1>2, <1>4 DEF Dialer
<1>6. Trusted(b, known)
  BY <1>2, <1>5 DEF Good, Trusted, Trusting
<1>7. CASE e.err # Nothing /\ Step(d, MethodFailed(b, e.err))
  <2>1. Good(b, known)
    BY <1>2, <1>5, <1>6, <1>7 DEF Good, Ringing
  <2>2. PICK x : x = MethodFailed(b, e.err)
    OBVIOUS
  <2>3. e.err \in Errs /\ b.pc \in Active
    BY <1>2, <1>5 DEF Dialer
  <2>4. Good(x, known) /\ x.pc = "next" /\ x.kind = b.kind /\ x.ctx = b.ctx
    BY <1>3, <1>5, <1>7, <2>1, <2>2, <2>3, MethodFailedIs
  <2> QED BY <1>2, <1>5, <1>7, <2>2, <2>4, StepIs DEF Same, Active
<1>8. CASE Step(d, [RingNext(b) EXCEPT !.pc = "offer"])
  <2>1. PICK r : r = RingNext(b)
    OBVIOUS
  <2>2. r \in Dialer
    BY <1>5, <2>1, RingIs
  <2>3. /\ r.asked = e.asked /\ r.kind = e.kind
        /\ r.ctx = e.ctx /\ r.offers = e.offers /\ r.err = e.err /\ r.built = TRUE /\ r.db = e.db
        /\ r.signers = e.signers /\ r.round = e.round /\ r.tried = e.tried /\ r.tries = e.tries
    BY <1>5, <2>1 DEF RingNext, Dialer
  <2>4. PICK x : x = [r EXCEPT !.pc = "offer"]
    OBVIOUS
  <2>5. /\ x.pc = "offer" /\ x.asked = e.asked /\ x.kind = e.kind
        /\ x.ctx = e.ctx /\ x.offers = e.offers /\ x.err = e.err /\ x.built = TRUE /\ x.db = e.db
        /\ x.signers = e.signers /\ x.round = e.round /\ x.tried = e.tried /\ x.tries = e.tries
        /\ x.batch = r.batch /\ x.offset = r.offset
    BY <2>2, <2>3, <2>4 DEF Dialer
  <2>6. x \in Dialer
    BY <2>2, <2>4 DEF Dialer, Active
  <2>7. Trusted(x, known)
    BY <1>2, <1>3, <2>5 DEF Good, Trusted, Trusting
  <2>8. ASSUME Patient PROVE Ringing(x)
    <3> SUFFICES ASSUME x.err = Nothing PROVE Collected(x) /\ Collecting(x) /\ Offering(x)
      BY DEF Ringing
    <3>1. Collected(e) /\ Collecting(e) /\ Offering(e)
      BY <1>2, <2>5, <2>8 DEF Good, Ringing
    <3>2. Keyed /\ "publickey" \in e.tried /\ ~e.built /\ e.tries <= 1
      BY <1>2, <3>1 DEF Collecting
    <3>3. e.offers = <<>> /\ e.batch = <<>> /\ e.offset = 0 /\ e.round = 1
      BY <1>2, <3>1, <3>2 DEF Collected, Offering, Dialer
    <3>4. b.offers = SubSeq(b.signers, 1, b.offset) /\ b.offset <= Len(b.signers)
      <4>1. b.signers \in Seq(Keys)
        BY <1>5 DEF Dialer
      <4>2. SubSeq(b.signers, 1, 0) = <<>>
        BY SubSeqEmpty
      <4> QED BY <1>5, <3>3, <4>1, <4>2
    <3>5. b.offset = (b.round - 1) * BatchSize /\ b.round >= 1
      <4>1. 0 * BatchSize = 0
        BY DialAssumption
      <4>2. b.round - 1 = 0 /\ b.offset = 0
        BY <1>5, <3>3
      <4> QED BY <1>5, <3>3, <4>1, <4>2
    <3>6. /\ r.offers \o r.batch = SubSeq(r.signers, 1, r.offset) /\ r.offset <= Len(r.signers)
          /\ Len(r.batch) <= BatchSize
          /\ r.offset = Len(r.signers) \/ r.offset = r.round * BatchSize
      BY <1>5, <2>1, <3>4, <3>5, RingIs
    <3>7. Moved(x) = r.round
      BY <2>3, <2>5, <3>2 DEF Moved
    <3>8. Collected(x)
      BY <2>3, <2>5, <3>2, <3>6, <3>7 DEF Collected
    <3>9. Collecting(x)
      BY <2>5, <3>2 DEF Collecting
    <3>10. x.tries + Len(x.batch) <= BatchSize + 1
      <4>1. PICK t \in Nat, n \in Nat : t = x.tries /\ n = Len(x.batch)
        BY <2>6 DEF Dialer
      <4>2. t <= 1 /\ n <= BatchSize /\ BatchSize \in Nat
        BY <2>5, <3>2, <3>6, <4>1, DialAssumption
      <4> QED BY <4>1, <4>2
    <3>11. Offering(x)
      BY <2>5, <3>2, <3>3, <3>10 DEF Offering
    <3> QED BY <3>8, <3>9, <3>11
  <2>9. Good(x, known) /\ Same(x, d) /\ x.pc \in Active
    BY <1>2, <2>5, <2>6, <2>7, <2>8 DEF Good, Same, Active
  <2> QED BY <1>8, <2>1, <2>4, <2>9, StepIs
<1>9. CASE e.todo # <<>> /\ Step(d, Keep(e))
  BY <1>2, <1>9, KeepIs, StepIs DEF Same
<1>10. CASE e.todo # <<>> /\ Step(d, Skip(e, Head(e.todo).src, "unreadable"))
  BY <1>2, <1>10, SkipIs, StepIs DEF Same
<1>11. CASE e.todo # <<>> /\ Ask(d, e, <<"passphrase", Head(e.todo).src, Head(e.todo).key>>)
  <2>1. Head(e.todo) \in Source
    BY <1>2, <1>11, HeadTailProperties DEF Dialer
  <2>2. PICK a : a = <<"passphrase", Head(e.todo).src, Head(e.todo).key>>
    OBVIOUS
  <2>3. a \in Passphrases /\ a \in About
    BY <2>1, <2>2 DEF Passphrases, About, Source
  <2> QED BY <1>2, <1>3, <1>11, <2>2, <2>3, AskIs, AboutIs
<1> QED BY <1>1, <1>4, <1>7, <1>8, <1>9, <1>10, <1>11 DEF Collect

LEMMA SourcesIs ==
  ASSUME TypeOK, NEW e, e \in Dialer
  PROVE  Sources(e) \in Seq(Source)
<1>1. host.agent \in Seq(Keys) /\ host.file \in Seq(Source) /\ e.spec.keys \in Seq(Source)
  BY SetupIs DEF Setup, Dialer
<1>2. PICK n \in Nat : n = Len(host.agent)
  BY <1>1
<1>3. PICK f : f = [i \in 1..n |-> [src |-> "agent", key |-> host.agent[i], lock |-> "plain"]]
  OBVIOUS
<1>4. f \in Seq(Source)
  <2>1. \A i \in 1..n : [src |-> "agent", key |-> host.agent[i], lock |-> "plain"] \in Source
    <3>1. \A i \in 1..n : host.agent[i] \in Keys
      BY <1>1, <1>2
    <3> QED BY <3>1 DEF Source
  <2>2. f \in [1..n -> Source]
    BY <1>3, <2>1
  <2> QED BY <2>2
<1>5. <<>> \in Seq(Source)
  OBVIOUS
<1>6. PICK g \in Seq(Source) : g = IF e.spec.agent /\ ~e.spec.bound THEN f ELSE <<>>
  BY <1>4, <1>5
<1>7. Sources(e) = g \o host.file \o e.spec.keys
  BY <1>2, <1>3, <1>6 DEF Sources
<1> QED BY <1>1, <1>7, ConcatProperties

\* The dial goes on to a method that is not publickey.
LEMMA GoneOn ==
  ASSUME NEW e, NEW k, Good(e, k), NEW m \in {"password", "ki"}, NEW u \in Dialer, e.pc = "next", u.pc = "next",
         u.batch = e.batch, u.asked = e.asked, u.kind = e.kind, u.offers = e.offers, u.db = e.db,
         u.err = e.err, u.built = e.built, u.signers = e.signers, u.offset = e.offset, u.round = e.round,
         u.tried = e.tried \union {m}, u.tries = e.tries
  PROVE  Good(u, k)
<1>1. Trusted(u, k)
  BY DEF Good, Trusted, Trusting
<1>2. Ringing(e) => Ringing(u)
  BY DEF Ringing, Collected, Collecting, Offering, Moved, Exhausted
<1> QED BY <1>1, <1>2 DEF Good

LEMMA NextMethodIs ==
  ASSUME TypeOK, NEW d \in Dials, Good(eng[d], known), NextMethod(d)
  PROVE  Becomes(d, known)
<1>1. PICK e : e = eng[d]
  OBVIOUS
<1>2. e \in Dialer /\ e.pc = "next" /\ e.pc \in Active /\ Same(e, d) /\ Good(e, known)
  BY <1>1 DEF NextMethod, Active, Good, Same
<1>3. known /\ host.server.key # "changed"
  BY <1>2, UsedIs
<1>4. Patient /\ e.err = Nothing => e.batch = <<>> /\ (~e.built => e.signers = <<>>)
  BY <1>2, BuiltIs
<1>5. PICK m : m = Upcoming(e)
  OBVIOUS
<1>6. /\ Untried(e) # {} =>
            /\ m \in {"publickey", "password", "ki"} /\ m \notin e.tried
            /\ m = "publickey" => Keyed
            /\ m = "password" => host.mode = "password"
            /\ m = "ki" /\ Keyed => "publickey" \in e.tried
      /\ Untried(e) = {} /\ Keyed => "publickey" \in e.tried
  BY <1>2, <1>5, UpcomingIs
<1>7. PICK u : u = [e EXCEPT !.tried = @ \union {m}, !.merr = Nothing]
  OBVIOUS
<1>8. /\ u.pc = "next" /\ u.batch = e.batch /\ u.asked = e.asked /\ u.kind = e.kind /\ u.ctx = e.ctx
      /\ u.offers = e.offers /\ u.db = e.db /\ u.err = e.err /\ u.built = e.built /\ u.signers = e.signers
      /\ u.offset = e.offset /\ u.round = e.round /\ u.tried = e.tried \union {m} /\ u.tries = e.tries
      /\ u.merr = Nothing
  BY <1>2, <1>7 DEF Dialer
<1>9. ASSUME Untried(e) # {} PROVE u \in Dialer
  <2>1. PICK t \in SUBSET {"publickey", "password", "ki"} : t = e.tried \union {m}
    BY <1>2, <1>6, <1>9 DEF Dialer
  <2>2. u = [e EXCEPT !.tried = t, !.merr = Nothing] /\ Nothing \in Errs
    BY <1>7, <2>1 DEF Errs, Nothing
  <2> QED BY <1>2, <2>2 DEF Dialer
<1>10. ASSUME Untried(e) = {}, Fail(d, e, IF e.merr # Nothing THEN e.merr ELSE "authfailed")
       PROVE  Becomes(d, known)
  <2>1. PICK err \in Errs : err = IF e.merr # Nothing THEN e.merr ELSE "authfailed"
    BY <1>2 DEF Dialer, Errs
  <2> QED BY <1>2, <1>4, <1>6, <1>10, <2>1, FailIs
<1>11. ASSUME Untried(e) # {}, m = "publickey", ~e.built,
              Step(d, [u EXCEPT !.pc = "collect", !.todo = Sources(e)])
       PROVE  Becomes(d, known)
  <2>1. PICK t \in Seq(Source) : t = Sources(e)
    BY <1>2, SourcesIs
  <2>2. PICK x : x = [u EXCEPT !.pc = "collect", !.todo = t]
    OBVIOUS
  <2>3. /\ x.pc = "collect" /\ x.batch = e.batch /\ x.asked = e.asked /\ x.kind = e.kind /\ x.ctx = e.ctx
        /\ x.offers = e.offers /\ x.db = e.db /\ x.err = e.err /\ x.built = e.built /\ x.signers = e.signers
        /\ x.offset = e.offset /\ x.round = e.round /\ x.tried = e.tried \union {m} /\ x.tries = e.tries
    BY <1>8, <1>9, <1>11, <2>2 DEF Dialer
  <2>4. x \in Dialer
    BY <1>9, <1>11, <2>2 DEF Dialer, Active
  <2>5. Trusted(x, known)
    BY <1>2, <1>3, <2>3 DEF Good, Trusted, Trusting
  <2>6. ASSUME Patient PROVE Ringing(x)
    <3> SUFFICES ASSUME x.err = Nothing PROVE Collected(x) /\ Collecting(x) /\ Offering(x)
      BY DEF Ringing
    <3>1. Collected(e) /\ Collecting(e) /\ Offering(e) /\ e.batch = <<>>
      BY <1>2, <1>4, <2>3, <2>6 DEF Good, Ringing
    <3>2. Keyed /\ "publickey" \notin e.tried
      BY <1>6, <1>11
    <3>3. Collected(x)
      BY <1>2, <1>11, <2>3, <3>1 DEF Collected
    <3>4. Collecting(x)
      BY <1>11, <2>3, <3>1, <3>2 DEF Collecting
    <3>5. Offering(x)
      BY <1>2, <2>3, <3>1 DEF Offering
    <3> QED BY <3>3, <3>4, <3>5
  <2>7. Good(x, known) /\ Same(x, d) /\ x.pc \in Active
    BY <1>2, <2>3, <2>4, <2>5, <2>6 DEF Good, Same, Active
  <2> QED BY <1>11, <2>1, <2>2, <2>7, StepIs
<1>12. ASSUME Untried(e) # {}, m = "publickey", e.built, Step(d, LaterRound(u))
       PROVE  Becomes(d, known)
  <2>1. PICK r : r = RingNext(u)
    OBVIOUS
  <2>2. r \in Dialer
    BY <1>9, <1>12, <2>1, RingIs
  <2>3. /\ r.pc = "next" /\ r.asked = e.asked /\ r.kind = e.kind
        /\ r.ctx = e.ctx /\ r.offers = e.offers /\ r.err = e.err /\ r.built = e.built /\ r.db = e.db
        /\ r.signers = e.signers /\ r.round = e.round /\ r.tried = e.tried \union {m} /\ r.tries = e.tries
    BY <1>8, <1>9, <1>12, <2>1 DEF RingNext, Dialer
  <2>4. CASE u.err # Nothing
    <3>1. Trusted(r, known)
      BY <1>2, <1>3, <2>3 DEF Good, Trusted, Trusting
    <3>2. Good(r, known) /\ r.pc \in Active /\ r.err # Nothing
      BY <1>2, <1>8, <2>2, <2>3, <2>4, <3>1 DEF Good, Ringing, Active
    <3>3. PICK x : x = MethodFailed(r, u.err)
      OBVIOUS
    <3>4. u.err \in Errs
      BY <1>9, <1>12 DEF Dialer
    <3>5. Good(x, known) /\ x.pc = "next" /\ x.kind = r.kind /\ x.ctx = r.ctx
      BY <1>3, <3>2, <3>3, <3>4, MethodFailedIs
    <3>6. Step(d, x)
      BY <1>12, <2>1, <2>4, <3>3 DEF LaterRound
    <3> QED BY <1>2, <2>3, <3>5, <3>6, StepIs DEF Same, Active
  <2>5. CASE u.err = Nothing
    <3>1. PICK x : x = [r EXCEPT !.pc = "offer"]
      OBVIOUS
    <3>2. /\ x.pc = "offer" /\ x.asked = e.asked /\ x.kind = e.kind
          /\ x.ctx = e.ctx /\ x.offers = e.offers /\ x.err = e.err /\ x.built = e.built /\ x.db = e.db
          /\ x.signers = e.signers /\ x.round = e.round /\ x.tried = e.tried \union {m} /\ x.tries = e.tries
          /\ x.batch = r.batch /\ x.offset = r.offset
      BY <2>2, <2>3, <3>1 DEF Dialer
    <3>3. x \in Dialer
      BY <2>2, <3>1 DEF Dialer, Active
    <3>4. Trusted(x, known)
      BY <1>2, <1>3, <3>2 DEF Good, Trusted, Trusting
    <3>5. ASSUME Patient PROVE Ringing(x)
      <4> SUFFICES ASSUME x.err = Nothing PROVE Collected(x) /\ Collecting(x) /\ Offering(x)
        BY DEF Ringing
      <4>1. Collected(e) /\ Collecting(e) /\ Offering(e) /\ e.batch = <<>>
        BY <1>2, <1>4, <3>2, <3>5 DEF Good, Ringing
      <4>2. Keyed /\ "publickey" \notin e.tried /\ e.tries <= 1 /\ Moved(e) = e.round - 1 /\ e.round >= 1
        BY <1>2, <1>6, <1>12, <4>1 DEF Collecting, Moved, Offering
      <4>3. u.offers = SubSeq(u.signers, 1, u.offset) /\ u.offset <= Len(u.signers)
        <5>1. e.offers \o <<>> = e.offers
          BY <1>2, ConcatEmptySeq DEF Dialer
        <5>2. e.offers = SubSeq(e.signers, 1, e.offset) /\ e.offset <= Len(e.signers)
          BY <1>12, <4>1, <5>1 DEF Collected
        <5> QED BY <1>8, <5>2
      <4>4. (u.offset = Len(u.signers) \/ u.offset = (u.round - 1) * BatchSize) /\ u.round >= 1
        <5>1. e.offset = Len(e.signers) \/ e.offset = (e.round - 1) * BatchSize
          BY <1>12, <4>1, <4>2 DEF Collected
        <5> QED BY <1>8, <4>2, <5>1
      <4>5. /\ r.offers \o r.batch = SubSeq(r.signers, 1, r.offset) /\ r.offset <= Len(r.signers)
            /\ Len(r.batch) <= BatchSize
            /\ r.offset = Len(r.signers) \/ r.offset = r.round * BatchSize
        BY <1>9, <1>12, <2>1, <4>3, <4>4, RingIs
      <4>6. Moved(x) = r.round
        BY <1>12, <2>3, <3>2 DEF Moved
      <4>7. Collected(x)
        BY <1>12, <2>3, <3>2, <4>2, <4>5, <4>6 DEF Collected
      <4>8. Collecting(x)
        BY <1>12, <3>2, <4>2 DEF Collecting
      <4>9. x.tries + Len(x.batch) <= BatchSize + 1
        <5>1. PICK t \in Nat, n \in Nat : t = x.tries /\ n = Len(x.batch)
          BY <3>3 DEF Dialer
        <5>2. t <= 1 /\ n <= BatchSize /\ BatchSize \in Nat
          BY <3>2, <4>2, <4>5, <5>1, DialAssumption
        <5> QED BY <5>1, <5>2
      <4>10. Offering(x)
        BY <1>12, <3>2, <4>2, <4>9 DEF Offering
      <4> QED BY <4>7, <4>8, <4>10
    <3>6. Good(x, known) /\ Same(x, d) /\ x.pc \in Active
      BY <1>2, <3>2, <3>3, <3>4, <3>5 DEF Good, Same, Active
    <3>7. Step(d, x)
      BY <1>12, <2>1, <2>5, <3>1 DEF LaterRound
    <3> QED BY <3>6, <3>7, StepIs
  <2> QED BY <2>4, <2>5
<1>13. ASSUME Untried(e) # {}, m = "password", Step(d, [u EXCEPT !.pc = "password"])
       PROVE  Becomes(d, known)
  <2>1. /\ Good(u, known) /\ u.pc = "next" /\ u.kind = e.kind /\ u.ctx = e.ctx /\ u.err = e.err
        /\ u.batch = e.batch /\ u.built = e.built /\ u.signers = e.signers
    BY <1>2, <1>8, <1>9, <1>13, GoneOn
  <2>2. PICK x : x = [u EXCEPT !.pc = "password"]
    OBVIOUS
  <2>3. u \in Dialer
    BY <1>9, <1>13
  <2>4. x \in Dialer
    BY <2>2, <2>3 DEF Dialer, Active
  <2>5. /\ x.pc = "password" /\ x.batch = u.batch /\ x.asked = u.asked /\ x.kind = u.kind /\ x.ctx = u.ctx
        /\ x.offers = u.offers /\ x.db = u.db /\ x.err = u.err /\ x.built = u.built /\ x.signers = u.signers
        /\ x.offset = u.offset /\ x.round = u.round /\ x.tried = u.tried /\ x.tries = u.tries
    BY <2>2, <2>3 DEF Dialer
  <2>6. Trusted(x, known)
    BY <1>3, <2>1, <2>5 DEF Good, Trusted, Trusting
  <2>7. ASSUME Patient PROVE Ringing(x)
    <3> SUFFICES ASSUME x.err = Nothing PROVE Collected(x) /\ Collecting(x) /\ Offering(x)
      BY DEF Ringing
    <3>1. Collected(u) /\ Collecting(u) /\ Offering(u) /\ u.batch = <<>> /\ (~u.built => u.signers = <<>>)
      BY <1>4, <2>1, <2>5, <2>7 DEF Good, Ringing
    <3>2. Collected(x)
      BY <2>1, <2>5, <3>1 DEF Collected, Moved
    <3>3. Collecting(x)
      BY <2>1, <2>5, <3>1 DEF Collecting
    <3>4. Offering(x)
      BY <1>6, <1>13, <2>1, <2>5, <3>1 DEF Offering, Active
    <3> QED BY <3>2, <3>3, <3>4
  <2>8. Good(x, known) /\ Same(x, d) /\ x.pc \in Active
    BY <1>2, <2>1, <2>4, <2>5, <2>6, <2>7 DEF Good, Same, Active
  <2> QED BY <1>13, <2>2, <2>8, StepIs
<1>14. ASSUME Untried(e) # {}, m = "ki", Ask(d, u, <<"ki">>)
       PROVE  Becomes(d, known)
  <2>1. /\ Good(u, known) /\ u.pc = "next" /\ u.kind = e.kind /\ u.ctx = e.ctx /\ u.err = e.err
        /\ u.batch = e.batch /\ u.built = e.built /\ u.signers = e.signers /\ u.tried = e.tried \union {m}
    BY <1>2, <1>8, <1>9, <1>14, GoneOn
  <2>2. u.pc \in Active /\ u.pc \notin {"offer", "up"} /\ Same(u, d)
    BY <1>2, <2>1 DEF Active, Same
  <2>3. Keyed => "publickey" \in u.tried
    BY <1>6, <1>14, <2>1
  <2> QED BY <1>3, <1>4, <1>14, <2>1, <2>2, <2>3, AskIs, AboutIs
<1> QED BY <1>1, <1>5, <1>6, <1>7, <1>10, <1>11, <1>12, <1>13, <1>14 DEF NextMethod, Collects

LEMMA LaterKnown ==
  ASSUME NEW e, NEW k, NEW j, k => j, Good(e, k)
  PROVE  Good(e, j)
BY DEF Good, Trusted

LEMMA RefusedIs ==
  ASSUME NEW e, NEW k, Good(e, k), NEW b \in BOOLEAN
  PROVE  LET x == [e EXCEPT !.refused = b]
         IN  Good(x, k) /\ x.pc = e.pc /\ x.kind = e.kind /\ x.ctx = e.ctx
             /\ x.batch = e.batch /\ x.built = e.built /\ x.signers = e.signers /\ x.err = e.err
<1>1. PICK x : x = [e EXCEPT !.refused = b]
  OBVIOUS
<1> e \in Dialer
  BY DEF Good
<1>2. x \in Dialer
  BY <1>1 DEF Dialer
<1>3. /\ x.pc = e.pc /\ x.batch = e.batch /\ x.asked = e.asked /\ x.kind = e.kind /\ x.ctx = e.ctx
      /\ x.offers = e.offers /\ x.db = e.db /\ x.err = e.err /\ x.built = e.built /\ x.signers = e.signers
      /\ x.offset = e.offset /\ x.round = e.round /\ x.tried = e.tried /\ x.tries = e.tries
      /\ x.about = e.about /\ x.merr = e.merr /\ x.todo = e.todo
  BY <1>1 DEF Dialer
<1>4. Trusted(x, k)
  BY <1>3 DEF Good, Trusted, Trusting
<1>5. Ringing(e) => Ringing(x)
  BY <1>3 DEF Ringing, Collected, Collecting, Offering, Moved, Exhausted
<1> QED BY <1>1, <1>2, <1>3, <1>4, <1>5 DEF Good

LEMMA GaveUp ==
  ASSUME NEW d \in Dials, NEW e, NEW k, Good(e, k), Same(e, d), e.pc = "wait", e.about # <<"hostkey">>,
         e.about \notin Passphrases, NEW b \in BOOLEAN,
         Step(d, MethodFailed([e EXCEPT !.refused = b], "canceled"))
  PROVE  Becomes(d, k)
<1>1. PICK x : x = [e EXCEPT !.refused = b]
  OBVIOUS
<1>2. /\ Good(x, k) /\ x.pc = e.pc /\ x.kind = e.kind /\ x.ctx = e.ctx
      /\ x.batch = e.batch /\ x.built = e.built /\ x.signers = e.signers /\ x.err = e.err
  BY <1>1, RefusedIs
<1>3. Patient /\ x.err = Nothing => x.batch = <<>> /\ (~x.built => x.signers = <<>>)
  BY <1>2, BuiltIs
<1>4. k /\ host.server.key # "changed" /\ x.pc \in Active /\ "canceled" \in Errs
  BY <1>2, UsedIs DEF Active, Errs
<1>5. PICK y : y = MethodFailed(x, "canceled")
  OBVIOUS
<1>6. Good(y, k) /\ y.pc = "next" /\ y.kind = x.kind /\ y.ctx = x.ctx
  BY <1>2, <1>3, <1>4, <1>5, MethodFailedIs
<1>7. Same(y, d) /\ y.pc \in Active /\ Step(d, y)
  BY <1>1, <1>2, <1>5, <1>6 DEF Same, Active
<1> QED BY <1>6, <1>7, StepIs

LEMMA KeyboardIs ==
  ASSUME TypeOK, NEW d \in Dials, NEW e, NEW k, Good(e, k), Same(e, d), e.pc = "wait", e.about = <<"ki">>,
         NEW a, KeyboardAnswered(d, e, a)
  PROVE  Becomes(d, k)
<1>1. /\ e.about # <<"hostkey">> /\ e.about \notin Passphrases /\ e \in Dialer /\ e.pc \in Active
  BY AboutIs DEF Good, Active
<1>2. k /\ host.server.key # "changed"
  BY <1>1, UsedIs
<1>3. Patient /\ e.err = Nothing => /\ e.batch = <<>> /\ (~e.built => e.signers = <<>>)
                                    /\ Keyed => "publickey" \in e.tried
  <2>1. Patient /\ e.err = Nothing => e.batch = <<>> /\ (~e.built => e.signers = <<>>)
    BY <1>1, BuiltIs
  <2>2. Patient /\ e.err = Nothing /\ Keyed => "publickey" \in e.tried
    BY DEF Good, Ringing, Offering
  <2> QED BY <2>1, <2>2
<1>4. CASE a = "right"
  <2>1. PICK x : x = [e EXCEPT !.pc = "up"]
    OBVIOUS
  <2>2. /\ x.pc = "up" /\ x.batch = e.batch /\ x.asked = e.asked /\ x.kind = e.kind
        /\ x.ctx = e.ctx /\ x.offers = e.offers /\ x.err = e.err /\ x.built = e.built /\ x.db = e.db
        /\ x.signers = e.signers /\ x.offset = e.offset /\ x.round = e.round /\ x.tried = e.tried
        /\ x.tries = e.tries
    BY <1>1, <2>1 DEF Dialer
  <2>3. x \in Dialer
    BY <1>1, <2>1 DEF Dialer, Active
  <2>4. Trusted(x, k)
    BY <1>2, <2>2 DEF Good, Trusted, Trusting
  <2>5. ASSUME Patient PROVE Ringing(x)
    <3> SUFFICES ASSUME x.err = Nothing PROVE Collected(x) /\ Collecting(x) /\ Offering(x)
      BY DEF Ringing
    <3>1. Collected(e) /\ Collecting(e) /\ Offering(e) /\ (~e.built => e.signers = <<>>)
      BY <1>3, <2>2, <2>5 DEF Good, Ringing
    <3>2. Collected(x)
      BY <1>1, <2>2, <3>1 DEF Collected, Moved
    <3>3. Collecting(x)
      BY <1>3, <2>2, <2>5, <3>1 DEF Collecting
    <3>4. Offering(x)
      BY <1>1, <2>2, <3>1 DEF Offering
    <3> QED BY <3>2, <3>3, <3>4
  <2>6. Good(x, k) /\ Same(x, d) /\ x.pc \in Active
    BY <1>1, <2>2, <2>3, <2>4, <2>5 DEF Good, Same, Active
  <2>7. Step(d, x)
    BY <1>4, <2>1 DEF KeyboardAnswered
  <2> QED BY <2>6, <2>7, StepIs
<1>5. CASE a = "wrong"
  <2>1. PICK x : x = [e EXCEPT !.tries = e.tries + 1]
    OBVIOUS
  <2>2. e.pc \in Active \ {"offer", "collect"} /\ e.tries + 1 \in Nat
    BY <1>1 DEF Active, Dialer
  <2>3. /\ Good(x, k) /\ x.pc = e.pc /\ x.kind = e.kind /\ x.ctx = e.ctx /\ x.batch = e.batch
        /\ x.err = e.err /\ x.built = e.built /\ x.signers = e.signers /\ x.tried = e.tried
    BY <1>1, <1>3, <2>1, <2>2, TriesIs
  <2>4. PICK f : f = MethodFailed(e, Nothing)
    OBVIOUS
  <2>5. Nothing \in Errs
    BY DEF Errs, Nothing
  <2>6. Good(f, k) /\ f.pc = "next" /\ f.kind = e.kind /\ f.ctx = e.ctx
    BY <1>1, <1>2, <1>3, <2>4, <2>5, MethodFailedIs
  <2>7. f.err = e.err /\ f.tried = e.tried /\ f.pc \in Active \ {"offer", "collect"}
    BY <1>1, <2>4, <2>6 DEF MethodFailed, Dialer, Active
  <2>8. PICK y : y = [f EXCEPT !.tries = e.tries + 1]
    OBVIOUS
  <2>9. Good(y, k) /\ y.pc = f.pc /\ y.kind = f.kind /\ y.ctx = f.ctx
    BY <1>3, <2>2, <2>6, <2>7, <2>8, TriesIs
  <2>10. Same(x, d) /\ x.pc \in Active /\ Same(y, d) /\ y.pc \in Active
    BY <1>1, <2>3, <2>6, <2>7, <2>9 DEF Same
  <2>11. Rejected(d, e, f)
    BY <1>5, <2>4 DEF KeyboardAnswered
  <2>12. /\ Patient /\ x.err = Nothing /\ ~x.built => x.signers = <<>>
         /\ Patient /\ x.err = Nothing => x.batch = <<>> /\ (Keyed => "publickey" \in x.tried)
    BY <1>3, <2>3
  <2> QED BY <2>1, <2>3, <2>8, <2>9, <2>10, <2>11, <2>12, RejectedIs
<1>6. CASE a \notin {"right", "wrong"}
  <2>1. PICK b \in BOOLEAN : b = (a = "cancel")
    OBVIOUS
  <2>2. Step(d, MethodFailed([e EXCEPT !.refused = b], "canceled"))
    BY <1>6, <2>1 DEF KeyboardAnswered
  <2> QED BY <1>1, <2>2, GaveUp
<1> QED BY <1>4, <1>5, <1>6

LEMMA HostKeyIs ==
  ASSUME TypeOK, NEW d \in Dials, NEW e, Good(e, known), Same(e, d), e.pc = "wait", e.about = <<"hostkey">>,
         NEW a, HostKeyAnswered(d, e, a)
  PROVE  Becomes(d, known')
<1>1. e.about \notin Passphrases /\ e.pc \in Active /\ host.server.key # "changed"
  BY AboutIs DEF Good, Active, Trusted
<1>2. Patient /\ e.err = Nothing => e.batch = <<>> /\ (~e.built => e.signers = <<>>)
  BY <1>1, BuiltIs
<1>3. CASE known' = TRUE /\ Step(d, [e EXCEPT !.pc = "next"])
  <2>1. Good(e, TRUE)
    BY LaterKnown
  <2>2. PICK x : x = [e EXCEPT !.pc = "next"]
    OBVIOUS
  <2>3. Good(x, TRUE) /\ x.pc = "next" /\ x.kind = e.kind /\ x.ctx = e.ctx
    BY <1>1, <1>2, <2>1, <2>2, NextIs
  <2>4. Becomes(d, TRUE)
    BY <1>3, <2>2, <2>3, StepIs DEF Same, Active
  <2> QED BY <1>3, <2>4
<1>4. ASSUME NEW err \in {"unwritable", "canceled", "rejected"}, Fail(d, e, err), known' = known
      PROVE  Becomes(d, known')
  <2>1. Becomes(d, known)
    BY <1>1, <1>2, <1>4, FailIs DEF Errs, HasMoreWorthy
  <2> QED BY <1>4, <2>1
<1> QED BY <1>3, <1>4 DEF HostKeyAnswered

LEMMA AnsweredIs ==
  ASSUME TypeOK, NEW d \in Dials, NEW e, Good(e, known), Same(e, d), e.pc = "wait", NEW a, Answered(d, e, a)
  PROVE  Becomes(d, known')
<1>1. e.about \in About /\ e \in Dialer
  BY DEF Good, Trusted
<1>2. CASE e.about = <<"hostkey">>
  <2>1. HostKeyAnswered(d, e, a)
    BY <1>1, <1>2, AboutIs DEF Answered
  <2> QED BY <1>2, <2>1, HostKeyIs
<1>3. CASE e.about \in Passphrases
  <2>1. known' = known /\ PassphraseAnswered(d, e, a)
    BY <1>1, <1>3, AboutIs DEF Answered
  <2>2. AtKeys(e) /\ e.todo # <<>>
    BY <1>3 DEF AtKeys, Good
  <2>3. CASE Step(d, Keep(e))
    BY <2>1, <2>2, <2>3, KeepIs, StepIs DEF Same
  <2>4. ASSUME NEW err \in {"passphrase", "canceled"}, Step(d, Skip(e, Head(e.todo).src, err))
        PROVE  Becomes(d, known)
    BY <2>2, <2>4, SkipIs, StepIs DEF Same
  <2>5. Becomes(d, known)
    BY <2>1, <2>3, <2>4, <2>2, KeepIs, StepIs DEF PassphraseAnswered, Same
  <2> QED BY <2>1, <2>5
<1>4. CASE e.about = <<"password">>
  <2>1. known' = known /\ PasswordAnswered(d, e, a)
    BY <1>1, <1>4, AboutIs DEF Answered
  <2>2. CASE a \in Secrets
    BY <1>4, <2>1, <2>2, TryPasswordIs DEF PasswordAnswered
  <2>3. CASE a \notin Secrets
    <3>1. PICK b \in BOOLEAN : b = (a = "cancel")
      OBVIOUS
    <3>2. Step(d, MethodFailed([e EXCEPT !.refused = b], "canceled"))
      BY <2>1, <2>3, <3>1 DEF PasswordAnswered
    <3>3. Becomes(d, known)
      BY <1>4, <3>2, GaveUp, AboutIs
    <3> QED BY <2>1, <3>3
  <2> QED BY <2>2, <2>3
<1>5. CASE e.about = <<"ki">>
  <2>1. known' = known /\ KeyboardAnswered(d, e, a)
    BY <1>1, <1>5, AboutIs DEF Answered
  <2>2. Becomes(d, known)
    BY <1>5, <2>1, KeyboardIs
  <2> QED BY <2>1, <2>2
<1> QED BY <1>1, <1>2, <1>3, <1>4, <1>5 DEF About

LEMMA WokenIs ==
  ASSUME TypeOK, NEW d \in Dials, Good(eng[d], known), Woken(d)
  PROVE  Becomes(d, known')
<1>1. PICK e : e = eng[d]
  OBVIOUS
<1>2. PICK r : r = [e EXCEPT !.reply = Nothing]
  OBVIOUS
<1>3. Good(r, known) /\ r.pc = "wait" /\ Same(r, d)
  <2>1. e.pc = "wait" /\ Good(e, known) /\ Nothing \in {"none", "yes", "no", "right", "wrong", "cancel"}
    BY <1>1 DEF Woken, Nothing
  <2>2. Good(r, known) /\ r.pc = e.pc /\ r.kind = e.kind /\ r.ctx = e.ctx
    BY <1>2, <2>1, ReplyIs
  <2> QED BY <1>1, <2>1, <2>2 DEF Same
<1>4. PICK a : Answered(d, r, a)
  BY <1>1, <1>2 DEF Woken
<1> QED BY <1>3, <1>4, AnsweredIs

\* Every step of a dialing goroutine.
LEMMA EngineIs ==
  ASSUME TypeOK, NEW d \in Dials, Good(eng[d], known), Engine(d)
  PROVE  /\ Becomes(d, known') /\ eng[d].pc \in Active
         /\ known' \in BOOLEAN /\ (known => known')
         /\ UNCHANGED <<host, stored, ui, imported>>
<1>1. CASE Woken(d)
  <2>1. known' = known \/ known' = TRUE
    BY <1>1 DEF Woken, Answered, HostKeyAnswered
  <2>2. known \in BOOLEAN
    BY DEF TypeOK
  <2>3. known' \in BOOLEAN
    BY <2>1, <2>2
  <2>4. known => known'
    BY <2>1
  <2>5. Becomes(d, known')
    BY <1>1, WokenIs
  <2> QED BY <1>1, <2>3, <2>4, <2>5 DEF Woken, Active
<1>2. CASE Engine(d) /\ ~Woken(d)
  <2>1. Becomes(d, known)
    BY <1>2, ConnectIs, HostKeyCallbackIs, NextMethodIs, CollectIs, OfferIs, PasswordMethodIs, OpenedIs
       DEF Engine, Local, Network
  <2>2. known' = known /\ UNCHANGED <<host, stored, ui, imported>> /\ eng[d].pc \in Active
    BY <1>2 DEF Engine, Local, Network, Connect, HostKeyCallback, NextMethod, Collect, Offer, PasswordMethod,
                Opened, Active
  <2>3. known \in BOOLEAN
    BY DEF TypeOK
  <2> QED BY <2>1, <2>2, <2>3
<1> QED BY <1>1, <1>2

-----------------------------------------------------------------------------
(* The invariant is inductive *)

LEMMA FixedHost ==
  ASSUME host' = host
  PROVE  (\A d \in Dials : Good(eng[d], known))' <=> (\A d \in Dials : Good(eng'[d], known'))
BY DEF Good, Trusted, Trusting, Ringing, Collected, Collecting, Offering, Keyed, Patient, Moved, Exhausted, HasMoreWorthy

LEMMA EngineKeeps ==
  ASSUME IInv, NEW d \in Dials, Engine(d)
  PROVE  IInv'
<1>1. TypeOK /\ (\A c \in Dials : Good(eng[c], known)) /\ (~imported => Recorded)
  BY DEF IInv
<1>2. /\ Becomes(d, known') /\ eng[d].pc \in Active
      /\ known' \in BOOLEAN /\ (known => known')
      /\ UNCHANGED <<host, stored, ui, imported>>
  BY <1>1, EngineIs
<1>3. PICK x : /\ Good(x, known') /\ Same(x, d) /\ eng' = [eng EXCEPT ![d] = x]
               /\ \/ x.pc \in Active /\ inbox' = inbox
                  \/ x.pc \in Active /\ \E p \in Prompt : inbox' = inbox \union {p}
                  \/ x.pc = "done" /\ \E m \in Done : m.dial = d /\ inbox' = inbox \union {m}
  BY <1>2 DEF Becomes
<1>4. eng \in [Dials -> Dialer] /\ x \in Dialer /\ eng' \in [Dials -> Dialer] /\ eng'[d] = x
      /\ \A c \in Dials \ {d} : eng'[c] = eng[c]
  BY <1>1, <1>3 DEF TypeOK, Good
<1>5. TypeOK'
  <2>1. inbox' \subseteq Prompt \union Done
    BY <1>1, <1>3 DEF TypeOK
  <2> QED BY <1>1, <1>2, <1>4, <2>1 DEF TypeOK
<1>6. (\A c \in Dials : Good(eng[c], known))'
  <2>1. ASSUME NEW c \in Dials PROVE Good(eng'[c], known')
    <3>1. CASE c = d
      BY <1>3, <1>4, <3>1
    <3>2. CASE c # d
      BY <1>1, <1>2, <1>4, <3>2, LaterKnown
    <3> QED BY <3>1, <3>2
  <2> QED BY <1>2, <2>1, FixedHost
<1>7. ASSUME ~imported' PROVE Recorded'
  <2>1. Recorded
    BY <1>1, <1>2, <1>7
  <2>2. ui.dialing = d
    BY <1>2, <2>1 DEF Recorded
  <2>3. \A m \in inbox : m.type # "done"
    BY <1>2, <2>1, <2>2 DEF Recorded, Active
  <2>4. \A c \in Dials : eng'[c].pc \in Active => ui.dialing = c
    BY <1>4, <2>1, <2>2 DEF Recorded
  <2>5. CASE \A m \in inbox' : m.type # "done"
    BY <1>2, <2>1, <2>4, <2>5 DEF Recorded
  <2>6. CASE \E m \in Done : m.dial = d /\ x.pc = "done" /\ inbox' = inbox \union {m}
    BY <1>2, <1>4, <2>1, <2>2, <2>3, <2>4, <2>6 DEF Recorded
  <2> QED BY <1>3, <2>3, <2>5, <2>6 DEF Prompt
<1> QED BY <1>5, <1>6, <1>7 DEF IInv

\* A dial that has collected and offered nothing: before it starts, at its start, and once forgotten.
LEMMA FreshIs ==
  ASSUME NEW k, NEW x \in Dialer, x.offers = <<>>, x.asked = <<>>, x.signers = <<>>, x.batch = <<>>, ~x.built,
         x.offset = 0, x.tries <= 1, x.round <= 1 \/ x.pc = "done", ~x.db,
         x.pc \in {"idle", "tcp", "done", "gone"}, x.pc = "tcp" => x.round >= 1 /\ x.kind # Nothing
  PROVE  Good(x, k)
<1>1. Len(x.asked) = 0 /\ Len(x.signers) = 0 /\ Len(x.offers) = 0
  OBVIOUS
<1>2. ~Trusting(x)
  BY <1>1 DEF Trusting
<1>3. Trusted(x, k)
  BY <1>2 DEF Trusted
<1>4. Collected(x)
  BY <1>1 DEF Collected
<1>5. Collecting(x)
  BY DEF Collecting
<1>6. Offering(x)
  BY <1>1 DEF Offering, Exhausted, Active
<1> QED BY <1>3, <1>4, <1>5, <1>6 DEF Good, Ringing, Active

LEMMA IdleIs ==
  /\ Idle \in Dialer
  /\ Idle.offers = <<>> /\ Idle.asked = <<>> /\ Idle.signers = <<>> /\ Idle.batch = <<>> /\ ~Idle.built
  /\ Idle.offset = 0 /\ Idle.tries = 0 /\ Idle.round = 0 /\ Idle.pc = "idle" /\ ~Idle.db
<1>1. <<>> \in Seq(Source) /\ <<>> \in Seq(Keys) /\ <<>> \in Seq(About) /\ 0 \in 0..MaxRounds
  BY DialAssumption
<1>2. NoSpec \in [keys : Seq(Source), bound : BOOLEAN, agent : BOOLEAN, password : Passwords]
  BY <1>1 DEF NoSpec, Passwords, Nothing
<1> QED BY <1>1, <1>2 DEF Idle, Dialer, Nothing, Errs, Passwords

LEMMA InitIs == Init => IInv
<1> SUFFICES ASSUME Init PROVE IInv
  OBVIOUS
<1>1. host \in Setup
  BY DialAssumption DEF Init
<1>2. stored \in Passwords /\ known \in BOOLEAN
  BY <1>1 DEF Init, Setup, Passwords
<1>3. ui \in Ui
  BY DEF Init, NewUi, Ui, Nothing, NoDial, Passwords
<1>4. TypeOK
  BY <1>2, <1>3, IdleIs DEF Init, TypeOK
<1>5. ASSUME NEW d \in Dials PROVE Good(eng[d], known)
  BY IdleIs, FreshIs DEF Init
<1>6. Recorded
  BY IdleIs DEF Recorded, Init, NewUi, NoDial, Active
<1> QED BY <1>4, <1>5, <1>6 DEF IInv

\* A step of the event loop that leaves the goroutines good and the records straight.
LEMMA Straight ==
  ASSUME IInv, TypeOK', UNCHANGED <<host, known>>, \A d \in Dials : Good(eng'[d], known),
         ~imported' => Recorded'
  PROVE  IInv'
BY FixedHost DEF IInv

LEMMA ReplyKeeps ==
  ASSUME IInv, NEW p \in Prompt, NEW a \in {"none", "yes", "no", "right", "wrong", "cancel"}, Reply(p, a)
  PROVE  /\ eng' \in [Dials -> Dialer]
         /\ \A d \in Dials : Good(eng'[d], known) /\ eng'[d].pc = eng[d].pc
<1>1. eng \in [Dials -> Dialer] /\ (\A d \in Dials : Good(eng[d], known)) /\ p.dial \in Dials
  BY DEF IInv, TypeOK, Prompt
<1>2. CASE eng' = eng
  BY <1>1, <1>2
<1>3. CASE eng' = [eng EXCEPT ![p.dial].reply = a]
  <2>1. PICK x : x = [eng[p.dial] EXCEPT !.reply = a]
    OBVIOUS
  <2>2. eng' = [eng EXCEPT ![p.dial] = x]
    BY <1>1, <1>3, <2>1
  <2>3. Good(x, known) /\ x.pc = eng[p.dial].pc
    BY <1>1, <2>1, ReplyIs
  <2>4. x \in Dialer
    BY <2>3 DEF Good
  <2>5. ASSUME NEW d \in Dials PROVE Good(eng'[d], known) /\ eng'[d].pc = eng[d].pc
    BY <1>1, <2>2, <2>3
  <2> QED BY <1>1, <2>2, <2>4, <2>5
<1> QED BY <1>2, <1>3 DEF Reply

LEMMA PromptKeeps ==
  ASSUME IInv, HandlePrompt
  PROVE  IInv'
<1>1. PICK p \in inbox : /\ p.type = "prompt" /\ inbox' = inbox \ {p}
                         /\ ui' = IF p.about = <<"hostkey">>
                                  THEN [ui EXCEPT !.hostKey = p, !.modal = "hostkey"]
                                  ELSE [ui EXCEPT !.secret = p, !.remember = FALSE, !.modal = "secret"]
  BY DEF HandlePrompt
<1>2. TypeOK /\ p \in Prompt /\ UNCHANGED <<host, known, stored, eng, imported>>
  BY <1>1 DEF IInv, TypeOK, Done, HandlePrompt
<1>3. ui' \in Ui /\ ui'.modal \in {"hostkey", "secret"} /\ ui'.cancel = ui.cancel /\ ui'.dialing = ui.dialing
  BY <1>1, <1>2 DEF TypeOK, Ui
<1>4. TypeOK'
  BY <1>1, <1>2, <1>3 DEF TypeOK
<1>5. Recorded => Recorded'
  BY <1>1, <1>2, <1>3 DEF Recorded
<1> QED BY <1>2, <1>4, <1>5, Straight DEF IInv

\* A prompt is answered: the UI goes back to the spinner, the dial gets its reply.
LEMMA AnswerKeeps ==
  ASSUME IInv, NEW p \in Prompt, NEW a \in {"none", "yes", "no", "right", "wrong", "cancel"}, Reply(p, a),
         NEW u \in Ui, u.dialing = ui.dialing, u.cancel = ui.cancel, ui' = RestoreAfterPrompt(u),
         UNCHANGED <<host, known, stored, inbox, imported>>
  PROVE  IInv'
<1>1. TypeOK /\ eng' \in [Dials -> Dialer] /\ \A d \in Dials : Good(eng'[d], known) /\ eng'[d].pc = eng[d].pc
  BY ReplyKeeps DEF IInv
<1>2. /\ ui' \in Ui /\ ui'.cancel = ui.cancel /\ ui'.dialing = ui.dialing
      /\ ui.dialing # NoDial => ui'.modal = "connecting"
  BY DEF RestoreAfterPrompt, Ui, Nothing
<1>3. TypeOK'
  BY <1>1, <1>2 DEF TypeOK
<1>4. Recorded => Recorded'
  <2>1. inbox \subseteq Prompt \union Done
    BY <1>1 DEF TypeOK
  <2>2. \A m \in inbox : m.type = "done" => m.dial \in Dials
    BY <2>1 DEF Prompt, Done
  <2> QED BY <1>1, <1>2, <2>2 DEF Recorded
<1> QED BY <1>1, <1>3, <1>4, Straight DEF IInv

LEMMA ModalKeysKeep ==
  ASSUME IInv, HostKeyModalKey \/ SecretEnter \/ SecretEsc
  PROVE  IInv'
<1>1. ui \in Ui /\ stored \in Passwords
  BY DEF IInv, TypeOK
<1>2. CASE HostKeyModalKey
  <2>1. PICK u : u = [ui EXCEPT !.hostKey = NoPrompt]
    OBVIOUS
  <2>2. u \in Ui /\ u.dialing = ui.dialing /\ u.cancel = ui.cancel
    BY <1>1, <2>1 DEF Ui
  <2>3. PICK p \in Prompt : p = ui.hostKey
    BY <1>1, <1>2 DEF HostKeyModalKey, Ui
  <2>4. PICK a \in {"yes", "no"} : Reply(p, a)
    BY <1>2, <2>3 DEF HostKeyModalKey
  <2>5. ui' = RestoreAfterPrompt(u) /\ UNCHANGED <<host, known, stored, inbox, imported>>
    BY <1>2, <2>1 DEF HostKeyModalKey
  <2> QED BY <2>2, <2>3, <2>4, <2>5, AnswerKeeps
<1>3. CASE SecretEnter
  <2>1. PICK p \in Prompt : p = ui.secret
    BY <1>1, <1>3 DEF SecretEnter, Ui
  <2>2. PICK a \in Secrets :
          /\ Reply(p, a)
          /\ ui' = RestoreAfterPrompt(
                     [ui EXCEPT !.secret = NoPrompt, !.remember = FALSE,
                                !.pendingPW = IF ui.remember /\ a # stored THEN a ELSE @])
    BY <1>3, <2>1 DEF SecretEnter
  <2>3. PICK w \in Passwords : w = IF ui.remember /\ a # stored THEN a ELSE ui.pendingPW
    BY <1>1 DEF Ui, Secrets, Passwords
  <2>4. PICK u : u = [ui EXCEPT !.secret = NoPrompt, !.remember = FALSE, !.pendingPW = w]
    OBVIOUS
  <2>5. u \in Ui /\ u.dialing = ui.dialing /\ u.cancel = ui.cancel
    BY <1>1, <2>4 DEF Ui
  <2>6. ui' = RestoreAfterPrompt(u) /\ UNCHANGED <<host, known, stored, inbox, imported>>
    BY <1>3, <2>2, <2>3, <2>4 DEF SecretEnter
  <2>7. a \in {"none", "yes", "no", "right", "wrong", "cancel"}
    BY DEF Secrets
  <2> QED BY <2>2, <2>5, <2>6, <2>7, AnswerKeeps
<1>4. CASE SecretEsc
  <2>1. PICK p \in Prompt : p = ui.secret
    BY <1>1, <1>4 DEF SecretEsc, Ui
  <2>2. PICK u : u = [ui EXCEPT !.secret = NoPrompt, !.remember = FALSE, !.pendingPW = Nothing]
    OBVIOUS
  <2>3. u \in Ui /\ u.dialing = ui.dialing /\ u.cancel = ui.cancel
    BY <1>1, <2>2 DEF Ui, Passwords, Nothing
  <2>4. Reply(p, "cancel") /\ ui' = RestoreAfterPrompt(u) /\ UNCHANGED <<host, known, stored, inbox, imported>>
    BY <1>4, <2>1, <2>2 DEF SecretEsc
  <2> QED BY <2>3, <2>4, AnswerKeeps
<1> QED BY <1>2, <1>3, <1>4

\* The result of a dial is taken: no dial is under way, none is on record.
LEMMA ResultKeeps ==
  ASSUME IInv, NEW m \in inbox, m.type = "done", inbox' = inbox \ {m}, stored' \in Passwords,
         ui' \in Ui, ui'.dialing = NoDial, ui'.cancel = NoDial,
         UNCHANGED <<host, known, eng, imported>>
  PROVE  IInv'
<1>1. TypeOK /\ \A d \in Dials : Good(eng'[d], known)
  BY DEF IInv
<1>2. TypeOK'
  BY <1>1 DEF TypeOK
<1>3. Recorded => Recorded'
  <2> SUFFICES ASSUME Recorded PROVE Recorded'
    OBVIOUS
  <2>1. m.dial = ui.dialing /\ eng[m.dial].pc \in {"done", "gone"}
    BY DEF Recorded
  <2>2. \A d \in Dials : eng[d].pc \notin Active
    BY <2>1 DEF Recorded, Active
  <2>3. \A n \in inbox' : n.type # "done"
    BY DEF Recorded
  <2> QED BY <2>2, <2>3 DEF Recorded
<1> QED BY <1>1, <1>2, <1>3, Straight DEF IInv

LEMMA DoneKeeps ==
  ASSUME IInv, HandleDialDone \/ HandleForwardDone
  PROVE  IInv'
<1>1. ui \in Ui /\ stored \in Passwords /\ inbox \subseteq Prompt \union Done
  BY DEF IInv, TypeOK
<1>2. PICK m \in inbox : /\ m.type = "done" /\ inbox' = inbox \ {m}
                         /\ \/ ui' = DialErr(Over(ui), m.err) /\ stored' = stored
                            \/ ui' = [Over(ui) EXCEPT !.modal = Nothing, !.attached = TRUE] /\ stored' = Persist(ui)
                            \/ ui' = [Over(ui) EXCEPT !.modal = "hint", !.hintSeen = TRUE] /\ stored' = Persist(ui)
  BY DEF HandleDialDone, HandleForwardDone
<1>3. UNCHANGED <<host, known, eng, imported>>
  BY DEF HandleDialDone, HandleForwardDone
<1>4. Persist(ui) \in Passwords
  BY <1>1 DEF Persist, Ui
<1>5. PICK u : u = Over(ui)
  OBVIOUS
<1>6. u \in Ui /\ u.dialing = NoDial /\ u.cancel = NoDial
  BY <1>1, <1>5 DEF Over, Ui, Passwords, Nothing
<1>7. ui' \in Ui /\ ui'.dialing = NoDial /\ ui'.cancel = NoDial
  <2>1. CASE ui' = DialErr(u, m.err)
    BY <1>6, <2>1 DEF DialErr, Ui
  <2>2. CASE ui' = [u EXCEPT !.modal = Nothing, !.attached = TRUE]
    BY <1>6, <2>2 DEF Ui, Nothing
  <2>3. CASE ui' = [u EXCEPT !.modal = "hint", !.hintSeen = TRUE]
    BY <1>6, <2>3 DEF Ui
  <2> QED BY <1>2, <1>5, <2>1, <2>2, <2>3
<1>8. stored' \in Passwords
  BY <1>1, <1>2, <1>4
<1> QED BY <1>2, <1>3, <1>7, <1>8, ResultKeeps

LEMMA SpecIs ==
  ASSUME TypeOK, NEW kind
  PROVE  HostSpec(kind) \in [keys : Seq(Source), bound : BOOLEAN, agent : BOOLEAN, password : Passwords]
<1>1. host \in Setup /\ stored \in Passwords
  BY SetupIs DEF TypeOK
<1>2. host.vault \in Seq(Source) /\ host.useAgent \in BOOLEAN /\ host.mode \in {"key", "password"}
  BY <1>1 DEF Setup
<1>3. VaultKeySpecs.keys \in Seq(Source) /\ VaultKeySpecs.bound \in BOOLEAN
  <2>1. PICK mine : mine = {i \in DOMAIN host.vault : host.vault[i].key = host.bound}
    OBVIOUS
  <2>2. CASE host.mode = "password"
    <3>1. VaultKeySpecs = [keys |-> <<>>, bound |-> FALSE]
      BY <2>2 DEF VaultKeySpecs
    <3> QED BY <3>1
  <2>3. CASE host.mode = "key" /\ mine # {}
    <3>1. PICK c : c = CHOOSE i \in mine : TRUE
      OBVIOUS
    <3>2. c \in mine
      BY <2>3, <3>1
    <3>3. host.vault[c] \in Source
      BY <1>2, <2>1, <3>2
    <3>4. VaultKeySpecs = [keys |-> <<host.vault[c]>>, bound |-> TRUE]
      BY <2>1, <2>3, <3>1 DEF VaultKeySpecs
    <3>5. <<host.vault[c]>> \in Seq(Source)
      BY <3>3
    <3> QED BY <3>4, <3>5
  <2>4. CASE host.mode = "key" /\ mine = {}
    <3>1. VaultKeySpecs = [keys |-> host.vault, bound |-> FALSE]
      BY <2>1, <2>4 DEF VaultKeySpecs
    <3> QED BY <1>2, <3>1
  <2> QED BY <1>2, <2>2, <2>3, <2>4
<1>4. PICK s : s = [keys |-> VaultKeySpecs.keys, bound |-> VaultKeySpecs.bound,
                    agent |-> host.useAgent, password |-> stored]
  OBVIOUS
<1>5. s \in [keys : Seq(Source), bound : BOOLEAN, agent : BOOLEAN, password : Passwords]
  BY <1>1, <1>2, <1>3, <1>4
<1>6. HostSpec(kind) = s \/ HostSpec(kind) = [s EXCEPT !.bound = FALSE, !.agent = TRUE]
  BY <1>4 DEF HostSpec, SpecToWire
<1> QED BY <1>5, <1>6

LEMMA ForgottenIs ==
  ASSUME NEW e, NEW k, Good(e, k)
  PROVE  Good(Forgotten(e), k) /\ Forgotten(e).pc = e.pc
<1>1. CASE e.pc = "done"
  <2>1. PICK x : x = [Idle EXCEPT !.pc = "done", !.kind = e.kind, !.ctx = e.ctx,
                                  !.won = e.won, !.merr = e.merr, !.round = MaxRounds]
    OBVIOUS
  <2>2. e \in Dialer /\ MaxRounds \in 0..MaxRounds
    BY DialAssumption DEF Good
  <2>3. x \in Dialer
    BY <2>1, <2>2, IdleIs DEF Dialer
  <2>4. /\ x.offers = <<>> /\ x.asked = <<>> /\ x.signers = <<>> /\ x.batch = <<>> /\ ~x.built
        /\ x.offset = 0 /\ x.tries <= 1 /\ x.pc = "done" /\ ~x.db
    BY <2>1, IdleIs DEF Dialer
  <2>5. Good(x, k)
    BY <2>3, <2>4, FreshIs
  <2>6. Forgotten(e) = x
    BY <1>1, <2>1 DEF Forgotten
  <2> QED BY <1>1, <2>4, <2>5, <2>6
<1>2. CASE e.pc # "done"
  BY <1>2 DEF Forgotten
<1> QED BY <1>1, <1>2

LEMMA StartKeeps ==
  ASSUME IInv, NEW kind \in {"session", "forward"}, StartDial(kind)
  PROVE  IInv'
<1>1. TypeOK /\ (\A d \in Dials : Good(eng[d], known)) /\ ui \in Ui /\ inbox \subseteq Prompt \union Done
  BY DEF IInv, TypeOK
<1>2. PICK d \in Dials :
        /\ eng' = [[c \in Dials |-> Forgotten(eng[c])] EXCEPT
                       ![d] = [Idle EXCEPT !.pc = "tcp", !.kind = kind, !.round = 1,
                                           !.tries = 1, !.spec = HostSpec(kind)]]
        /\ ui' = [ui EXCEPT !.modal = "connecting", !.dialing = d, !.cancel = d]
  BY DEF StartDial
<1>3. PICK x : x = [Idle EXCEPT !.pc = "tcp", !.kind = kind, !.round = 1, !.tries = 1, !.spec = HostSpec(kind)]
  OBVIOUS
<1>4. Good(x, known) /\ x.pc = "tcp"
  <2>1. PICK s \in [keys : Seq(Source), bound : BOOLEAN, agent : BOOLEAN, password : Passwords] : s = HostSpec(kind)
    BY <1>1, SpecIs
  <2>2. x = [Idle EXCEPT !.pc = "tcp", !.kind = kind, !.round = 1, !.tries = 1, !.spec = s]
    BY <1>3, <2>1
  <2>3. 1 \in 0..MaxRounds /\ "tcp" \in Active
    BY DialAssumption DEF Active
  <2>4. x \in Dialer
    BY <2>2, <2>3, IdleIs DEF Dialer
  <2>5. /\ x.offers = <<>> /\ x.asked = <<>> /\ x.signers = <<>> /\ x.batch = <<>> /\ ~x.built
        /\ x.offset = 0 /\ x.tries = 1 /\ x.round = 1 /\ x.pc = "tcp" /\ ~x.db /\ x.kind = kind
    BY <2>2, IdleIs DEF Dialer
  <2>6. kind # Nothing
    BY DEF Nothing
  <2> QED BY <2>4, <2>5, <2>6, FreshIs
<1>5. ASSUME NEW c \in Dials
      PROVE  Good(eng'[c], known) /\ (c # d => eng'[c].pc = eng[c].pc)
  <2>1. CASE c = d
    BY <1>2, <1>3, <1>4, <2>1
  <2>2. CASE c # d
    <3>1. eng'[c] = Forgotten(eng[c])
      BY <1>2, <2>2
    <3> QED BY <1>1, <3>1, ForgottenIs
  <2> QED BY <2>1, <2>2
<1>6. eng' \in [Dials -> Dialer]
  <2>1. \A c \in Dials : eng'[c] \in Dialer
    BY <1>5 DEF Good
  <2>2. eng' = [c \in Dials |-> eng'[c]]
    BY <1>2
  <2> QED BY <2>1, <2>2
<1>7. ui' \in Ui /\ ui'.dialing = d /\ ui'.cancel = d /\ ui'.modal = "connecting"
  BY <1>1, <1>2 DEF Ui
<1>8. UNCHANGED <<host, known, stored, inbox, imported>> /\ ui.modal = Nothing
  BY DEF StartDial
<1>9. TypeOK'
  BY <1>1, <1>6, <1>7, <1>8 DEF TypeOK
<1>10. Recorded => Recorded'
  <2> SUFFICES ASSUME Recorded PROVE Recorded'
    OBVIOUS
  <2>1. ui.dialing = NoDial
    BY <1>8 DEF Recorded, Nothing
  <2>2. \A c \in Dials : eng[c].pc \notin Active
    BY <2>1 DEF Recorded, Dials, NoDial
  <2>3. \A m \in inbox : m.type # "done"
    BY <1>1, <2>1 DEF Recorded, Prompt, Done, Dials, NoDial
  <2>4. \A c \in Dials : eng'[c].pc \in Active => c = d
    BY <1>5, <2>2
  <2> QED BY <1>7, <1>8, <2>3, <2>4 DEF Recorded
<1> QED BY <1>5, <1>8, <1>9, <1>10, Straight DEF IInv

LEMMA EscKeeps ==
  ASSUME IInv, ConnectingKey
  PROVE  IInv'
<1>1. /\ TypeOK /\ (\A c \in Dials : Good(eng[c], known)) /\ ui \in Ui /\ inbox \subseteq Prompt \union Done
      /\ eng \in [Dials -> Dialer]
  BY DEF IInv, TypeOK
<1>2. PICK d \in Dials : d = ui.cancel
  BY <1>1 DEF ConnectingKey, Ui
<1>3. UNCHANGED <<host, known, stored, ui, imported>>
  BY DEF ConnectingKey
<1>4. CASE /\ eng[d].pc \notin {"done", "gone"}
           /\ eng' = [eng EXCEPT ![d] = [Idle EXCEPT !.pc = "gone", !.kind = "session", !.ctx = TRUE]]
           /\ inbox' = inbox \union {Report(d, "session", "canceled")}
  <2>1. PICK x : x = [Idle EXCEPT !.pc = "gone", !.kind = "session", !.ctx = TRUE]
    OBVIOUS
  <2>2. /\ x.offers = <<>> /\ x.asked = <<>> /\ x.signers = <<>> /\ x.batch = <<>> /\ ~x.built
        /\ x.offset = 0 /\ x.tries = 0 /\ x.round = 0 /\ x.pc = "gone" /\ ~x.db /\ x \in Dialer
    BY <2>1, IdleIs DEF Dialer
  <2>3. Good(x, known)
    BY <2>2, FreshIs
  <2>4. eng' \in [Dials -> Dialer] /\ eng'[d] = x /\ \A c \in Dials \ {d} : eng'[c] = eng[c]
    BY <1>1, <1>4, <2>1, <2>2
  <2>5. \A c \in Dials : Good(eng'[c], known)
    BY <1>1, <2>3, <2>4
  <2>6. PICK m \in Done : m.dial = d /\ inbox' = inbox \union {m}
    BY <1>4 DEF Report, Done, Errs
  <2>7. TypeOK'
    BY <1>1, <1>3, <2>4, <2>6 DEF TypeOK
  <2>8. Recorded => Recorded'
    <3> SUFFICES ASSUME Recorded PROVE Recorded'
      OBVIOUS
    <3>1. ui.dialing = d
      BY <1>2 DEF Recorded
    <3>2. \A n \in inbox : n.type # "done"
      BY <1>4, <3>1 DEF Recorded
    <3>3. \A c \in Dials : eng'[c].pc \in Active => ui.dialing = c
      BY <2>4, <3>1, <2>2 DEF Recorded, Active
    <3>4. \A n \in inbox' : n.type = "done" => n = m
      BY <2>6, <3>2
    <3> QED BY <1>3, <2>2, <2>4, <2>6, <3>1, <3>3, <3>4 DEF Recorded
  <2> QED BY <1>3, <2>5, <2>7, <2>8, Straight DEF IInv
<1>5. CASE eng' = [eng EXCEPT ![d].ctx = TRUE] /\ UNCHANGED inbox
  <2>1. PICK x : x = [eng[d] EXCEPT !.ctx = TRUE]
    OBVIOUS
  <2>2. PICK e \in Dialer : e = eng[d] /\ Good(e, known)
    BY <1>1
  <2>3. x \in Dialer
    BY <2>1, <2>2 DEF Dialer
  <2>4. /\ x.pc = e.pc /\ x.batch = e.batch /\ x.asked = e.asked /\ x.kind = e.kind
        /\ x.offers = e.offers /\ x.db = e.db /\ x.err = e.err /\ x.built = e.built /\ x.signers = e.signers
        /\ x.offset = e.offset /\ x.round = e.round /\ x.tried = e.tried /\ x.tries = e.tries
        /\ x.about = e.about /\ x.merr = e.merr /\ x.todo = e.todo
    BY <2>1, <2>2 DEF Dialer
  <2>5. Trusted(x, known)
    BY <2>2, <2>4 DEF Good, Trusted, Trusting
  <2>6. Ringing(e) => Ringing(x)
    BY <2>4 DEF Ringing, Collected, Collecting, Offering, Moved, Exhausted
  <2>7. Good(x, known)
    BY <2>2, <2>3, <2>4, <2>5, <2>6 DEF Good
  <2>8. eng' = [eng EXCEPT ![d] = x]
    BY <1>1, <1>5, <2>1
  <2>9. eng' \in [Dials -> Dialer] /\ \A c \in Dials : Good(eng'[c], known) /\ eng'[c].pc = eng[c].pc
    BY <1>1, <2>2, <2>3, <2>4, <2>7, <2>8
  <2>10. TypeOK'
    BY <1>1, <1>3, <1>5, <2>9 DEF TypeOK
  <2>11. \A m \in inbox : m.type = "done" => m.dial \in Dials
    BY <1>1 DEF Prompt, Done
  <2>12. Recorded => Recorded'
    BY <1>3, <1>5, <2>9, <2>11 DEF Recorded
  <2> QED BY <1>3, <2>9, <2>10, <2>12, Straight DEF IInv
<1> QED BY <1>2, <1>4, <1>5 DEF ConnectingKey

\* The keys that change a field of the UI and nothing else.
LEMMA FieldsKeep ==
  ASSUME IInv, SecretRemember \/ SessionHintKey \/ HandleDetached \/ HandleImportDone \/ Dismiss
  PROVE  IInv'
<1>1. TypeOK /\ ui \in Ui /\ (\A c \in Dials : Good(eng[c], known))
  BY DEF IInv, TypeOK
<1>2. UNCHANGED <<host, known, stored, eng, inbox>> /\ imported' \in BOOLEAN
  BY <1>1 DEF SecretRemember, SessionHintKey, HandleDetached, HandleImportDone, Dismiss, TypeOK
<1>3. /\ ui' \in Ui /\ ui'.dialing = ui.dialing /\ ui'.cancel = ui.cancel
      /\ imported' \/ (imported' = imported /\ (ui'.modal = ui.modal \/ ui.modal \in {"hint", "import", "error"}))
  <2>1. CASE SecretRemember
    BY <1>1, <2>1 DEF SecretRemember, Ui
  <2>2. CASE SessionHintKey
    <3>1. PICK hand \in BOOLEAN : ui' = [ui EXCEPT !.modal = Nothing, !.attached = hand]
      BY <2>2 DEF SessionHintKey
    <3> QED BY <1>1, <2>2, <3>1 DEF SessionHintKey, Ui, Nothing
  <2>3. CASE HandleDetached
    BY <1>1, <2>3 DEF HandleDetached, Ui
  <2>4. CASE HandleImportDone
    BY <1>1, <2>4 DEF HandleImportDone, Ui, Covered
  <2>5. CASE Dismiss
    BY <1>1, <2>5 DEF Dismiss, Ui, Nothing, Covered
  <2> QED BY <2>1, <2>2, <2>3, <2>4, <2>5
<1>4. TypeOK'
  BY <1>1, <1>2, <1>3 DEF TypeOK
<1>5. ASSUME ~imported' PROVE Recorded'
  <2>1. Recorded
    BY <1>3, <1>5 DEF IInv
  <2>2. ui.modal \in {"hint", "import", "error"} => ui.dialing = NoDial
    BY <2>1 DEF Recorded
  <2> QED BY <1>2, <1>3, <1>5, <2>1, <2>2 DEF Recorded
<1> QED BY <1>1, <1>2, <1>4, <1>5, Straight

LEMMA StepInv ==
  /\ Init => IInv
  /\ IInv /\ [Next]_vars => IInv'
<1>1. Init => IInv
  BY InitIs
<1>2. ASSUME IInv, Next PROVE IInv'
  <2>1. ASSUME NEW d \in Dials, Engine(d) PROVE IInv'
    BY <1>2, <2>1, EngineKeeps
  <2>2. ASSUME NEW kind \in {"session", "forward"}, StartDial(kind) PROVE IInv'
    BY <1>2, <2>2, StartKeeps
  <2>3. CASE Handle
    BY <1>2, <2>3, PromptKeeps, DoneKeeps DEF Handle
  <2>4. CASE HostKeyModalKey \/ SecretEnter \/ SecretEsc
    BY <1>2, <2>4, ModalKeysKeep
  <2>5. CASE ConnectingKey
    BY <1>2, <2>5, EscKeeps
  <2>6. CASE SecretRemember \/ SessionHintKey \/ HandleDetached \/ HandleImportDone \/ Dismiss
    BY <1>2, <2>6, FieldsKeep
  <2> QED BY <1>2, <2>1, <2>2, <2>3, <2>4, <2>5, <2>6 DEF Next
<1>3. ASSUME IInv, UNCHANGED vars PROVE IInv'
  <2>1. TypeOK' /\ (\A d \in Dials : Good(eng'[d], known)) /\ (~imported' => Recorded')
    BY <1>3 DEF vars, IInv, TypeOK, Recorded
  <2> QED BY <1>3, <2>1, Straight DEF vars
<1> QED BY <1>1, <1>2, <1>3

-----------------------------------------------------------------------------
(* Theorems *)

\* The invariant of the dials and of the event loop's records holds at the start
\* and is kept by every step of auth.go, dial.go and the UI's handlers.
THEOREM Inductive == Spec => []IInv
BY StepInv, PTL DEF Spec

\* The dials, their messages and the fields of the UI are of the types the
\* source gives them.
THEOREM TypeCorrect == Spec => []TypeOK
<1>1. IInv => TypeOK
  BY DEF IInv
<1> QED BY <1>1, Inductive, PTL

\* hostKeyCallback: whatever the prompts and the redials do, no key, password or
\* keyboard answer is used on a connection whose server key known_hosts does not hold.
THEOREM TrustFirst == Spec => []TrustComesFirst
<1>1. IInv => TrustComesFirst
  <2> SUFFICES ASSUME IInv, NEW d \in Dials, NEW e, e = eng[d]
               PROVE  /\ Trusting(e) => known
                      /\ host.server.key = "changed" => ~Trusting(e) /\ e.asked = <<>>
    BY DEF TrustComesFirst, Trusting
  <2> QED BY DEF IInv, Good, Trusted
<1> QED BY <1>1, Inductive, PTL

\* restoreAfterPrompt: until an import covers the overlay, a dial that waits for
\* an answer has a prompt on its way or an overlay that can answer or cancel it.
THEOREM Answerable == Spec => []AnswerableUnlessCovered
<1>1. IInv => AnswerableUnlessCovered
  <2> SUFFICES ASSUME IInv, ~imported, NEW d \in Dials, Waiting(d) PROVE CanBeMoved(d)
    BY DEF AnswerableUnlessCovered
  <2>1. Recorded /\ eng[d].pc \in Active
    BY DEF IInv, Waiting, Active
  <2>2. ui.dialing = d /\ ui.cancel = d /\ d # NoDial
    BY <2>1 DEF Recorded, Dials, NoDial
  <2>3. ui.modal \in {"connecting", "hostkey", "secret"}
    BY <2>1, <2>2 DEF Recorded
  <2> QED BY <2>2, <2>3 DEF CanBeMoved
<1> QED BY <1>1, Inductive, PTL

\* keyBatchSize and connect's redial loop, against a server that lets a whole batch
\* be tried: the offers of a dial are the keys it collected, in order and none
\* twice, and it calls a host hopeless only when all were offered or the rounds are spent.
THEOREM TriedBeforeHopeless ==
  ASSUME \A s \in Setups : s.server.limit > BatchSize
  PROVE  Spec => []HopelessOnlyWhenTried
<1>1. IInv => HopelessOnlyWhenTried
  <2> SUFFICES ASSUME IInv, NEW d \in Dials, NEW e, e = eng[d], e.err = Nothing
               PROVE  /\ e.built => e.offers \o e.batch = SubSeq(e.signers, 1, e.offset)
                      /\ e.pc = "done" /\ e.merr \in HasMoreWorthy => Exhausted(e)
    BY DEF HopelessOnlyWhenTried
  <2>1. Patient
    BY DEF Patient, IInv, TypeOK
  <2>2. Collected(e) /\ Offering(e)
    BY <2>1 DEF IInv, Good, Ringing
  <2> QED BY <2>2 DEF Collected, Offering
<1> QED BY <1>1, Inductive, PTL
=============================================================================
