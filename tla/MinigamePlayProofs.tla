-------------------------- MODULE MinigamePlayProofs --------------------------
(***************************************************************************)
(* The games of a round and the special game.  No action is applied twice, *)
(* however the connections repeat, delay and reorder messages.  Turns are  *)
(* taken one after the other, answers and prompts are shown to nobody else *)
(* before they may be, and the screens offer what the games accept.        *)
(***************************************************************************)
EXTENDS GameScreens, FiniteSetTheorems, TLAPS

-----------------------------------------------------------------------------
(* The messages.  A player's messages are numbered, none above the last    *)
(* one applied has been applied, and only such a one is applied.  The      *)
(* remembered actionIds are not needed for it.                             *)

\* One entry of `applied` for each message a player has sent, the sequence number
\* last applied among them; messages under way were sent.
Bookkeeping ==
    /\ sent \in [Player -> Nat] /\ lastSeq \in [Player -> Nat]
    /\ applied \in [Player -> Seq(Nat)]
    /\ \A p \in Player : Len(applied[p]) = sent[p] /\ lastSeq[p] <= sent[p]
    /\ \A m \in wire : m.player \in Player => m.seq \in 1 .. sent[m.player]

\* What is applied is applied once, and what is above the last one not at all.
AppliedInOrder ==
    \A p \in Player : \A n \in 1 .. sent[p] :
        applied[p][n] <= 1 /\ (n > lastSeq[p] => applied[p][n] = 0)

PlayInv == Bookkeeping /\ AppliedInOrder

\* The variables the invariant is about.
bookVars == <<wire, sent, lastSeq, applied>>

\* Nothing has been sent at first.
LEMMA PlayInit == Init => PlayInv
<1> SUFFICES ASSUME Init PROVE PlayInv
  OBVIOUS
<1>1. \A p \in Player : applied[p] = <<>> /\ sent[p] = 0 /\ lastSeq[p] = 0
  BY DEF Init
<1> QED BY <1>1 DEF Init, PlayInv, Bookkeeping, AppliedInOrder

\* A message that is sent has the next number, and an entry of its own.
LEMMA SendStep ==
    ASSUME PlayInv, NEW p, NEW a, Send(p, a) PROVE PlayInv'
<1> DEFINE message == [player |-> p, phaseId |-> phaseId, seq |-> sent[p] + 1, action |-> a]
<1>1. /\ sent' = [sent EXCEPT ![p] = @ + 1]
      /\ wire' = wire \cup {message}
      /\ applied' = [applied EXCEPT ![p] = Append(@, 0)]
      /\ lastSeq' = lastSeq
  BY DEF Send
<1>2. ASSUME p \in Player, NEW n \in 1 .. sent'[p]
      PROVE  applied'[p][n] = IF n = sent[p] + 1 THEN 0 ELSE applied[p][n]
  <2>1. applied'[p] = Append(applied[p], 0) /\ Len(applied[p]) = sent[p] /\ sent[p] \in Nat
    BY <1>1, <1>2 DEF PlayInv, Bookkeeping
  <2>2. n \in 1 .. sent[p] + 1
    BY <1>1, <1>2 DEF PlayInv, Bookkeeping
  <2> QED BY <2>1, <2>2, <1>2 DEF PlayInv, Bookkeeping
<1>3. Bookkeeping'
  <2>1. /\ sent' \in [Player -> Nat] /\ lastSeq' \in [Player -> Nat]
        /\ applied' \in [Player -> Seq(Nat)]
    <3>1. sent' \in [Player -> Nat] /\ lastSeq' \in [Player -> Nat]
      <4>1. sent \in [Player -> Nat] /\ (p \in Player => sent[p] + 1 \in Nat)
        BY DEF PlayInv, Bookkeeping
      <4>2. sent' \in [Player -> Nat]
        BY <1>1, <4>1
      <4> QED BY <1>1, <4>2 DEF PlayInv, Bookkeeping
    <3>2. p \in Player => Append(applied[p], 0) \in Seq(Nat)
      BY DEF PlayInv, Bookkeeping
    <3> QED BY <1>1, <3>1, <3>2 DEF PlayInv, Bookkeeping
  <2>2. ASSUME NEW q \in Player PROVE Len(applied'[q]) = sent'[q] /\ lastSeq'[q] <= sent'[q]
    <3>1. CASE q = p
      <4>1. applied'[q] = Append(applied[q], 0) /\ sent'[q] = sent[q] + 1
        BY <1>1, <3>1 DEF PlayInv, Bookkeeping
      <4>2. applied[q] \in Seq(Nat) /\ Len(applied[q]) = sent[q] /\ lastSeq[q] <= sent[q]
            /\ sent[q] \in Nat /\ lastSeq[q] \in Nat
        BY DEF PlayInv, Bookkeeping
      <4> QED BY <1>1, <4>1, <4>2
    <3>2. CASE q # p
      BY <1>1, <3>2 DEF PlayInv, Bookkeeping
    <3> QED BY <3>1, <3>2
  <2>3. ASSUME NEW m \in wire', m.player \in Player PROVE m.seq \in 1 .. sent'[m.player]
    <3>1. CASE m \in wire
      <4>1. m.seq \in 1 .. sent[m.player]
        BY <2>3, <3>1 DEF PlayInv, Bookkeeping
      <4>2. sent[m.player] \in Nat /\ sent'[m.player] \in {sent[m.player], sent[m.player] + 1}
        BY <1>1, <2>3 DEF PlayInv, Bookkeeping
      <4> QED BY <4>1, <4>2
    <3>2. CASE m = message
      <4>1. m.player = p /\ m.seq = sent[p] + 1
        BY <3>2
      <4>2. p \in Player /\ sent[p] \in Nat /\ sent'[p] = sent[p] + 1
        BY <1>1, <2>3, <4>1 DEF PlayInv, Bookkeeping
      <4> QED BY <4>1, <4>2
    <3> QED BY <1>1, <2>3, <3>1, <3>2
  <2> QED BY <2>1, <2>2, <2>3 DEF Bookkeeping
<1>4. AppliedInOrder'
  <2> SUFFICES ASSUME NEW q \in Player, NEW n \in 1 .. sent'[q]
               PROVE  applied'[q][n] <= 1 /\ (n > lastSeq'[q] => applied'[q][n] = 0)
    BY DEF AppliedInOrder
  <2>1. CASE q = p
    <3>1. sent[q] \in Nat /\ sent'[q] = sent[q] + 1
      BY <1>1, <2>1 DEF PlayInv, Bookkeeping
    <3>2. applied'[q][n] = IF n = sent[q] + 1 THEN 0 ELSE applied[q][n]
      BY <1>2, <2>1
    <3>3. n # sent[q] + 1 => n \in 1 .. sent[q]
      BY <3>1
    <3>4. lastSeq' = lastSeq
      BY <1>1
    <3> QED BY <3>2, <3>3, <3>4 DEF PlayInv, AppliedInOrder
  <2>2. CASE q # p
    <3>1. sent'[q] = sent[q] /\ applied'[q] = applied[q]
      BY <1>1, <2>2 DEF PlayInv, Bookkeeping
    <3> QED BY <1>1, <3>1 DEF PlayInv, AppliedInOrder
  <2> QED BY <2>1, <2>2
<1> QED BY <1>3, <1>4 DEF PlayInv

\* A message that is applied is above the last one, and becomes the last one.
LEMMA AcceptStep ==
    ASSUME PlayInv, NEW m \in wire, Accept(m) PROVE PlayInv'
<1> DEFINE p == m.player
<1>1. /\ m.seq > lastSeq[p]
      /\ lastSeq' = [lastSeq EXCEPT ![p] = m.seq]
      /\ applied' = [applied EXCEPT ![p][m.seq] = @ + 1]
      /\ wire' = wire /\ sent' = sent
  BY DEF Accept, IsFresh
<1>2. CASE p \notin Player
  <2>1. lastSeq' = lastSeq /\ applied' = applied
    BY <1>1, <1>2 DEF PlayInv, Bookkeeping
  <2> QED BY <1>1, <2>1 DEF PlayInv, Bookkeeping, AppliedInOrder
<1>3. CASE p \in Player
  <2>1. /\ m.seq \in 1 .. sent[p] /\ sent[p] \in Nat /\ lastSeq[p] \in Nat
        /\ applied[p] \in Seq(Nat) /\ Len(applied[p]) = sent[p]
    BY <1>3 DEF PlayInv, Bookkeeping
  <2>2. applied[p][m.seq] = 0
    BY <1>1, <1>3, <2>1 DEF PlayInv, AppliedInOrder
  <2>3. /\ applied'[p] = [applied[p] EXCEPT ![m.seq] = 1]
        /\ \A q \in Player \ {p} : applied'[q] = applied[q]
    <3>1. applied' = [applied EXCEPT ![p] = [applied[p] EXCEPT ![m.seq] = applied[p][m.seq] + 1]]
      BY <1>1
    <3>2. DOMAIN applied = Player
      BY DEF PlayInv, Bookkeeping
    <3>3. applied[p][m.seq] + 1 = 1
      BY <2>2
    <3>4. applied' = [applied EXCEPT ![p] = [applied[p] EXCEPT ![m.seq] = 1]]
      BY <3>1, <3>3
    <3> HIDE DEF p
    <3> QED BY <1>3, <3>2, <3>4
  <2>4. applied'[p] \in Seq(Nat) /\ Len(applied'[p]) = sent[p]
    BY <2>1, <2>3
  <2>5. Bookkeeping'
    <3>1. applied' \in [Player -> Seq(Nat)]
      <4>1. DOMAIN applied' = Player /\ applied' = [q \in Player |-> applied'[q]]
        BY <1>1, <1>3 DEF PlayInv, Bookkeeping
      <4>2. \A q \in Player : applied'[q] \in Seq(Nat)
        BY <2>3, <2>4 DEF PlayInv, Bookkeeping
      <4> QED BY <4>1, <4>2
    <3>2. lastSeq' \in [Player -> Nat] /\ \A q \in Player : lastSeq'[q] <= sent[q]
      <4>1. m.seq \in Nat /\ m.seq <= sent[p]
        BY <2>1
      <4>2. lastSeq \in [Player -> Nat] /\ \A q \in Player : lastSeq[q] <= sent[q]
        BY DEF PlayInv, Bookkeeping
      <4>3. lastSeq' \in [Player -> Nat]
        BY <1>1, <4>1, <4>2
      <4>4. ASSUME NEW q \in Player PROVE lastSeq'[q] <= sent[q]
        <5>1. lastSeq'[q] = IF q = p THEN m.seq ELSE lastSeq[q]
          BY <1>1, <4>2
        <5> QED BY <4>1, <4>2, <5>1
      <4> QED BY <4>3, <4>4
    <3>3. \A q \in Player : Len(applied'[q]) = sent[q]
      BY <2>3, <2>4 DEF PlayInv, Bookkeeping
    <3> QED BY <1>1, <3>1, <3>2, <3>3 DEF PlayInv, Bookkeeping
  <2>6. AppliedInOrder'
    <3> SUFFICES ASSUME NEW q \in Player, NEW n \in 1 .. sent[q]
                 PROVE  applied'[q][n] <= 1 /\ (n > lastSeq'[q] => applied'[q][n] = 0)
      BY <1>1 DEF AppliedInOrder
    <3>1. CASE q = p
      <4>1. applied'[q][n] = IF n = m.seq THEN 1 ELSE applied[q][n]
        BY <2>1, <2>3, <3>1
      <4>2. lastSeq'[q] = m.seq
        BY <1>1, <1>3, <3>1 DEF PlayInv, Bookkeeping
      <4>3. applied[q][n] <= 1 /\ (n > lastSeq[q] => applied[q][n] = 0)
        BY DEF PlayInv, AppliedInOrder
      <4>4. n > m.seq => n # m.seq /\ n > lastSeq[q]
        BY <1>1, <2>1, <3>1
      <4> QED BY <4>1, <4>2, <4>3, <4>4
    <3>2. CASE q # p
      <4>1. applied'[q] = applied[q] /\ lastSeq'[q] = lastSeq[q]
        BY <1>1, <2>3, <3>2 DEF PlayInv, Bookkeeping
      <4> QED BY <4>1 DEF PlayInv, AppliedInOrder
    <3> QED BY <3>1, <3>2
  <2> QED BY <2>5, <2>6 DEF PlayInv
<1> QED BY <1>2, <1>3

\* All other steps leave the bookkeeping alone, or lose a message.
LEMMA PlayStep == ASSUME PlayInv, [Next]_vars PROVE PlayInv'
<1>1. ASSUME UNCHANGED bookVars PROVE PlayInv'
  BY <1>1 DEF bookVars, PlayInv, Bookkeeping, AppliedInOrder
<1>2. ASSUME NEW m \in wire, Lose(m) PROVE PlayInv'
  <2>1. wire' \subseteq wire /\ sent' = sent /\ lastSeq' = lastSeq /\ applied' = applied
    BY <1>2 DEF Lose
  <2> QED BY <2>1 DEF PlayInv, Bookkeeping, AppliedInOrder
<1>3. ASSUME NEW kind \in Kinds, ProceedToInstructions(kind) PROVE UNCHANGED bookVars
  BY <1>3 DEF ProceedToInstructions, bookVars
<1>4. ASSUME InstructionsOver \/ SpecialIntroOver PROVE UNCHANGED bookVars
  BY <1>4 DEF InstructionsOver, SpecialIntroOver, bookVars
<1>5. ASSUME TimerExpired \/ HostForceEnd PROVE UNCHANGED bookVars
  BY <1>5 DEF TimerExpired, HostForceEnd, bookVars
<1>6. ASSUME UNCHANGED vars PROVE UNCHANGED bookVars
  BY <1>6 DEF vars, bookVars
<1> QED BY <1>1, <1>2, <1>3, <1>4, <1>5, <1>6, SendStep, AcceptStep DEF Next

\* No action is applied twice.
THEOREM ActionsAppliedOnce == Spec => []AppliedOnce
<1>1. PlayInv => AppliedOnce
  <2> SUFFICES ASSUME PlayInv, NEW p \in Player, NEW n \in DOMAIN applied[p]
               PROVE  applied[p][n] <= 1
    BY DEF AppliedOnce
  <2>1. n \in 1 .. sent[p]
    BY DEF PlayInv, Bookkeeping
  <2> QED BY <2>1 DEF PlayInv, AppliedInOrder
<1> QED BY <1>1, PlayInit, PlayStep, PTL DEF Spec

-----------------------------------------------------------------------------
(* The states a game can be in *)

\* f is a function on set: of a player, or a record of these fields.
IsOver(f, set) == f = [x \in set |-> f[x]]

\* Orders of all cards are dealt.
RankItGame(g) ==
    /\ IsOver(g, {"kind", "people", "prompts", "orders", "given", "status"})
    /\ g.kind = "RANK_IT" /\ g.status \in {"ACTIVE", "COMPLETED"}
    /\ \A p \in g.people : IsOrder(g.orders[p])
    /\ IsOver(g.prompts, g.people) /\ IsOver(g.given, g.people)

\* Everybody has a prompt and may have given an answer.
CompleteItGame(g) ==
    /\ IsOver(g, {"kind", "people", "prompts", "given", "status"})
    /\ g.kind = "COMPLETE_IT" /\ g.status \in {"ACTIVE", "COMPLETED"}
    /\ IsOver(g.prompts, g.people) /\ IsOver(g.given, g.people)

\* The same.
DrawItGame(g) ==
    /\ IsOver(g, {"kind", "people", "prompts", "given", "status"})
    /\ g.kind = "DRAW_IT" /\ g.status \in {"ACTIVE", "COMPLETED"}
    /\ IsOver(g.prompts, g.people) /\ IsOver(g.given, g.people)

\* The selected ones do not vote, and have not predicted before the audience has voted.
PredictThemGame(g) ==
    /\ IsOver(g, {"kind", "people", "selected", "audience", "prompts", "given", "step"})
    /\ g.kind = "PREDICT_THEM" /\ g.step \in {"AUDIENCE_VOTE", "PREDICTION", "COMPLETED"}
    /\ IsOver(g.prompts, g.selected) /\ IsOver(g.given, g.people)
    /\ g.selected \subseteq g.people /\ g.audience = g.people \ g.selected
    /\ g.step = "AUDIENCE_VOTE" => \A p \in g.selected : g.given[p] = NoAnswer

\* Everybody is in the order, and nobody twice.
IsRota(order, people) ==
    /\ order \in Seq(people)
    /\ \A p \in people : \E i \in 1 .. Len(order) : order[i] = p
    /\ \A i, j \in 1 .. Len(order) : order[i] = order[j] => i = j

\* Those before the one on stage have had their turns, and no one else.
DescribeItGame(g) ==
    /\ IsOver(g, {"kind", "people", "prompts", "step", "order", "index", "turns"})
    /\ g.kind = "DESCRIBE_IT"
    /\ IsOver(g.prompts, g.people)
    /\ IsOver(g.turns, g.people)
    /\ IsRota(g.order, g.people)
    /\ g.index \in 1 .. Len(g.order) + 1
    /\ \A i \in 1 .. Len(g.order) : (g.turns[g.order[i]] # NoAnswer) <=> (i < g.index)
    /\ (g.step = "COMPLETED") <=> (g.index > Len(g.order))

\* The turn at place i of a game of DEFEND_IT.
IsTurn(g, i) ==
    LET turn == g.turns[g.order[i]]
    IN  /\ i < g.index =>
              /\ turn.question \in {"FINISHED", "TIMEOUT"}
              /\ turn.response \in {"FINISHED", "TIMEOUT"}
        /\ i > g.index => turn = NoTurn
        /\ i = g.index =>
              \/ g.step \in {"PREP", "DEFENCE"} /\ turn = NoTurn
              \/ g.step = "FOLLOW_UP_QUESTION" /\ turn.response = "PENDING"
                 /\ turn.question = "PENDING"
              \/ g.step = "FOLLOW_UP_RESPONSE" /\ turn.response = "PENDING"
                 /\ turn.question \in {"FINISHED", "TIMEOUT"}
        /\ turn = NoTurn \/ turn = [asker |-> g.asks[g.order[i]], defence |-> turn.defence,
                                    question |-> turn.question, response |-> turn.response]

\* As IsTurn says, with another one asking.
DefendItGame(g) ==
    /\ IsOver(g, {"kind", "people", "prompts", "step", "order", "index", "asks", "turns"})
    /\ g.kind = "DEFEND_IT"
    /\ IsOver(g.prompts, g.people)
    /\ IsOver(g.turns, g.people)
    /\ IsRota(g.order, g.people)
    /\ g.index \in 1 .. Len(g.order) + 1
    /\ \A p \in g.people : g.asks[p] # p
    /\ \A i \in 1 .. Len(g.order) : IsTurn(g, i)
    /\ (g.step = "COMPLETED") <=> (g.index > Len(g.order))

\* The last strike ends the game.
BombGame(g) ==
    /\ IsOver(g, {"kind", "people", "operator", "solution", "clues", "board", "progress",
                  "strikes", "status"})
    /\ g.kind = "BOMB_PROTOCOL"
    /\ IsOver(g.solution, {"symbols", "wire", "code"})
    /\ g.board \in {"SYMBOLS", "WIRES", "CODE_SEQUENCE"}
    /\ g.strikes \in 0 .. MaxStrikes
    /\ g.strikes = MaxStrikes => g.status = "FAILURE"

\* A game of one of the kinds, among players of the room.
IsGame(g) ==
    /\ g.people \subseteq Player
    /\ \/ RankItGame(g) \/ CompleteItGame(g) \/ DrawItGame(g) \/ PredictThemGame(g)
       \/ DescribeItGame(g) \/ DefendItGame(g) \/ BombGame(g)

-----------------------------------------------------------------------------
(* What players do *)

\* Changing one value leaves the arguments and the other values of a function.
LEMMA OverExcept ==
    ASSUME NEW f, NEW set, IsOver(f, set), NEW x, NEW v
    PROVE  /\ IsOver([f EXCEPT ![x] = v], set)
           /\ x \in set => [f EXCEPT ![x] = v][x] = v
           /\ \A y \in set : y # x => [f EXCEPT ![x] = v][y] = f[y]
BY DEF IsOver

\* In the games of one answer each, an action adds an answer.
LEMMA RankItKeeps ==
    ASSUME NEW g, RankItGame(g), NEW p, NEW a
    PROVE  RankItGame(RankItAct(g, p, a)) /\ RankItAct(g, p, a).people = g.people
<1> DEFINE given == [g.given EXCEPT ![p] = a.data]
           status == IF AllIn(given) THEN "COMPLETED" ELSE "ACTIVE"
           h == RankItAct(g, p, a)
<1>1. IsOver(given, g.people)
  BY OverExcept DEF RankItGame
<1>2. h = [g EXCEPT !.given = given, !.status = status]
  BY DEF RankItAct
<1>3. status \in {"ACTIVE", "COMPLETED"}
  OBVIOUS
<1> HIDE DEF given, status, h
<1>4. RankItGame(h) /\ h.people = g.people
  BY <1>1, <1>2, <1>3 DEF RankItGame, IsOver
<1> QED BY <1>4 DEF h

\* The same for COMPLETE_IT.
LEMMA CompleteItKeeps ==
    ASSUME NEW g, CompleteItGame(g), NEW p, NEW a
    PROVE  CompleteItGame(CompleteItAct(g, p, a)) /\ CompleteItAct(g, p, a).people = g.people
<1> DEFINE given == [g.given EXCEPT ![p] = NormalizeAnswer(a.data)]
           status == IF AllIn(given) THEN "COMPLETED" ELSE "ACTIVE"
           h == CompleteItAct(g, p, a)
<1>1. IsOver(given, g.people)
  BY OverExcept DEF CompleteItGame
<1>2. h = [g EXCEPT !.given = given, !.status = status]
  BY DEF CompleteItAct
<1>3. status \in {"ACTIVE", "COMPLETED"}
  OBVIOUS
<1> HIDE DEF given, status, h
<1>4. CompleteItGame(h) /\ h.people = g.people
  BY <1>1, <1>2, <1>3 DEF CompleteItGame, IsOver
<1> QED BY <1>4 DEF h

\* The same for DRAW_IT.
LEMMA DrawItKeeps ==
    ASSUME NEW g, DrawItGame(g), NEW p, NEW a
    PROVE  DrawItGame(DrawItAct(g, p, a)) /\ DrawItAct(g, p, a).people = g.people
<1> DEFINE given == [g.given EXCEPT ![p] = a.data]
           status == IF AllIn(given) THEN "COMPLETED" ELSE "ACTIVE"
           h == DrawItAct(g, p, a)
<1>1. IsOver(given, g.people)
  BY OverExcept DEF DrawItGame
<1>2. h = [g EXCEPT !.given = given, !.status = status]
  BY DEF DrawItAct
<1>3. status \in {"ACTIVE", "COMPLETED"}
  OBVIOUS
<1> HIDE DEF given, status, h
<1>4. DrawItGame(h) /\ h.people = g.people
  BY <1>1, <1>2, <1>3 DEF DrawItGame, IsOver
<1> QED BY <1>4 DEF h

\* A vote is not one of the selected players', and a prediction is not made in the step
\* of the votes.
LEMMA PredictThemKeeps ==
    ASSUME NEW g, PredictThemGame(g), NEW p, NEW a, PredictThemValid(g, p, a)
    PROVE  PredictThemGame(PredictThemAct(g, p, a)) /\ PredictThemAct(g, p, a).people = g.people
<1> DEFINE given == [g.given EXCEPT ![p] = a.data]
           step == IF a.type = "SUBMIT_AUDIENCE_VOTE"
                   THEN IF AllOf(g.audience, given) THEN "PREDICTION" ELSE "AUDIENCE_VOTE"
                   ELSE IF AllOf(g.selected, given) THEN "COMPLETED" ELSE "PREDICTION"
           h == PredictThemAct(g, p, a)
<1>1. IsOver(given, g.people) /\ \A q \in g.people : q # p => given[q] = g.given[q]
  BY OverExcept DEF PredictThemGame
<1>2. h = [g EXCEPT !.given = given, !.step = step]
  BY DEF PredictThemAct
<1>3. /\ step = "AUDIENCE_VOTE" => p \in g.audience /\ g.step = "AUDIENCE_VOTE"
      /\ step \in {"AUDIENCE_VOTE", "PREDICTION", "COMPLETED"}
  BY DEF PredictThemValid
<1> HIDE DEF given, step, h
<1>4. /\ IsOver(h, {"kind", "people", "selected", "audience", "prompts", "given", "step"})
      /\ h.given = given /\ h.step = step
      /\ \A field \in {"kind", "people", "selected", "audience", "prompts"} : h[field] = g[field]
  BY <1>2 DEF PredictThemGame, IsOver
<1>5. step = "AUDIENCE_VOTE" => \A q \in g.selected : given[q] = NoAnswer
  BY <1>1, <1>3 DEF PredictThemGame
<1>6. PredictThemGame(h) /\ h.people = g.people
  BY <1>1, <1>3, <1>4, <1>5 DEF PredictThemGame
<1> QED BY <1>6 DEF h

\* A timeout of a game of predictions only changes its step.
LEMMA PredictThemTimeoutKeeps ==
    ASSUME NEW g, PredictThemGame(g)
    PROVE  PredictThemGame(PredictThemTimeout(g)) /\ PredictThemTimeout(g).people = g.people
<1> DEFINE h == PredictThemTimeout(g)
<1>1. \E step \in {"PREDICTION", "COMPLETED"} : h = [g EXCEPT !.step = step]
  BY DEF PredictThemTimeout
<1> HIDE DEF h
<1>2. PredictThemGame(h) /\ h.people = g.people
  BY <1>1 DEF PredictThemGame, IsOver
<1> QED BY <1>2 DEF h

\* The last strike is the failure.
LEMMA AddStrikeKeeps ==
    ASSUME NEW g, BombGame(g)
    PROVE  BombGame(AddStrike(g)) /\ AddStrike(g).people = g.people
<1> DEFINE strikes == IF g.strikes < MaxStrikes THEN g.strikes + 1 ELSE MaxStrikes
           status == IF strikes = MaxStrikes THEN "FAILURE" ELSE "ACTIVE"
           h == AddStrike(g)
<1>1. strikes \in 0 .. MaxStrikes /\ (strikes = MaxStrikes => status = "FAILURE")
  BY MinigamesAssumption DEF BombGame
<1>2. h = [g EXCEPT !.strikes = strikes, !.status = status]
  BY DEF AddStrike
<1> HIDE DEF strikes, status, h
<1>3. BombGame(h) /\ h.people = g.people
  BY <1>1, <1>2 DEF BombGame, IsOver
<1> QED BY <1>3 DEF h

\* Other moves of the operator are made while there is a strike left.
LEMMA BombKeeps ==
    ASSUME NEW g, BombGame(g), NEW p, NEW a, BombValid(g, p, a)
    PROVE  BombGame(BombAct(g, p, a)) /\ BombAct(g, p, a).people = g.people
<1>1. g.strikes # MaxStrikes
  BY DEF BombGame, BombValid
<1>2. ASSUME NEW s PROVE BombGame(PressSymbol(g, s)) /\ PressSymbol(g, s).people = g.people
  <2> DEFINE board == IF g.progress + 1 = Len(g.solution.symbols) THEN "WIRES" ELSE g.board
             h == [g EXCEPT !.progress = g.progress + 1, !.board = board]
  <2>0. board \in {"SYMBOLS", "WIRES", "CODE_SEQUENCE"}
    BY DEF BombGame
  <2>1. PressSymbol(g, s) = IF s # g.solution.symbols[g.progress + 1] THEN AddStrike(g) ELSE h
    BY DEF PressSymbol
  <2> HIDE DEF board
  <2>2. BombGame(h) /\ h.people = g.people
    BY <1>1, <2>0 DEF BombGame, IsOver
  <2> QED BY <2>1, <2>2, AddStrikeKeeps
<1>3. ASSUME NEW w PROVE BombGame(CutWire(g, w)) /\ CutWire(g, w).people = g.people
  <2> DEFINE h == [g EXCEPT !.board = "CODE_SEQUENCE"]
  <2>1. BombGame(h) /\ h.people = g.people
    BY <1>1 DEF BombGame, IsOver
  <2> QED BY <2>1, AddStrikeKeeps DEF CutWire
<1>4. ASSUME NEW c PROVE BombGame(SubmitCode(g, c)) /\ SubmitCode(g, c).people = g.people
  <2> DEFINE h == [g EXCEPT !.status = "SUCCESS"]
  <2>1. BombGame(h) /\ h.people = g.people
    BY <1>1 DEF BombGame, IsOver
  <2> QED BY <2>1, AddStrikeKeeps DEF SubmitCode
<1> QED BY <1>2, <1>3, <1>4 DEF BombAct


-----------------------------------------------------------------------------
(* Turns *)

\* The one on stage is in the order, at no other place.
LEMMA OnStage ==
    ASSUME NEW order, NEW people, IsRota(order, people), NEW k \in 1 .. Len(order)
    PROVE  /\ Len(order) \in Nat /\ order[k] \in people
           /\ \A i \in 1 .. Len(order) : order[i] = order[k] => i = k
           /\ \A i \in 1 .. Len(order) : order[i] \in people
BY DEF IsRota

\* A turn that ends is the one on stage, and the next one is on.
LEMMA AdvanceTurnKeeps ==
    ASSUME NEW g, DescribeItGame(g), NEW r, r # NoAnswer
    PROVE  DescribeItGame(AdvanceTurn(g, r)) /\ AdvanceTurn(g, r).people = g.people
<1> DEFINE now == g.order[g.index]
           turns == [g.turns EXCEPT ![now] = r]
           step == IF g.index = Len(g.order) THEN "COMPLETED" ELSE "SPEAKING"
           h == AdvanceTurn(g, r)
<1>1. CASE g.step = "SPEAKING" /\ g.turns[now] = NoAnswer
  <2>1. h = [g EXCEPT !.turns = turns, !.index = g.index + 1, !.step = step]
    BY <1>1 DEF AdvanceTurn, DescribeItGame, IsOver
  <2>2. Len(g.order) \in Nat /\ g.index \in 1 .. Len(g.order)
    BY <1>1 DEF DescribeItGame, IsRota
  <2>3. /\ now \in g.people
        /\ \A i \in 1 .. Len(g.order) : g.order[i] = now => i = g.index
        /\ \A i \in 1 .. Len(g.order) : g.order[i] \in g.people
    BY <2>2, OnStage DEF DescribeItGame
  <2>4. IsOver(turns, g.people) /\ turns[now] = r
        /\ \A q \in g.people : q # now => turns[q] = g.turns[q]
    <3>1. IsOver(g.turns, g.people)
      BY DEF DescribeItGame
    <3> HIDE DEF now
    <3> QED BY <2>3, <3>1 DEF IsOver
  <2>5. \A i \in 1 .. Len(g.order) : (turns[g.order[i]] # NoAnswer) <=> (i < g.index + 1)
    <3> HIDE DEF now, turns
    <3> SUFFICES ASSUME NEW i \in 1 .. Len(g.order)
                 PROVE  (turns[g.order[i]] # NoAnswer) <=> (i < g.index + 1)
      OBVIOUS
    <3>1. CASE i = g.index
      BY <2>2, <2>4, <3>1 DEF now
    <3>2. CASE i # g.index
      <4>1. turns[g.order[i]] = g.turns[g.order[i]]
        BY <2>3, <2>4, <3>2
      <4>2. (g.turns[g.order[i]] # NoAnswer) <=> (i < g.index)
        BY DEF DescribeItGame
      <4> QED BY <2>2, <3>2, <4>1, <4>2
    <3> QED BY <3>1, <3>2
  <2>6. (step = "COMPLETED") <=> (g.index + 1 > Len(g.order))
    BY <2>2
  <2>7. g.index + 1 \in 1 .. Len(g.order) + 1
    BY <2>2
  <2> HIDE DEF turns, step, h
  <2>8. /\ IsOver(h, {"kind", "people", "prompts", "step", "order", "index", "turns"})
        /\ h.turns = turns /\ h.index = g.index + 1 /\ h.step = step
        /\ \A field \in {"kind", "people", "prompts", "order"} : h[field] = g[field]
    BY <2>1 DEF DescribeItGame, IsOver
  <2>9. h.kind = "DESCRIBE_IT" /\ h.people = g.people /\ h.prompts = g.prompts /\ h.order = g.order
    BY <2>8 DEF DescribeItGame
  <2>10. DescribeItGame(h) /\ h.people = g.people
    BY <2>4, <2>5, <2>6, <2>7, <2>8, <2>9 DEF DescribeItGame
  <2> QED BY <2>10 DEF h
<1>2. CASE ~(g.step = "SPEAKING" /\ g.turns[now] = NoAnswer)
  BY <1>2 DEF AdvanceTurn
<1> QED BY <1>1, <1>2

\* A timeout ends the time to think or a turn.
LEMMA DescribeItTimeoutKeeps ==
    ASSUME NEW g, DescribeItGame(g)
    PROVE  DescribeItGame(DescribeItTimeout(g)) /\ DescribeItTimeout(g).people = g.people
<1>1. CASE g.step = "THINK"
  <2> DEFINE h == [g EXCEPT !.step = "SPEAKING"]
  <2>1. /\ IsOver(h, {"kind", "people", "prompts", "step", "order", "index", "turns"})
        /\ h.step = "SPEAKING"
        /\ h.kind = "DESCRIBE_IT" /\ h.people = g.people /\ h.prompts = g.prompts
        /\ h.order = g.order /\ h.index = g.index /\ h.turns = g.turns
    BY DEF DescribeItGame, IsOver
  <2>2. ~(g.index > Len(g.order))
    BY <1>1 DEF DescribeItGame
  <2> HIDE DEF h
  <2>3. DescribeItGame(h) /\ h.people = g.people
    BY <2>1, <2>2 DEF DescribeItGame
  <2> QED BY <1>1, <2>3 DEF DescribeItTimeout, h
<1>2. CASE g.step # "THINK"
  BY <1>2, AdvanceTurnKeeps, MinigamesAssumption DEF DescribeItTimeout
<1> QED BY <1>1, <1>2

-----------------------------------------------------------------------------
(* DEFEND_IT: a step of the turn on stage *)

\* Two states of one game, which may differ in what a step changes.
Alike(h, g) ==
    /\ IsOver(h, {"kind", "people", "prompts", "step", "order", "index", "asks", "turns"})
    /\ h.kind = g.kind /\ h.people = g.people /\ h.prompts = g.prompts
    /\ h.order = g.order /\ h.asks = g.asks

\* The other turns are not touched by a step of the one on stage; it is enough to look
\* at that one, and at its step.
LEMMA TurnKeeps ==
    ASSUME NEW g, DefendItGame(g), g.index \in 1 .. Len(g.order), NEW turn, NEW h,
           Alike(h, g), h.turns = [g.turns EXCEPT ![g.order[g.index]] = turn],
           h.index \in {g.index, g.index + 1},
           (h.step = "COMPLETED") <=> (h.index > Len(g.order)),
           turn = NoTurn \/ turn = [asker |-> g.asks[g.order[g.index]], defence |-> turn.defence,
                                    question |-> turn.question, response |-> turn.response],
           h.index = g.index =>
               \/ h.step = "FOLLOW_UP_QUESTION" /\ turn.question = "PENDING"
                  /\ turn.response = "PENDING"
               \/ h.step = "FOLLOW_UP_RESPONSE" /\ turn.question \in {"FINISHED", "TIMEOUT"}
                  /\ turn.response = "PENDING",
           h.index = g.index + 1 =>
               /\ turn.question \in {"FINISHED", "TIMEOUT"}
               /\ turn.response \in {"FINISHED", "TIMEOUT"}
               /\ h.step \in {"DEFENCE", "COMPLETED"}
    PROVE  DefendItGame(h) /\ h.people = g.people
<1> DEFINE now == g.order[g.index]
           turns == [g.turns EXCEPT ![now] = turn]
           index == h.index
           step == h.step
<1>2. Len(g.order) \in Nat /\ g.index \in 1 .. Len(g.order)
  BY DEF DefendItGame, IsRota
<1>3. /\ now \in g.people
      /\ \A i \in 1 .. Len(g.order) : g.order[i] = now => i = g.index
      /\ \A i \in 1 .. Len(g.order) : g.order[i] \in g.people
  BY <1>2, OnStage DEF DefendItGame
<1>4. IsOver(turns, g.people) /\ turns[now] = turn
      /\ \A q \in g.people : q # now => turns[q] = g.turns[q]
  <2>1. IsOver(g.turns, g.people)
    BY DEF DefendItGame
  <2> HIDE DEF now
  <2> QED BY <1>3, <2>1 DEF IsOver
<1>5. h.turns = turns
  OBVIOUS
<1> HIDE DEF turns
<1>8. /\ IsOver(h, {"kind", "people", "prompts", "step", "order", "index", "asks", "turns"})
      /\ h.turns = turns /\ h.index = index /\ h.step = step
      /\ h.kind = "DEFEND_IT" /\ h.people = g.people /\ h.prompts = g.prompts
      /\ h.order = g.order /\ h.asks = g.asks
  BY <1>5 DEF DefendItGame, Alike
<1>9. \A i \in 1 .. Len(g.order) : IsTurn(h, i)
  <2> SUFFICES ASSUME NEW i \in 1 .. Len(g.order) PROVE IsTurn(h, i)
    OBVIOUS
  <2>1. CASE i = g.index
    <3>1. h.turns[h.order[i]] = turn /\ h.order[i] = now
      BY <1>4, <1>8, <2>1
    <3>2. CASE index = g.index
      <4>1. ~(i < h.index) /\ ~(i > h.index) /\ i = h.index
        BY <1>2, <1>8, <2>1, <3>2
      <4> QED BY <1>8, <2>1, <3>1, <3>2, <4>1 DEF IsTurn
    <3>3. CASE index = g.index + 1
      <4>1. i < h.index /\ ~(i > h.index) /\ i # h.index
        BY <1>2, <1>8, <2>1, <3>3
      <4> QED BY <1>8, <2>1, <3>1, <3>3, <4>1 DEF IsTurn
    <3> QED BY <3>2, <3>3
  <2>2. CASE i # g.index
    <3>1. h.turns[h.order[i]] = g.turns[g.order[i]]
      BY <1>3, <1>4, <1>8, <2>2
    <3>2. IsTurn(g, i)
      BY DEF DefendItGame
    <3>3. CASE i < g.index
      <4>1. i < h.index /\ ~(i > h.index) /\ i # h.index /\ ~(i > g.index)
        BY <1>2, <1>8, <3>3
      <4> QED BY <1>8, <2>2, <3>1, <3>2, <3>3, <4>1 DEF IsTurn
    <3>4. CASE i > g.index
      <4>1. g.turns[g.order[i]] = NoTurn
        BY <3>2, <3>4 DEF IsTurn
      <4>2. ~(i < h.index) /\ (i = h.index => index = g.index + 1)
        BY <1>2, <1>8, <3>4
      <4>3. i = h.index => h.step = "DEFENCE"
        <5>1. i = h.index => ~(h.index > Len(g.order))
          BY <1>2, <1>8
        <5> QED BY <1>8, <4>2, <5>1
      <4> QED BY <1>8, <3>1, <4>1, <4>2, <4>3 DEF IsTurn
    <3> QED BY <1>2, <2>2, <3>3, <3>4
  <2> QED BY <2>1, <2>2
<1>10. index \in 1 .. Len(g.order) + 1
  BY <1>2
<1> QED BY <1>4, <1>8, <1>9, <1>10 DEF DefendItGame

\* Every step of the turn on stage is one of these.
LEMMA FinishDefenceKeeps ==
    ASSUME NEW g, DefendItGame(g), NEW r
    PROVE  DefendItGame(FinishDefence(g, r)) /\ FinishDefence(g, r).people = g.people
<1> DEFINE now == g.order[g.index]
           turn == [asker |-> g.asks[now], defence |-> r, question |-> "PENDING",
                    response |-> "PENDING"]
           h == FinishDefence(g, r)
<1>1. CASE g.step = "DEFENCE" /\ g.turns[now] = NoTurn
  <2>1. g.index \in 1 .. Len(g.order) /\ Len(g.order) \in Nat
    BY <1>1 DEF DefendItGame, IsRota
  <2>2. /\ Alike(h, g) /\ h.turns = [g.turns EXCEPT ![now] = turn]
        /\ h.step = "FOLLOW_UP_QUESTION" /\ h.index = g.index
    <3> DEFINE turns == [g.turns EXCEPT ![now] = turn]
    <3>1. h = [g EXCEPT !.step = "FOLLOW_UP_QUESTION", !.turns = turns]
      BY <1>1 DEF FinishDefence
    <3> HIDE DEF turns, turn, h
    <3>2. /\ IsOver(h, {"kind", "people", "prompts", "step", "order", "index", "asks", "turns"})
          /\ h.turns = turns /\ h.step = "FOLLOW_UP_QUESTION" /\ h.index = g.index
          /\ h.kind = g.kind /\ h.people = g.people /\ h.prompts = g.prompts
          /\ h.order = g.order /\ h.asks = g.asks
      BY <3>1 DEF DefendItGame, IsOver
    <3> QED BY <3>2 DEF Alike, turns
  <2>3. /\ turn.question = "PENDING" /\ turn.response = "PENDING"
        /\ turn = [asker |-> g.asks[now], defence |-> turn.defence,
                   question |-> turn.question, response |-> turn.response]
        /\ g.index # g.index + 1 /\ ~(g.index > Len(g.order))
    BY <2>1
  <2> HIDE DEF turn, h
  <2>4. DefendItGame(h) /\ h.people = g.people
    BY <2>1, <2>2, <2>3, TurnKeeps
  <2> QED BY <2>4 DEF h
<1>2. CASE ~(g.step = "DEFENCE" /\ g.turns[now] = NoTurn)
  BY <1>2 DEF FinishDefence
<1> QED BY <1>1, <1>2

\* The question ends.
LEMMA FinishQuestionKeeps ==
    ASSUME NEW g, DefendItGame(g), NEW r \in {"FINISHED", "TIMEOUT"}
    PROVE  DefendItGame(FinishQuestion(g, r)) /\ FinishQuestion(g, r).people = g.people
<1> DEFINE now == g.order[g.index]
           turn == [g.turns[now] EXCEPT !.question = r]
           h == FinishQuestion(g, r)
<1>1. CASE g.step = "FOLLOW_UP_QUESTION" /\ g.turns[now].question = "PENDING"
  <2>1. g.index \in 1 .. Len(g.order) /\ Len(g.order) \in Nat
    BY <1>1 DEF DefendItGame, IsRota
  <2>2. IsTurn(g, g.index)
    BY <2>1 DEF DefendItGame
  <2>3. /\ g.turns[now].response = "PENDING"
        /\ g.turns[now] = [asker |-> g.asks[now], defence |-> g.turns[now].defence,
                           question |-> g.turns[now].question,
                           response |-> g.turns[now].response]
    BY <1>1, <2>2 DEF IsTurn, NoTurn
  <2>4. /\ Alike(h, g) /\ h.turns = [g.turns EXCEPT ![now] = turn]
        /\ h.step = "FOLLOW_UP_RESPONSE" /\ h.index = g.index
    <3> DEFINE turns == [g.turns EXCEPT ![now] = turn]
    <3>1. h = [g EXCEPT !.step = "FOLLOW_UP_RESPONSE", !.turns = turns]
      BY <1>1 DEF FinishQuestion
    <3> HIDE DEF turns, turn, h
    <3>2. /\ IsOver(h, {"kind", "people", "prompts", "step", "order", "index", "asks", "turns"})
          /\ h.turns = turns /\ h.step = "FOLLOW_UP_RESPONSE" /\ h.index = g.index
          /\ h.kind = g.kind /\ h.people = g.people /\ h.prompts = g.prompts
          /\ h.order = g.order /\ h.asks = g.asks
      BY <3>1 DEF DefendItGame, IsOver
    <3> QED BY <3>2 DEF Alike, turns
  <2>5. /\ turn.question = r /\ turn.response = "PENDING"
        /\ turn = [asker |-> g.asks[now], defence |-> turn.defence,
                   question |-> turn.question, response |-> turn.response]
        /\ g.index # g.index + 1 /\ ~(g.index > Len(g.order))
    BY <2>1, <2>3
  <2> HIDE DEF turn, h
  <2>6. DefendItGame(h) /\ h.people = g.people
    BY <2>1, <2>4, <2>5, TurnKeeps
  <2> QED BY <2>6 DEF h
<1>2. CASE ~(g.step = "FOLLOW_UP_QUESTION" /\ g.turns[now].question = "PENDING")
  BY <1>2 DEF FinishQuestion
<1> QED BY <1>1, <1>2

\* The response ends, and the turn with it.
LEMMA FinishResponseKeeps ==
    ASSUME NEW g, DefendItGame(g), NEW r \in {"FINISHED", "TIMEOUT"}
    PROVE  DefendItGame(FinishResponse(g, r)) /\ FinishResponse(g, r).people = g.people
<1> DEFINE now == g.order[g.index]
           turn == [g.turns[now] EXCEPT !.response = r]
           step == IF g.index = Len(g.order) THEN "COMPLETED" ELSE "DEFENCE"
           h == FinishResponse(g, r)
<1>1. CASE g.step = "FOLLOW_UP_RESPONSE" /\ g.turns[now].response = "PENDING"
  <2>1. g.index \in 1 .. Len(g.order) /\ Len(g.order) \in Nat
    BY <1>1 DEF DefendItGame, IsRota
  <2>2. IsTurn(g, g.index)
    BY <2>1 DEF DefendItGame
  <2>3. /\ g.turns[now].question \in {"FINISHED", "TIMEOUT"}
        /\ g.turns[now] = [asker |-> g.asks[now], defence |-> g.turns[now].defence,
                           question |-> g.turns[now].question,
                           response |-> g.turns[now].response]
    BY <1>1, <2>2 DEF IsTurn, NoTurn
  <2>4. /\ Alike(h, g) /\ h.turns = [g.turns EXCEPT ![now] = turn]
        /\ h.step = step /\ h.index = g.index + 1
    <3> DEFINE turns == [g.turns EXCEPT ![now] = turn]
    <3>1. h = [g EXCEPT !.step = step, !.index = g.index + 1, !.turns = turns]
      BY <1>1 DEF FinishResponse
    <3> HIDE DEF turns, turn, h
    <3>2. /\ IsOver(h, {"kind", "people", "prompts", "step", "order", "index", "asks", "turns"})
          /\ h.turns = turns /\ h.step = step /\ h.index = g.index + 1
          /\ h.kind = g.kind /\ h.people = g.people /\ h.prompts = g.prompts
          /\ h.order = g.order /\ h.asks = g.asks
      BY <3>1 DEF DefendItGame, IsOver
    <3> QED BY <3>2 DEF Alike, turns
  <2>5. /\ turn.question \in {"FINISHED", "TIMEOUT"} /\ turn.response = r
        /\ turn = [asker |-> g.asks[now], defence |-> turn.defence,
                   question |-> turn.question, response |-> turn.response]
    BY <2>3
  <2>6. /\ g.index # g.index + 1 /\ step \in {"DEFENCE", "COMPLETED"}
        /\ (step = "COMPLETED") <=> (g.index + 1 > Len(g.order))
    BY <2>1
  <2> HIDE DEF turn, step, h
  <2>7. DefendItGame(h) /\ h.people = g.people
    BY <2>1, <2>4, <2>5, <2>6, TurnKeeps
  <2> QED BY <2>7 DEF h
<1>2. CASE ~(g.step = "FOLLOW_UP_RESPONSE" /\ g.turns[now].response = "PENDING")
  BY <1>2 DEF FinishResponse
<1> QED BY <1>1, <1>2

\* A timeout ends the time to prepare or a step of the turn.
LEMMA DefendItTimeoutKeeps ==
    ASSUME NEW g, DefendItGame(g)
    PROVE  DefendItGame(DefendItTimeout(g)) /\ DefendItTimeout(g).people = g.people
<1>1. CASE g.step = "PREP"
  <2> DEFINE h == [g EXCEPT !.step = "DEFENCE"]
  <2>1. /\ IsOver(h, {"kind", "people", "prompts", "step", "order", "index", "asks", "turns"})
        /\ h.step = "DEFENCE"
        /\ h.kind = "DEFEND_IT" /\ h.people = g.people /\ h.prompts = g.prompts
        /\ h.order = g.order /\ h.index = g.index /\ h.asks = g.asks /\ h.turns = g.turns
    BY DEF DefendItGame, IsOver
  <2>2. ~(g.index > Len(g.order))
    BY <1>1 DEF DefendItGame
  <2> HIDE DEF h
  <2>3. \A i \in 1 .. Len(g.order) : IsTurn(h, i)
    BY <1>1, <2>1 DEF DefendItGame, IsTurn
  <2>4. DefendItGame(h) /\ h.people = g.people
    BY <2>1, <2>2, <2>3 DEF DefendItGame
  <2> QED BY <1>1, <2>4 DEF DefendItTimeout, h
<1>2. CASE g.step # "PREP"
  BY <1>2, FinishDefenceKeeps, FinishQuestionKeeps, FinishResponseKeeps DEF DefendItTimeout
<1> QED BY <1>1, <1>2

\* A player's action does the same, for the one whose turn it is.
LEMMA DefendItKeeps ==
    ASSUME NEW g, DefendItGame(g), NEW p, NEW a
    PROVE  DefendItGame(DefendItAct(g, p, a)) /\ DefendItAct(g, p, a).people = g.people
BY FinishDefenceKeeps, FinishQuestionKeeps, FinishResponseKeeps DEF DefendItAct


-----------------------------------------------------------------------------
(* Games begin *)

\* An order of the participants that has them all has nobody twice.
LEMMA OrdersAreRotas ==
    ASSUME NEW people, people \subseteq Player
    PROVE  IsRota(SpeakerOrder(people), people)
<1> DEFINE n == Cardinality(people)
           order == SpeakerOrder(people)
<1>1. IsFiniteSet(people)
  BY MinigamesAssumption, FS_Subset
<1>2. n \in Nat /\ ExistsBijection(1 .. n, people)
  BY <1>1, FS_CardinalityType
<1>3. PICK f : f \in Bijection(1 .. n, people)
  BY <1>2 DEF ExistsBijection
<1>4. f \in Orders(people)
  <2>1. f \in [1 .. n -> people] /\ \A p \in people : \E i \in 1 .. n : f[i] = p
    BY <1>3 DEF Bijection, Injection, Surjection
  <2>2. {f[i] : i \in DOMAIN f} = people
    BY <2>1
  <2> QED BY <2>1, <2>2 DEF Orders
<1>5. order \in Orders(people)
  BY <1>4 DEF SpeakerOrder
<1>6. /\ order \in [1 .. n -> people]
      /\ \A p \in people : \E i \in 1 .. n : order[i] = p
  BY <1>5 DEF Orders
<1>7. order \in Surjection(1 .. n, people)
  BY <1>6 DEF Surjection
<1>8. IsFiniteSet(1 .. n) /\ Cardinality(1 .. n) = n
  BY <1>2, FS_Interval
<1> HIDE DEF order
<1>9. order \in Injection(1 .. n, people)
  BY <1>7, <1>8, FS_SurjSameCardinalityImpliesInj
<1>10. \A i, j \in 1 .. n : order[i] = order[j] => i = j
  BY <1>9 DEF Injection, IsInjective
<1>11. order \in Seq(people) /\ Len(order) = n
  BY <1>2, <1>6
<1>12. IsRota(order, people)
  BY <1>6, <1>10, <1>11 DEF IsRota
<1> QED BY <1>12 DEF order

\* Prompts and empty answers are one for each.
LEMMA FreshFunctions ==
    ASSUME NEW people
    PROVE  /\ IsOver(Prompts(people), people) /\ IsOver(Unanswered(people), people)
           /\ \A p \in people : Unanswered(people)[p] = NoAnswer
BY DEF IsOver, Prompts, AssignPromptPair, Unanswered

\* What a module starts is a game of its kind.
LEMMA StartsAreGames ==
    ASSUME NEW kind \in Kinds, NEW g \in Starts(kind), kind # "BOMB_PROTOCOL"
    PROVE  IsGame(g) /\ g.kind = kind /\ ~IsComplete(g)
<1> DEFINE people == Seats[kind]
           order == SpeakerOrder(people)
           orders == [p \in people |-> SpeakerOrder(Card)]
<1>1. people \subseteq Player
  BY MinigamesAssumption
<1>2. IsRota(order, people)
  BY <1>1, OrdersAreRotas
<1> HIDE DEF people, order, orders
<1>3. CASE kind = "RANK_IT"
  <2>1. g = RankItStart(people, Prompts(people), orders) /\ RankItMayStart(people, orders)
    BY <1>3 DEF Starts, people, order, orders
  <2>2. RankItGame(g) /\ g.people = people
    BY <2>1, FreshFunctions DEF RankItStart, RankItMayStart, RankItGame, IsOver
  <2>3. g.status = "ACTIVE" /\ g.kind = kind
    BY <1>3, <2>1 DEF RankItStart
  <2> QED BY <1>1, <1>3, <2>2, <2>3 DEF IsGame, IsComplete
<1>4. CASE kind = "COMPLETE_IT"
  <2>1. g = CompleteItStart(people, Prompts(people))
    BY <1>4 DEF Starts, people, order, orders
  <2>2. CompleteItGame(g) /\ g.people = people
    BY <2>1, FreshFunctions DEF CompleteItStart, CompleteItGame, IsOver
  <2>3. g.status = "ACTIVE" /\ g.kind = kind
    BY <1>4, <2>1 DEF CompleteItStart
  <2> QED BY <1>1, <1>4, <2>2, <2>3 DEF IsGame, IsComplete
<1>5. CASE kind = "DRAW_IT"
  <2>1. g = DrawItStart(people, Prompts(people))
    BY <1>5 DEF Starts, people, order, orders
  <2>2. DrawItGame(g) /\ g.people = people
    BY <2>1, FreshFunctions DEF DrawItStart, DrawItGame, IsOver
  <2>3. g.status = "ACTIVE" /\ g.kind = kind
    BY <1>5, <2>1 DEF DrawItStart
  <2> QED BY <1>1, <1>5, <2>2, <2>3 DEF IsGame, IsComplete
<1>6. CASE kind = "PREDICT_THEM"
  <2>1. PICK selected : selected \subseteq people
                        /\ g = PredictThemStart(people, selected, Prompts(selected))
    BY <1>6 DEF Starts, people, order, orders
  <2>2. /\ IsOver(g, {"kind", "people", "selected", "audience", "prompts", "given", "step"})
        /\ g.kind = "PREDICT_THEM" /\ g.people = people /\ g.selected = selected
        /\ g.audience = people \ selected /\ g.step = "AUDIENCE_VOTE"
        /\ g.prompts = Prompts(selected) /\ g.given = Unanswered(people)
    BY <2>1 DEF PredictThemStart, IsOver
  <2>3. \A p \in selected : Unanswered(people)[p] = NoAnswer
    BY <2>1, FreshFunctions
  <2>4. PredictThemGame(g)
    BY <2>1, <2>2, <2>3, FreshFunctions DEF PredictThemGame
  <2> QED BY <1>1, <1>6, <2>2, <2>4 DEF IsGame, IsComplete
<1>7. CASE kind = "DESCRIBE_IT"
  <2>1. g = DescribeItStart(people, order, Prompts(people)) /\ DescribeItMayStart(people, order)
    BY <1>7 DEF Starts, people, order, orders
  <2>2. Len(order) \in Nat /\ Len(order) >= 1
    BY <1>2, <2>1 DEF DescribeItMayStart, IsRota
  <2>3. \A i \in 1 .. Len(order) : order[i] \in people
    BY <1>2, OnStage
  <2>4. /\ IsOver(g, {"kind", "people", "prompts", "step", "order", "index", "turns"})
        /\ g.kind = "DESCRIBE_IT" /\ g.people = people /\ g.prompts = Prompts(people)
        /\ g.step = "THINK" /\ g.order = order /\ g.index = 1 /\ g.turns = Unanswered(people)
    BY <2>1 DEF DescribeItStart, IsOver
  <2>5. \A i \in 1 .. Len(order) : Unanswered(people)[order[i]] = NoAnswer /\ ~(i < 1)
    BY <2>3, FreshFunctions
  <2>6. DescribeItGame(g)
    BY <1>2, <2>2, <2>4, <2>5, FreshFunctions DEF DescribeItGame
  <2> QED BY <1>1, <1>7, <2>4, <2>6 DEF IsGame, IsComplete
<1>8. CASE kind = "DEFEND_IT"
  <2>1. PICK asks : /\ g = DefendItStart(people, order, asks, Prompts(people))
                    /\ DefendItMayStart(people, order, asks)
    BY <1>8 DEF Starts, people, order, orders
  <2>2. Len(order) \in Nat /\ Len(order) >= 1
    BY <1>2, <2>1 DEF DefendItMayStart, IsRota
  <2>3. \A i \in 1 .. Len(order) : order[i] \in people
    BY <1>2, OnStage
  <2>4. /\ IsOver(g, {"kind", "people", "prompts", "step", "order", "index", "asks", "turns"})
        /\ g.kind = "DEFEND_IT" /\ g.people = people /\ g.prompts = Prompts(people)
        /\ g.step = "PREP" /\ g.order = order /\ g.index = 1 /\ g.asks = asks
        /\ g.turns = [p \in people |-> NoTurn]
    BY <2>1 DEF DefendItStart, IsOver
  <2>5. IsOver(g.turns, people) /\ \A i \in 1 .. Len(order) : g.turns[order[i]] = NoTurn
    BY <2>3, <2>4 DEF IsOver
  <2>6. \A i \in 1 .. Len(order) : IsTurn(g, i)
    <3> SUFFICES ASSUME NEW i \in 1 .. Len(order) PROVE IsTurn(g, i)
      OBVIOUS
    <3>1. ~(i < g.index) /\ g.step \in {"PREP", "DEFENCE"} /\ g.turns[g.order[i]] = NoTurn
      BY <2>4, <2>5
    <3> QED BY <3>1 DEF IsTurn
  <2>7. \A p \in people : asks[p] # p
    BY <2>1 DEF DefendItMayStart
  <2>8. DefendItGame(g)
    BY <1>2, <2>2, <2>4, <2>5, <2>6, <2>7, FreshFunctions DEF DefendItGame
  <2> QED BY <1>1, <1>8, <2>4, <2>8 DEF IsGame, IsComplete
<1> QED BY <1>3, <1>4, <1>5, <1>6, <1>7, <1>8, MinigamesAssumption

\* So is the special game.
LEMMA SpecialStartsGame ==
    ASSUME "BOMB_PROTOCOL" \in Kinds, SpecialIntroOver
    PROVE  IsGame(game') /\ game'.kind = "BOMB_PROTOCOL" /\ ~IsComplete(game')
<1> DEFINE people == Seats["BOMB_PROTOCOL"]
<1>1. PICK operator, solution, clues :
          solution \in Solutions /\ game' = BombStart(people, operator, solution, clues)
  BY DEF SpecialIntroOver
<1>2. people \subseteq Player
  BY MinigamesAssumption
<1> HIDE DEF people
<1>3. IsOver(solution, {"symbols", "wire", "code"})
  BY <1>1 DEF Solutions, IsOver
<1>4. /\ IsOver(game', {"kind", "people", "operator", "solution", "clues", "board", "progress",
                        "strikes", "status"})
      /\ game'.kind = "BOMB_PROTOCOL" /\ game'.people = people /\ game'.solution = solution
      /\ game'.strikes = 0 /\ game'.board = "SYMBOLS" /\ game'.status = "ACTIVE"
  BY <1>1 DEF BombStart, IsOver
<1>5. BombGame(game')
  BY <1>3, <1>4, MinigamesAssumption DEF BombGame
<1> QED BY <1>2, <1>4, <1>5, MinigamesAssumption DEF IsGame, IsComplete


-----------------------------------------------------------------------------
(* getMinigameModule: any of the games *)

\* A game is of the kind it says.
LEMMA GameOfKind ==
    ASSUME NEW g, IsGame(g)
    PROVE  \/ g.kind = "RANK_IT" /\ RankItGame(g)
           \/ g.kind = "COMPLETE_IT" /\ CompleteItGame(g)
           \/ g.kind = "DRAW_IT" /\ DrawItGame(g)
           \/ g.kind = "PREDICT_THEM" /\ PredictThemGame(g)
           \/ g.kind = "DESCRIBE_IT" /\ DescribeItGame(g)
           \/ g.kind = "DEFEND_IT" /\ DefendItGame(g)
           \/ g.kind = "BOMB_PROTOCOL" /\ BombGame(g)
BY DEF IsGame, RankItGame, CompleteItGame, DrawItGame, PredictThemGame, DescribeItGame,
       DefendItGame, BombGame

\* A valid action takes a game to a game of the same kind and participants.
LEMMA ActionKeeps ==
    ASSUME NEW g, IsGame(g), NEW p, NEW a, ValidateAction(g, p, a)
    PROVE  /\ IsGame(HandleAction(g, p, a)) /\ HandleAction(g, p, a).kind = g.kind
           /\ HandleAction(g, p, a).people = g.people
<1> DEFINE h == HandleAction(g, p, a)
<1>1. CASE g.kind = "RANK_IT" /\ RankItGame(g)
  <2>1. h = RankItAct(g, p, a)
    BY <1>1 DEF HandleAction
  <2>2. RankItGame(h) /\ h.people = g.people
    BY <1>1, <2>1, RankItKeeps
  <2> QED BY <1>1, <2>2 DEF IsGame, RankItGame
<1>2. CASE g.kind = "COMPLETE_IT" /\ CompleteItGame(g)
  <2>1. h = CompleteItAct(g, p, a)
    BY <1>2 DEF HandleAction
  <2>2. CompleteItGame(h) /\ h.people = g.people
    BY <1>2, <2>1, CompleteItKeeps
  <2> QED BY <1>2, <2>2 DEF IsGame, CompleteItGame
<1>3. CASE g.kind = "DRAW_IT" /\ DrawItGame(g)
  <2>1. h = DrawItAct(g, p, a)
    BY <1>3 DEF HandleAction
  <2>2. DrawItGame(h) /\ h.people = g.people
    BY <1>3, <2>1, DrawItKeeps
  <2> QED BY <1>3, <2>2 DEF IsGame, DrawItGame
<1>4. CASE g.kind = "PREDICT_THEM" /\ PredictThemGame(g)
  <2>1. h = PredictThemAct(g, p, a) /\ PredictThemValid(g, p, a)
    BY <1>4 DEF HandleAction, ValidateAction
  <2>2. PredictThemGame(h) /\ h.people = g.people
    BY <1>4, <2>1, PredictThemKeeps
  <2> QED BY <1>4, <2>2 DEF IsGame, PredictThemGame
<1>5. CASE g.kind = "DESCRIBE_IT" /\ DescribeItGame(g)
  <2>1. h = AdvanceTurn(g, "FINISHED")
    BY <1>5 DEF HandleAction, DescribeItAct
  <2>2. DescribeItGame(h) /\ h.people = g.people
    BY <1>5, <2>1, AdvanceTurnKeeps, MinigamesAssumption
  <2> QED BY <1>5, <2>2 DEF IsGame, DescribeItGame
<1>6. CASE g.kind = "DEFEND_IT" /\ DefendItGame(g)
  <2>1. h = DefendItAct(g, p, a)
    BY <1>6 DEF HandleAction
  <2>2. DefendItGame(h) /\ h.people = g.people
    BY <1>6, <2>1, DefendItKeeps
  <2> QED BY <1>6, <2>2 DEF IsGame, DefendItGame
<1>7. CASE g.kind = "BOMB_PROTOCOL" /\ BombGame(g)
  <2>1. h = BombAct(g, p, a) /\ BombValid(g, p, a)
    BY <1>7 DEF HandleAction, ValidateAction
  <2>2. BombGame(h) /\ h.people = g.people
    BY <1>7, <2>1, BombKeeps
  <2> QED BY <1>7, <2>2 DEF IsGame, BombGame
<1> HIDE DEF h
<1>8. IsGame(h) /\ h.kind = g.kind /\ h.people = g.people
  BY <1>1, <1>2, <1>3, <1>4, <1>5, <1>6, <1>7, GameOfKind DEF h
<1> QED BY <1>8 DEF h

\* So does a timeout.
LEMMA TimeoutKeeps ==
    ASSUME NEW g, IsGame(g)
    PROVE  /\ IsGame(HandleTimeout(g)) /\ HandleTimeout(g).kind = g.kind
           /\ HandleTimeout(g).people = g.people
<1> DEFINE h == HandleTimeout(g)
<1>1. CASE g.kind = "PREDICT_THEM" /\ PredictThemGame(g)
  <2>1. PredictThemGame(h) /\ h.people = g.people
    BY <1>1, PredictThemTimeoutKeeps DEF HandleTimeout
  <2> QED BY <1>1, <2>1 DEF IsGame, PredictThemGame
<1>2. CASE g.kind = "DESCRIBE_IT" /\ DescribeItGame(g)
  <2>1. DescribeItGame(h) /\ h.people = g.people
    BY <1>2, DescribeItTimeoutKeeps DEF HandleTimeout
  <2> QED BY <1>2, <2>1 DEF IsGame, DescribeItGame
<1>3. CASE g.kind = "DEFEND_IT" /\ DefendItGame(g)
  <2>1. DefendItGame(h) /\ h.people = g.people
    BY <1>3, DefendItTimeoutKeeps DEF HandleTimeout
  <2> QED BY <1>3, <2>1 DEF IsGame, DefendItGame
<1>4. CASE g.kind \notin {"PREDICT_THEM", "DESCRIBE_IT", "DEFEND_IT"}
  BY <1>4 DEF HandleTimeout
<1> QED BY <1>1, <1>2, <1>3, <1>4, GameOfKind

\* A game has succeeded or not.
LEMMA SuccessType == ASSUME NEW g, IsGame(g) PROVE Success(g) \in BOOLEAN
BY GameOfKind
   DEF Success, RankItSuccess, CompleteItSuccess, DrawItSuccess, AllIn

-----------------------------------------------------------------------------
(* The invariant of the games *)

\* There is no game before it begins; then there is one that is not over before its
\* results, and the results of a completed game are those of its end.
GameInv ==
    /\ phase \in {"HACK_WINDOW", "MINIGAME_INSTRUCTIONS", "PLAY", "RESULTS"}
    /\ phaseId \in Nat /\ result.success \in BOOLEAN
    /\ phase = "HACK_WINDOW" => game = NoGame
    /\ phase # "HACK_WINDOW" => IsGame(game) /\ game.kind \in Kinds
    /\ phase \in {"MINIGAME_INSTRUCTIONS", "PLAY"} => ~IsComplete(game)
    /\ phase = "RESULTS" /\ result.reason = "completed" => IsComplete(game)

\* No more actionIds are remembered than the limit.
RecentInv ==
    /\ recent \in [Player -> Seq(Nat)]
    /\ \A p \in Player : Len(recent[p]) <= RecentLimit

\* What is remembered is not more than the limit.
LEMMA RememberLength ==
    ASSUME NEW ids \in Seq(Nat), Len(ids) <= RecentLimit, NEW id \in Nat
    PROVE  Remember(ids, id) \in Seq(Nat) /\ Len(Remember(ids, id)) <= RecentLimit
BY MinigamesAssumption DEF Remember

\* There is no game at first.
LEMMA GameInit == Init => GameInv /\ RecentInv
BY MinigamesAssumption DEF Init, GameInv, RecentInv, NoGame, NoResult

\* A step of a game goes on with a game of the kind, and ends it after the last strike.
LEMMA GameMoves ==
    ASSUME GameInv, phase = "PLAY", NEW g, IsGame(g), g.kind = game.kind,
           \/ IsComplete(g) /\ \E reason : Complete(g, reason)
           \/ ~IsComplete(g) /\ (NewStep(g) \/ Stay(g))
           \/ \E reason \in {"timeout", "forced"} : Complete(g, reason)
    PROVE  GameInv'
<1>1. game' = g /\ phaseId' \in Nat /\ phase' \in {"PLAY", "RESULTS"}
  BY DEF GameInv, Complete, NewStep, Stay
<1>2. result'.success \in BOOLEAN
  BY SuccessType DEF GameInv, Complete, NewStep, Stay
<1>3. /\ phase' = "PLAY" => ~IsComplete(g)
      /\ phase' = "RESULTS" /\ result'.reason = "completed" => IsComplete(g)
  BY DEF Complete, NewStep, Stay
<1> QED BY <1>1, <1>2, <1>3 DEF GameInv

\* An action that is applied moves the game, and is remembered.
LEMMA GameAccept ==
    ASSUME Bookkeeping, GameInv, RecentInv, NEW m \in wire, Accept(m)
    PROVE  GameInv' /\ RecentInv'
<1> DEFINE g == HandleAction(game, m.player, m.action)
<1>1. /\ phase = "PLAY" /\ IsGame(game) /\ game.kind \in Kinds /\ m.player \in game.people
      /\ ValidateAction(game, m.player, m.action)
  BY DEF Accept, GameInv
<1>2. IsGame(g) /\ g.kind = game.kind
  BY <1>1, ActionKeeps
<1>3. \/ IsComplete(g) /\ \E reason : Complete(g, reason)
      \/ ~IsComplete(g) /\ (NewStep(g) \/ Stay(g))
  BY DEF Accept
<1>4. m.player \in Player /\ m.seq \in Nat
  BY <1>1 DEF IsGame, Bookkeeping
<1>5. RecentInv'
  <2>1. recent' = [recent EXCEPT ![m.player] = Remember(recent[m.player], m.seq)]
    BY DEF Accept
  <2>2. /\ Remember(recent[m.player], m.seq) \in Seq(Nat)
        /\ Len(Remember(recent[m.player], m.seq)) <= RecentLimit
    BY <1>4, RememberLength DEF RecentInv
  <2> QED BY <1>4, <2>1, <2>2 DEF RecentInv
<1> HIDE DEF g
<1> QED BY <1>1, <1>2, <1>3, <1>5, GameMoves

\* The timer and the host move the game as well.
LEMMA GameTimer == ASSUME GameInv, TimerExpired \/ HostForceEnd PROVE GameInv'
<1>1. phase = "PLAY" /\ IsGame(game)
  BY DEF GameInv, TimerExpired, HostForceEnd
<1>2. CASE TimerExpired
  <2> DEFINE g == HandleTimeout(game)
  <2>1. IsGame(g) /\ g.kind = game.kind
    BY <1>1, TimeoutKeeps
  <2>2. (~IsComplete(g) /\ NewStep(g)) \/ \E reason \in {"timeout", "forced"} : Complete(g, reason)
    BY <1>2 DEF TimerExpired
  <2> HIDE DEF g
  <2> QED BY <1>1, <2>1, <2>2, GameMoves
<1>3. CASE HostForceEnd
  <2>1. \E reason \in {"timeout", "forced"} : Complete(game, reason)
    BY <1>3 DEF HostForceEnd
  <2> QED BY <1>1, <2>1, GameMoves
<1> QED BY <1>2, <1>3

\* Every step.
LEMMA GameStep ==
    ASSUME Bookkeeping, GameInv, RecentInv, [Next]_vars PROVE GameInv' /\ RecentInv'
<1>1. ASSUME UNCHANGED <<game, phase, phaseId, recent, result>> PROVE GameInv' /\ RecentInv'
  BY <1>1 DEF GameInv, RecentInv
<1>2. ASSUME NEW kind \in Kinds, ProceedToInstructions(kind) PROVE GameInv' /\ RecentInv'
  <2>1. IsGame(game') /\ game'.kind = kind /\ ~IsComplete(game')
    BY <1>2, StartsAreGames DEF ProceedToInstructions
  <2> QED BY <1>2, <2>1 DEF ProceedToInstructions, GameInv, RecentInv
<1>3. ASSUME InstructionsOver PROVE GameInv' /\ RecentInv'
  BY <1>3 DEF InstructionsOver, GameInv, RecentInv
<1>4. ASSUME "BOMB_PROTOCOL" \in Kinds, SpecialIntroOver PROVE GameInv' /\ RecentInv'
  <2>1. IsGame(game') /\ game'.kind \in Kinds /\ ~IsComplete(game')
    BY <1>4, SpecialStartsGame
  <2>2. phase' = "PLAY" /\ phaseId' \in Nat /\ UNCHANGED <<recent, result>>
    BY <1>4 DEF SpecialIntroOver, GameInv
  <2> QED BY <2>1, <2>2 DEF GameInv, RecentInv
<1>5. ASSUME NEW p, NEW a, Send(p, a) PROVE GameInv' /\ RecentInv'
  BY <1>1, <1>5 DEF Send
<1>6. ASSUME NEW m \in wire, Lose(m) PROVE GameInv' /\ RecentInv'
  BY <1>1, <1>6 DEF Lose
<1>7. ASSUME TimerExpired \/ HostForceEnd PROVE GameInv' /\ RecentInv'
  <2>1. RecentInv'
    BY <1>7 DEF TimerExpired, HostForceEnd, RecentInv
  <2> QED BY <1>7, <2>1, GameTimer
<1>8. CASE Next
  BY <1>2, <1>3, <1>4, <1>5, <1>6, <1>7, <1>8, GameAccept DEF Next
<1>9. CASE UNCHANGED vars
  BY <1>1, <1>9 DEF vars
<1> QED BY <1>8, <1>9

\* The invariant of the games, of the messages and of what is remembered.
LEMMA PlayCorrect == Spec => [](PlayInv /\ GameInv /\ RecentInv)
<1>1. PlayInv /\ GameInv /\ RecentInv /\ [Next]_vars => (PlayInv /\ GameInv /\ RecentInv)'
  BY PlayStep, GameStep DEF PlayInv
<1> QED BY <1>1, PlayInit, GameInit, PTL DEF Spec

\* The type invariant of the games.
THEOREM GamesTypeCorrect == Spec => []TypeOK
<1>1. PlayInv /\ GameInv /\ RecentInv => TypeOK
  <2> SUFFICES ASSUME PlayInv, GameInv, RecentInv PROVE TypeOK
    OBVIOUS
  <2>1. \A p \in Player : lastSeq[p] \in 0 .. sent[p] /\ Len(recent[p]) <= RecentLimit
    BY DEF PlayInv, Bookkeeping, RecentInv
  <2>2. CASE phase = "HACK_WINDOW"
    BY <2>1, <2>2 DEF GameInv, TypeOK, NoGame
  <2>3. CASE phase # "HACK_WINDOW"
    <3>1. game.kind = "BOMB_PROTOCOL" =>
              game.strikes \in 0 .. MaxStrikes /\ (game.strikes = MaxStrikes => phase = "RESULTS")
      BY <2>3, GameOfKind DEF GameInv, BombGame, IsComplete
    <3>2. game.people \subseteq Player /\ game.kind \in Kinds
      BY <2>3 DEF GameInv, IsGame
    <3> QED BY <2>1, <3>1, <3>2 DEF GameInv, TypeOK
  <2> QED BY <2>2, <2>3
<1> QED BY <1>1, PlayCorrect, PTL

\* Nobody is passed over and nobody has two turns.
THEOREM TurnsCorrect == Spec => []TurnsAreTaken
<1>1. GameInv => TurnsAreTaken
  <2> SUFFICES ASSUME GameInv PROVE TurnsAreTaken
    OBVIOUS
  <2>1. CASE phase = "HACK_WINDOW"
    BY <2>1 DEF GameInv, NoGame, TurnsAreTaken
  <2>2. CASE game.kind = "DESCRIBE_IT" /\ DescribeItGame(game)
    <3>1. DOMAIN game.order = 1 .. Len(game.order)
      BY <2>2 DEF DescribeItGame, IsRota
    <3> QED BY <2>2, <3>1 DEF DescribeItGame, TurnsAreTaken
  <2>3. CASE game.kind = "DEFEND_IT" /\ DefendItGame(game)
    <3>1. DOMAIN game.order = 1 .. Len(game.order) /\ game.index \in Int
      BY <2>3 DEF DefendItGame, IsRota
    <3>2. ASSUME NEW i \in DOMAIN game.order
          PROVE  LET turn == game.turns[game.order[i]]
                 IN  /\ TurnOver(game, game.order[i]) <=> (i < game.index)
                     /\ (i < game.index) =>
                            turn.question \in {"FINISHED", "TIMEOUT"} /\ turn.asker # game.order[i]
                     /\ (i > game.index) => turn = NoTurn
      <4> DEFINE turn == game.turns[game.order[i]]
      <4>1. IsTurn(game, i) /\ i \in Int
        BY <2>3, <3>1 DEF DefendItGame
      <4>2. game.asks[game.order[i]] # game.order[i]
        BY <2>3, <3>1, OnStage DEF DefendItGame
      <4>3. CASE i < game.index
        <5>1. /\ turn.question \in {"FINISHED", "TIMEOUT"}
              /\ turn.response \in {"FINISHED", "TIMEOUT"}
              /\ turn # NoTurn /\ turn.asker = game.asks[game.order[i]]
          BY <4>1, <4>3 DEF IsTurn, NoTurn
        <5>2. ~(i > game.index)
          BY <3>1, <4>1, <4>3
        <5> QED BY <4>2, <4>3, <5>1, <5>2 DEF TurnOver
      <4>4. CASE i > game.index
        <5>1. turn = NoTurn /\ ~(i < game.index)
          BY <3>1, <4>1, <4>4 DEF IsTurn
        <5> QED BY <5>1 DEF TurnOver
      <4>5. CASE i = game.index
        <5>1. ~(i < game.index) /\ ~(i > game.index)
          BY <4>1, <4>5
        <5>2. turn = NoTurn \/ turn.response = "PENDING"
          BY <4>1, <4>5 DEF IsTurn
        <5> QED BY <5>1, <5>2 DEF TurnOver
      <4> QED BY <3>1, <4>1, <4>3, <4>4, <4>5
    <3> QED BY <2>3, <3>2 DEF DefendItGame, TurnsAreTaken
  <2>4. CASE game.kind = "PREDICT_THEM" /\ PredictThemGame(game)
    BY <2>4 DEF PredictThemGame, TurnsAreTaken
  <2>5. CASE game.kind \notin {"DESCRIBE_IT", "DEFEND_IT", "PREDICT_THEM"}
    BY <2>5 DEF TurnsAreTaken
  <2> QED BY <2>1, <2>2, <2>3, <2>4, <2>5, GameOfKind DEF GameInv
<1> QED BY <1>1, PlayCorrect, PTL

-----------------------------------------------------------------------------
(* The steps of a game *)

\* From g to h a game is in the same step, or has one left less.
GoesOn(g, h) ==
    \/ InternalStep(h) = InternalStep(g) /\ StepsLeft(h) = StepsLeft(g)
    \/ StepsLeft(h) = StepsLeft(g) - 1

\* The arithmetic of what is left of n turns with the one at i on stage.
LEMMA TurnsLeft ==
    ASSUME NEW n \in Nat, NEW i \in Nat
    PROVE  /\ \A k \in 1 .. 4 : i \in 1 .. n =>
                  /\ n + 2 - i \in Nat \ {0} /\ n + 1 - i \in Nat \ {0}
                  /\ 3 * (n - i) + k \in Nat \ {0}
           /\ n + 1 - (i + 1) = (n + 1 - i) - 1 /\ n + 1 - i = (n + 2 - i) - 1
           /\ 3 * (n - i) + 3 = (3 * (n - i) + 4) - 1
           /\ 3 * (n - i) + 2 = (3 * (n - i) + 3) - 1
           /\ 3 * (n - i) + 1 = (3 * (n - i) + 2) - 1
           /\ 3 * (n - (i + 1)) + 3 = (3 * (n - i) + 1) - 1
OBVIOUS

\* The parts of a turn.
LEMMA PartsOfATurn ==
    /\ PartsLeft("PREP") = 4 /\ PartsLeft("DEFENCE") = 3
    /\ PartsLeft("FOLLOW_UP_QUESTION") = 2 /\ PartsLeft("FOLLOW_UP_RESPONSE") = 1
    /\ \A step : PartsLeft(step) \in 1 .. 4
BY DEF PartsLeft

\* A game that is not over has steps left.
LEMMA SomeStepsLeft ==
    ASSUME NEW g, IsGame(g), ~IsComplete(g)
    PROVE  StepsLeft(g) \in Nat \ {0}
<1> DEFINE n == Len(g.order)
           i == g.index
<1>1. CASE g.kind = "DESCRIBE_IT" /\ DescribeItGame(g)
  <2>1. n \in Nat /\ i \in 1 .. n /\ i \in Nat
    BY <1>1 DEF DescribeItGame, IsRota, IsComplete
  <2>2. StepsLeft(g) = n + 2 - i \/ StepsLeft(g) = n + 1 - i
    BY <1>1 DEF StepsLeft
  <2> HIDE DEF n, i
  <2>3. n + 2 - i \in Nat \ {0} /\ n + 1 - i \in Nat \ {0}
    BY <2>1, TurnsLeft
  <2> QED BY <2>2, <2>3
<1>2. CASE g.kind = "DEFEND_IT" /\ DefendItGame(g)
  <2>1. n \in Nat /\ i \in 1 .. n /\ i \in Nat
    BY <1>2 DEF DefendItGame, IsRota, IsComplete
  <2>2. StepsLeft(g) = 3 * (n - i) + PartsLeft(g.step)
    BY <1>2 DEF StepsLeft
  <2> HIDE DEF n, i
  <2> QED BY <2>1, <2>2, TurnsLeft, PartsOfATurn
<1>3. CASE g.kind \notin {"DESCRIBE_IT", "DEFEND_IT"}
  BY <1>3 DEF StepsLeft
<1> QED BY <1>1, <1>2, <1>3, GameOfKind

\* A turn at speaking ends, and there is one less to come.
LEMMA SpeakingGoesOn ==
    ASSUME NEW g, DescribeItGame(g), NEW r
    PROVE  AdvanceTurn(g, r).kind = "DESCRIBE_IT" /\ GoesOn(g, AdvanceTurn(g, r))
<1> DEFINE h == AdvanceTurn(g, r)
           turns == [g.turns EXCEPT ![g.order[g.index]] = r]
           step == IF g.index = Len(g.order) THEN "COMPLETED" ELSE "SPEAKING"
<1>1. CASE g.step = "SPEAKING" /\ g.turns[g.order[g.index]] = NoAnswer
  <2>1. h = [g EXCEPT !.turns = turns, !.index = g.index + 1, !.step = step]
    BY <1>1 DEF AdvanceTurn, DescribeItGame, IsOver
  <2> HIDE DEF turns, h
  <2>2. h.kind = "DESCRIBE_IT" /\ h.order = g.order /\ h.index = g.index + 1 /\ h.step = step
    BY <2>1 DEF DescribeItGame, IsOver
  <2>3. Len(g.order) \in Nat /\ g.index \in Nat /\ step # "THINK" /\ g.kind = "DESCRIBE_IT"
    BY DEF DescribeItGame, IsRota
  <2>4. /\ StepsLeft(g) = Len(g.order) + 1 - g.index
        /\ StepsLeft(h) = Len(g.order) + 1 - (g.index + 1)
    BY <1>1, <2>2, <2>3 DEF StepsLeft
  <2>5. StepsLeft(h) = StepsLeft(g) - 1
    BY <2>3, <2>4, TurnsLeft
  <2> QED BY <2>2, <2>5 DEF GoesOn, h
<1>2. CASE ~(g.step = "SPEAKING" /\ g.turns[g.order[g.index]] = NoAnswer)
  BY <1>2 DEF AdvanceTurn, GoesOn, DescribeItGame
<1> QED BY <1>1, <1>2

\* The time to think is a step as well.
LEMMA DescribeItGoesOn ==
    ASSUME NEW g, DescribeItGame(g) PROVE GoesOn(g, DescribeItTimeout(g))
<1> DEFINE h == [g EXCEPT !.step = "SPEAKING"]
<1>1. CASE g.step = "THINK"
  <2>1. h.kind = "DESCRIBE_IT" /\ h.order = g.order /\ h.index = g.index /\ h.step = "SPEAKING"
    BY DEF DescribeItGame, IsOver
  <2>2. Len(g.order) \in Nat /\ g.index \in Nat /\ g.kind = "DESCRIBE_IT"
    BY DEF DescribeItGame, IsRota
  <2> HIDE DEF h
  <2>3. /\ StepsLeft(g) = Len(g.order) + 2 - g.index
        /\ StepsLeft(h) = Len(g.order) + 1 - g.index
    BY <1>1, <2>1, <2>2 DEF StepsLeft
  <2>4. StepsLeft(h) = StepsLeft(g) - 1
    BY <2>2, <2>3, TurnsLeft
  <2> QED BY <1>1, <2>4 DEF GoesOn, DescribeItTimeout, h
<1>2. CASE g.step # "THINK"
  BY <1>2, SpeakingGoesOn DEF DescribeItTimeout
<1> QED BY <1>1, <1>2

\* Each of the three parts of a turn in DEFEND_IT ends; after the last one the next
\* speaker has three more, or the game is over.
LEMMA DefendItPartsGoOn ==
    ASSUME NEW g, DefendItGame(g), NEW r
    PROVE  /\ GoesOn(g, FinishDefence(g, r)) /\ GoesOn(g, FinishQuestion(g, r))
           /\ FinishResponse(g, r).step # "COMPLETED" => GoesOn(g, FinishResponse(g, r))
<1> DEFINE now == g.order[g.index]
           n == Len(g.order)
           i == g.index
<1>1. n \in Nat /\ i \in Nat /\ g.kind = "DEFEND_IT"
  BY DEF DefendItGame, IsRota
<1>2. StepsLeft(g) = 3 * (n - i) + PartsLeft(g.step)
  BY <1>1 DEF StepsLeft
<1>3. ASSUME NEW h, h.kind = "DEFEND_IT", h.order = g.order
      PROVE  StepsLeft(h) = 3 * (n - h.index) + PartsLeft(h.step)
  BY <1>3 DEF StepsLeft
<1>4. GoesOn(g, FinishDefence(g, r))
  <2> DEFINE h == FinishDefence(g, r)
             turns == [g.turns EXCEPT ![now] =
                          [asker |-> g.asks[now], defence |-> r,
                           question |-> "PENDING", response |-> "PENDING"]]
  <2>1. CASE g.step = "DEFENCE" /\ g.turns[now] = NoTurn
    <3>1. h = [g EXCEPT !.step = "FOLLOW_UP_QUESTION", !.turns = turns]
      BY <2>1 DEF FinishDefence
    <3> HIDE DEF h, turns
    <3>2. h.kind = "DEFEND_IT" /\ h.order = g.order /\ h.index = i
          /\ h.step = "FOLLOW_UP_QUESTION"
      BY <3>1 DEF DefendItGame, IsOver
    <3> HIDE DEF n, i
    <3>3. StepsLeft(h) = 3 * (n - i) + 2 /\ StepsLeft(g) = 3 * (n - i) + 3
      BY <1>2, <1>3, <2>1, <3>2, PartsOfATurn
    <3>4. StepsLeft(h) = StepsLeft(g) - 1
      BY <1>1, <3>3, TurnsLeft
    <3> QED BY <3>4 DEF GoesOn, h
  <2>2. CASE ~(g.step = "DEFENCE" /\ g.turns[now] = NoTurn)
    BY <2>2 DEF FinishDefence, GoesOn
  <2> QED BY <2>1, <2>2
<1>5. GoesOn(g, FinishQuestion(g, r))
  <2> DEFINE h == FinishQuestion(g, r)
             turns == [g.turns EXCEPT ![now].question = r]
  <2>1. CASE g.step = "FOLLOW_UP_QUESTION" /\ g.turns[now].question = "PENDING"
    <3>1. h = [g EXCEPT !.step = "FOLLOW_UP_RESPONSE", !.turns = turns]
      BY <2>1 DEF FinishQuestion
    <3> HIDE DEF h, turns
    <3>2. h.kind = "DEFEND_IT" /\ h.order = g.order /\ h.index = i
          /\ h.step = "FOLLOW_UP_RESPONSE"
      BY <3>1 DEF DefendItGame, IsOver
    <3> HIDE DEF n, i
    <3>3. StepsLeft(h) = 3 * (n - i) + 1 /\ StepsLeft(g) = 3 * (n - i) + 2
      BY <1>2, <1>3, <2>1, <3>2, PartsOfATurn
    <3>4. StepsLeft(h) = StepsLeft(g) - 1
      BY <1>1, <3>3, TurnsLeft
    <3> QED BY <3>4 DEF GoesOn, h
  <2>2. CASE ~(g.step = "FOLLOW_UP_QUESTION" /\ g.turns[now].question = "PENDING")
    BY <2>2 DEF FinishQuestion, GoesOn
  <2> QED BY <2>1, <2>2
<1>6. FinishResponse(g, r).step # "COMPLETED" => GoesOn(g, FinishResponse(g, r))
  <2> DEFINE h == FinishResponse(g, r)
             turns == [g.turns EXCEPT ![now].response = r]
             step == IF g.index = Len(g.order) THEN "COMPLETED" ELSE "DEFENCE"
  <2>1. CASE g.step = "FOLLOW_UP_RESPONSE" /\ g.turns[now].response = "PENDING"
    <3>1. h = [g EXCEPT !.step = step, !.index = g.index + 1, !.turns = turns]
          /\ step \in {"COMPLETED", "DEFENCE"}
      BY <2>1 DEF FinishResponse
    <3> HIDE DEF h, turns, step
    <3>2. h.kind = "DEFEND_IT" /\ h.order = g.order /\ h.index = i + 1 /\ h.step = step
      BY <3>1 DEF DefendItGame, IsOver
    <3> HIDE DEF n, i
    <3>3. CASE step = "DEFENCE"
      <4>1. StepsLeft(h) = 3 * (n - (i + 1)) + 3 /\ StepsLeft(g) = 3 * (n - i) + 1
        BY <1>2, <1>3, <2>1, <3>2, <3>3, PartsOfATurn
      <4>2. StepsLeft(h) = StepsLeft(g) - 1
        BY <1>1, <4>1, TurnsLeft
      <4> QED BY <4>2 DEF GoesOn, h
    <3> QED BY <3>1, <3>2, <3>3 DEF h
  <2>2. CASE ~(g.step = "FOLLOW_UP_RESPONSE" /\ g.turns[now].response = "PENDING")
    BY <2>2 DEF FinishResponse, GoesOn
  <2> QED BY <2>1, <2>2
<1> QED BY <1>4, <1>5, <1>6

\* The time to prepare is a step as well.
LEMMA DefendItGoesOn ==
    ASSUME NEW g, DefendItGame(g), DefendItTimeout(g).step # "COMPLETED"
    PROVE  GoesOn(g, DefendItTimeout(g))
<1> DEFINE h == [g EXCEPT !.step = "DEFENCE"]
<1>1. CASE g.step = "PREP"
  <2>1. h.kind = "DEFEND_IT" /\ h.order = g.order /\ h.index = g.index /\ h.step = "DEFENCE"
    BY DEF DefendItGame, IsOver
  <2>2. Len(g.order) \in Nat /\ g.index \in Nat /\ g.kind = "DEFEND_IT"
    BY DEF DefendItGame, IsRota
  <2> HIDE DEF h
  <2>3. /\ StepsLeft(g) = 3 * (Len(g.order) - g.index) + 4
        /\ StepsLeft(h) = 3 * (Len(g.order) - g.index) + 3
    BY <1>1, <2>1, <2>2 DEF StepsLeft, PartsLeft
  <2>4. StepsLeft(h) = StepsLeft(g) - 1
    BY <2>2, <2>3, TurnsLeft
  <2> QED BY <1>1, <2>4 DEF GoesOn, DefendItTimeout, h
<1>2. CASE g.step # "PREP"
  BY <1>2, DefendItPartsGoOn DEF DefendItTimeout
<1> QED BY <1>1, <1>2

\* The votes come before the predictions.
LEMMA VotesComeFirst ==
    ASSUME NEW g, PredictThemGame(g), NEW p, NEW a, PredictThemValid(g, p, a)
    PROVE  LET step == PredictThemAct(g, p, a).step
           IN  /\ g.step # "COMPLETED" /\ step \in {"AUDIENCE_VOTE", "PREDICTION", "COMPLETED"}
               /\ step = "AUDIENCE_VOTE" => g.step = "AUDIENCE_VOTE"
<1> DEFINE given == [g.given EXCEPT ![p] = a.data]
           step == IF a.type = "SUBMIT_AUDIENCE_VOTE"
                   THEN IF AllOf(g.audience, given) THEN "PREDICTION" ELSE "AUDIENCE_VOTE"
                   ELSE IF AllOf(g.selected, given) THEN "COMPLETED" ELSE "PREDICTION"
           h == PredictThemAct(g, p, a)
<1>1. h = [g EXCEPT !.given = given, !.step = step]
  BY DEF PredictThemAct
<1>2. /\ step = "AUDIENCE_VOTE" => g.step = "AUDIENCE_VOTE"
      /\ step \in {"AUDIENCE_VOTE", "PREDICTION", "COMPLETED"} /\ g.step # "COMPLETED"
  BY DEF PredictThemValid
<1> HIDE DEF given, step, h
<1>3. h.step = step
  BY <1>1 DEF PredictThemGame, IsOver
<1> QED BY <1>2, <1>3 DEF h

\* They are not taken up again.
LEMMA PredictThemGoesOn ==
    ASSUME NEW g, PredictThemGame(g), g.step # "COMPLETED", NEW h, h.kind = "PREDICT_THEM",
           h.step \in {"AUDIENCE_VOTE", "PREDICTION"},
           h.step = "AUDIENCE_VOTE" => g.step = "AUDIENCE_VOTE"
    PROVE  GoesOn(g, h)
<1>1. g.kind = "PREDICT_THEM" /\ g.step \in {"AUDIENCE_VOTE", "PREDICTION"}
  BY DEF PredictThemGame
<1> QED BY <1>1 DEF GoesOn, StepsLeft, InternalStep

\* Whatever moves a game that is not over then: it goes on.
LEMMA ActionGoesOn ==
    ASSUME NEW g, IsGame(g), NEW p, NEW a, ValidateAction(g, p, a),
           ~IsComplete(HandleAction(g, p, a))
    PROVE  GoesOn(g, HandleAction(g, p, a))
<1> DEFINE h == HandleAction(g, p, a)
<1>1. h.kind = g.kind
  BY ActionKeeps
<1>2. CASE g.kind = "PREDICT_THEM" /\ PredictThemGame(g)
  <2>1. h = PredictThemAct(g, p, a) /\ PredictThemValid(g, p, a) /\ h.step # "COMPLETED"
    BY <1>1, <1>2 DEF HandleAction, ValidateAction, IsComplete
  <2>2. /\ g.step # "COMPLETED" /\ h.step \in {"AUDIENCE_VOTE", "PREDICTION"}
        /\ h.step = "AUDIENCE_VOTE" => g.step = "AUDIENCE_VOTE"
    BY <1>2, <2>1, VotesComeFirst
  <2> HIDE DEF h
  <2>3. GoesOn(g, h)
    BY <1>1, <1>2, <2>2, PredictThemGoesOn
  <2> QED BY <2>3 DEF h
<1>3. CASE g.kind = "DESCRIBE_IT" /\ DescribeItGame(g)
  <2>1. h = AdvanceTurn(g, "FINISHED")
    BY <1>3 DEF HandleAction, DescribeItAct
  <2> QED BY <1>3, <2>1, SpeakingGoesOn
<1>4. CASE g.kind = "DEFEND_IT" /\ DefendItGame(g)
  <2>1. h = DefendItAct(g, p, a) /\ h.step # "COMPLETED"
    BY <1>1, <1>4 DEF HandleAction, IsComplete
  <2> QED BY <1>4, <2>1, DefendItPartsGoOn DEF DefendItAct
<1>5. CASE g.kind \notin {"PREDICT_THEM", "DESCRIBE_IT", "DEFEND_IT"}
  <2> HIDE DEF h
  <2>1. GoesOn(g, h)
    BY <1>1, <1>5 DEF GoesOn, StepsLeft, InternalStep
  <2> QED BY <2>1 DEF h
<1> QED BY <1>2, <1>3, <1>4, <1>5, GameOfKind

\* So does a timeout.
LEMMA TimeoutGoesOn ==
    ASSUME NEW g, IsGame(g), ~IsComplete(HandleTimeout(g)) PROVE GoesOn(g, HandleTimeout(g))
<1> DEFINE h == HandleTimeout(g)
<1>1. h.kind = g.kind
  BY TimeoutKeeps
<1>2. CASE g.kind = "PREDICT_THEM" /\ PredictThemGame(g)
  <2>1. h = PredictThemTimeout(g) /\ h.step # "COMPLETED"
    BY <1>1, <1>2 DEF HandleTimeout, IsComplete
  <2>2. h.step = IF g.step = "AUDIENCE_VOTE" THEN "PREDICTION" ELSE "COMPLETED"
    BY <1>2, <2>1 DEF PredictThemTimeout, PredictThemGame, IsOver
  <2>3. g.step # "COMPLETED" /\ h.step = "PREDICTION"
    BY <2>1, <2>2
  <2> HIDE DEF h
  <2>4. GoesOn(g, h)
    BY <1>1, <1>2, <2>3, PredictThemGoesOn
  <2> QED BY <2>4 DEF h
<1>3. CASE g.kind = "DESCRIBE_IT" /\ DescribeItGame(g)
  BY <1>3, DescribeItGoesOn DEF HandleTimeout
<1>4. CASE g.kind = "DEFEND_IT" /\ DefendItGame(g)
  <2>1. h = DefendItTimeout(g) /\ h.step # "COMPLETED"
    BY <1>1, <1>4 DEF HandleTimeout, IsComplete
  <2> QED BY <1>4, <2>1, DefendItGoesOn
<1>5. CASE g.kind \notin {"PREDICT_THEM", "DESCRIBE_IT", "DEFEND_IT"}
  BY <1>5 DEF HandleTimeout, GoesOn
<1> QED BY <1>2, <1>3, <1>4, <1>5, GameOfKind

\* The state of play of a game h that goes on from g: its steps pay for its timers.
LEMMA StepsPay ==
    ASSUME GameInv, phase = "PLAY", NEW g, IsGame(g), ~IsComplete(g), GoesOn(game, g),
           \/ InternalStep(g) # InternalStep(game) /\ NewStep(g)
           \/ Stay(g)
    PROVE  StepsLeft(game') \in 1 .. (StepsLeft(game) - (phaseId' - phaseId))
<1>1. phaseId \in Nat /\ StepsLeft(game) \in Nat \ {0} /\ StepsLeft(g) \in Nat \ {0}
  BY SomeStepsLeft DEF GameInv
<1>2. CASE InternalStep(g) # InternalStep(game) /\ NewStep(g)
  <2>1. game' = g /\ phaseId' = phaseId + 1 /\ StepsLeft(g) = StepsLeft(game) - 1
    BY <1>2 DEF NewStep, GoesOn
  <2>2. phaseId' - phaseId = 1
    BY <1>1, <2>1
  <2>3. StepsLeft(g) \in 1 .. (StepsLeft(game) - 1)
    BY <1>1, <2>1
  <2> QED BY <2>1, <2>2, <2>3
<1>3. CASE Stay(g)
  <2>1. game' = g /\ phaseId' = phaseId
    BY <1>3 DEF Stay
  <2>2. phaseId' - phaseId = 0
    BY <1>1, <2>1
  <2>3. StepsLeft(g) \in 1 .. (StepsLeft(game) - 0)
    BY <1>1 DEF GoesOn
  <2> QED BY <2>1, <2>2, <2>3
<1> QED BY <1>2, <1>3

\* Every timer within a play costs a step of the game, and no step is given back.
THEOREM TimersAreCounted == Spec => TimersRunOut
<1>1. ASSUME GameInv, Next, phase = "PLAY", phase' = "PLAY"
      PROVE  StepsLeft(game') \in 1 .. (StepsLeft(game) - (phaseId' - phaseId))
  <2>1. IsGame(game) /\ ~IsComplete(game) /\ phaseId \in Nat
    BY <1>1 DEF GameInv
  <2>2. ASSUME NEW p, NEW a, NEW m, Send(p, a) \/ Lose(m)
        PROVE  StepsLeft(game') \in 1 .. (StepsLeft(game) - (phaseId' - phaseId))
    <3>1. game' = game /\ phaseId' = phaseId
      BY <2>2 DEF Send, Lose
    <3>2. phaseId' - phaseId = 0 /\ StepsLeft(game) \in Nat \ {0}
      BY <2>1, <3>1, SomeStepsLeft
    <3>3. StepsLeft(game) \in 1 .. (StepsLeft(game) - 0)
      BY <3>2
    <3> QED BY <3>1, <3>2, <3>3
  <2>3. ASSUME NEW m \in wire, Accept(m)
        PROVE  StepsLeft(game') \in 1 .. (StepsLeft(game) - (phaseId' - phaseId))
    <3> DEFINE g == HandleAction(game, m.player, m.action)
    <3>1. ValidateAction(game, m.player, m.action)
      BY <2>3 DEF Accept
    <3>2. /\ ~IsComplete(g)
          /\ (InternalStep(g) # InternalStep(game) /\ NewStep(g)) \/ Stay(g)
      BY <1>1, <2>3 DEF Accept, Complete
    <3>3. IsGame(g) /\ GoesOn(game, g)
      BY <2>1, <3>1, <3>2, ActionKeeps, ActionGoesOn
    <3> HIDE DEF g
    <3> QED BY <1>1, <3>2, <3>3, StepsPay
  <2>4. ASSUME TimerExpired
        PROVE  StepsLeft(game') \in 1 .. (StepsLeft(game) - (phaseId' - phaseId))
    <3> DEFINE g == HandleTimeout(game)
    <3>1. ~IsComplete(g) /\ InternalStep(g) # InternalStep(game) /\ NewStep(g)
      BY <1>1, <2>4 DEF TimerExpired, Complete
    <3>2. IsGame(g) /\ GoesOn(game, g)
      BY <2>1, <3>1, TimeoutKeeps, TimeoutGoesOn
    <3> HIDE DEF g
    <3> QED BY <1>1, <3>1, <3>2, StepsPay
  <2>5. ~HostForceEnd
    BY <1>1 DEF HostForceEnd, Complete
  <2>6. ~(\E kind \in Kinds : ProceedToInstructions(kind)) /\ ~InstructionsOver
        /\ ~SpecialIntroOver
    BY <1>1 DEF ProceedToInstructions, InstructionsOver, SpecialIntroOver
  <2> QED BY <1>1, <2>2, <2>3, <2>4, <2>5, <2>6 DEF Next
<1>2. GameInv /\ [Next]_vars =>
          [phase = "PLAY" /\ phase' = "PLAY" =>
              StepsLeft(game') \in 1 .. (StepsLeft(game) - (phaseId' - phaseId))]_vars
  BY <1>1
<1> QED BY <1>2, PlayCorrect, PTL DEF Spec, TimersRunOut

-----------------------------------------------------------------------------
(* What the others see of an answer *)

\* Two states of a game that differ in p's answer only, which p has given in both.
OtherAnswer(h, g, p) ==
    /\ IsOver(h, DOMAIN g) /\ \A field \in DOMAIN g \ {"given"} : h[field] = g[field]
    /\ IsOver(h.given, g.people) /\ \A q \in g.people : q # p => h.given[q] = g.given[q]
    /\ g.given[p] # NoAnswer /\ h.given[p] # NoAnswer

\* Putting another answer in the place of the given one.
LEMMA OtherAnswerIs ==
    ASSUME NEW g, "given" \in DOMAIN g, IsOver(g.given, g.people), IsOver(g, DOMAIN g),
           NEW p \in g.people, g.given[p] # NoAnswer, NEW d, d # NoAnswer
    PROVE  OtherAnswer([g EXCEPT !.given[p] = d], g, p)
BY DEF OtherAnswer, IsOver

\* As many have answered.
LEMMA SameCount ==
    ASSUME NEW h, NEW g, NEW p \in g.people, OtherAnswer(h, g, p), IsOver(g.given, g.people)
    PROVE  SubmittedCount(h.given) = SubmittedCount(g.given)
<1>1. DOMAIN h.given = g.people /\ DOMAIN g.given = g.people
  BY DEF OtherAnswer, IsOver
<1>2. \A q \in g.people : (h.given[q] # NoAnswer) <=> (g.given[q] # NoAnswer)
  BY DEF OtherAnswer
<1>3. {q \in DOMAIN h.given : h.given[q] # NoAnswer}
      = {q \in DOMAIN g.given : g.given[q] # NoAnswer}
  BY <1>1, <1>2
<1> QED BY <1>3 DEF SubmittedCount

\* The answer is not on the television, nor shown to another.
Hidden(h, g, p) ==
    /\ TvView(h, FALSE) = TvView(g, FALSE)
    /\ \A q \in Player \ {p} : PlayerView(h, q, FALSE) = PlayerView(g, q, FALSE)

\* RANK_IT: others only see how many have answered.
LEMMA RankItHides ==
    ASSUME NEW g, RankItGame(g), NEW p \in g.people, NEW h, OtherAnswer(h, g, p)
    PROVE  Hidden(h, g, p)
<1>1. /\ h.kind = "RANK_IT" /\ g.kind = "RANK_IT" /\ h.people = g.people
      /\ h.prompts = g.prompts /\ h.orders = g.orders /\ h.status = g.status
  BY DEF RankItGame, OtherAnswer, IsOver
<1>2. SubmittedCount(h.given) = SubmittedCount(g.given)
  BY SameCount DEF RankItGame
<1>3. \A q \in g.people : q # p => h.given[q] = g.given[q]
  BY DEF OtherAnswer
<1>4. TvView(h, FALSE) = TvView(g, FALSE)
  BY <1>1, <1>2 DEF TvView, RankItTvView
<1>5. ASSUME NEW q \in Player \ {p} PROVE PlayerView(h, q, FALSE) = PlayerView(g, q, FALSE)
  <2>1. q \in g.people => RankItPlayerView(h, q, FALSE) = RankItPlayerView(g, q, FALSE)
    BY <1>1, <1>3, <1>5 DEF RankItPlayerView
  <2> QED BY <1>1, <2>1
          DEF PlayerView, ParticipantView, SpectatorView, RankItSpectatorView
<1> QED BY <1>4, <1>5 DEF Hidden

\* COMPLETE_IT: the same.
LEMMA CompleteItHides ==
    ASSUME NEW g, CompleteItGame(g), NEW p \in g.people, NEW h, OtherAnswer(h, g, p)
    PROVE  Hidden(h, g, p)
<1>1. /\ h.kind = "COMPLETE_IT" /\ g.kind = "COMPLETE_IT" /\ h.people = g.people
      /\ h.prompts = g.prompts /\ h.status = g.status
  BY DEF CompleteItGame, OtherAnswer, IsOver
<1>2. SubmittedCount(h.given) = SubmittedCount(g.given)
  BY SameCount DEF CompleteItGame
<1>3. \A q \in g.people : q # p => h.given[q] = g.given[q]
  BY DEF OtherAnswer
<1>4. TvView(h, FALSE) = TvView(g, FALSE)
  BY <1>1, <1>2 DEF TvView, CompleteItTvView
<1>5. ASSUME NEW q \in Player \ {p} PROVE PlayerView(h, q, FALSE) = PlayerView(g, q, FALSE)
  <2>1. q \in g.people => CompleteItPlayerView(h, q, FALSE) = CompleteItPlayerView(g, q, FALSE)
    BY <1>1, <1>3, <1>5 DEF CompleteItPlayerView
  <2> QED BY <1>1, <2>1
          DEF PlayerView, ParticipantView, SpectatorView, CompleteItSpectatorView
<1> QED BY <1>4, <1>5 DEF Hidden

\* DRAW_IT: the same.
LEMMA DrawItHides ==
    ASSUME NEW g, DrawItGame(g), NEW p \in g.people, NEW h, OtherAnswer(h, g, p)
    PROVE  Hidden(h, g, p)
<1>1. /\ h.kind = "DRAW_IT" /\ g.kind = "DRAW_IT" /\ h.people = g.people
      /\ h.prompts = g.prompts /\ h.status = g.status
  BY DEF DrawItGame, OtherAnswer, IsOver
<1>2. SubmittedCount(h.given) = SubmittedCount(g.given)
  BY SameCount DEF DrawItGame
<1>3. \A q \in g.people : q # p => h.given[q] = g.given[q]
  BY DEF OtherAnswer
<1>4. TvView(h, FALSE) = TvView(g, FALSE)
  BY <1>1, <1>2 DEF TvView, DrawItTvView
<1>5. ASSUME NEW q \in Player \ {p} PROVE PlayerView(h, q, FALSE) = PlayerView(g, q, FALSE)
  <2>1. q \in g.people => DrawItPlayerView(h, q, FALSE) = DrawItPlayerView(g, q, FALSE)
    BY <1>1, <1>3, <1>5 DEF DrawItPlayerView
  <2> QED BY <1>1, <2>1
          DEF PlayerView, ParticipantView, SpectatorView, DrawItSpectatorView
<1> QED BY <1>4, <1>5 DEF Hidden

\* PREDICT_THEM: the same, of the votes and of the predictions.
LEMMA PredictThemHides ==
    ASSUME NEW g, PredictThemGame(g), NEW p \in g.people, NEW h, OtherAnswer(h, g, p)
    PROVE  Hidden(h, g, p)
<1>1. /\ h.kind = "PREDICT_THEM" /\ g.kind = "PREDICT_THEM" /\ h.people = g.people
      /\ h.selected = g.selected /\ h.audience = g.audience
      /\ h.prompts = g.prompts /\ h.step = g.step
  BY DEF PredictThemGame, OtherAnswer, IsOver
<1>2. /\ \A q \in g.people : q # p => h.given[q] = g.given[q]
      /\ \A q \in g.people : (h.given[q] # NoAnswer) <=> (g.given[q] # NoAnswer)
  BY DEF OtherAnswer
<1>3. TvView(h, FALSE) = TvView(g, FALSE)
  <2> DEFINE players == IF g.step = "AUDIENCE_VOTE" THEN g.audience ELSE g.selected
  <2>1. players \subseteq g.people
    BY DEF PredictThemGame
  <2> HIDE DEF players
  <2>2. {q \in players : h.given[q] # NoAnswer} = {q \in players : g.given[q] # NoAnswer}
    BY <1>2, <2>1
  <2>3. PredictThemTvView(h, FALSE) = PredictThemTvView(g, FALSE)
    BY <1>1, <2>2 DEF PredictThemTvView, players
  <2> QED BY <1>1, <2>3 DEF TvView
<1>4. ASSUME NEW q \in Player \ {p} PROVE PlayerView(h, q, FALSE) = PlayerView(g, q, FALSE)
  <2>1. q \in g.people => PredictThemPlayerView(h, q, FALSE) = PredictThemPlayerView(g, q, FALSE)
    BY <1>1, <1>2, <1>4 DEF PredictThemPlayerView
  <2> QED BY <1>1, <2>1
          DEF PlayerView, ParticipantView, SpectatorView, PredictThemSpectatorView
<1> QED BY <1>3, <1>4 DEF Hidden

\* What a module stores of a valid answer is an answer.
LEMMA StoredAnswer ==
    ASSUME NEW g, g.kind \in {"RANK_IT", "COMPLETE_IT", "DRAW_IT", "PREDICT_THEM"},
           NEW people, IsOver(g.given, people), NEW p \in people,
           "given" \in DOMAIN g, NEW a, a.data # NoAnswer, ValidateAction(g, p, a)
    PROVE  HandleAction(g, p, a).given[p] # NoAnswer
<1>1. CASE g.kind = "RANK_IT"
  BY <1>1 DEF HandleAction, RankItAct, IsOver
<1>2. CASE g.kind = "COMPLETE_IT"
  <2>1. NormalizeAnswer(a.data) # NoAnswer
    BY <1>2, MinigamesAssumption DEF ValidateAction, CompleteItValid
  <2> QED BY <1>2, <2>1 DEF HandleAction, CompleteItAct, IsOver
<1>3. CASE g.kind = "DRAW_IT"
  BY <1>3 DEF HandleAction, DrawItAct, IsOver
<1>4. CASE g.kind = "PREDICT_THEM"
  BY <1>4 DEF HandleAction, PredictThemAct, IsOver
<1> QED BY <1>1, <1>2, <1>3, <1>4

\* What a participant answered makes no difference to the others.
THEOREM AnswersKept == Spec => []AnswersAreHidden
<1>1. GameInv => AnswersAreHidden
  <2> SUFFICES ASSUME GameInv, HasAnswers, ~Revealed, NEW p \in game.people,
                      game.given[p] # NoAnswer, NEW h \in OtherAnswers(p)
               PROVE  Hidden(h, game, p)
    BY DEF AnswersAreHidden, Hidden
  <2>1. game.kind \in Kinds /\ IsGame(game)
    BY DEF GameInv, NoGame, HasAnswers
  <2> DEFINE asked == AskedOf(p)
  <2>2. PICK a \in Inputs[game.kind] :
            /\ ValidateAction(asked, p, a)
            /\ h = [game EXCEPT !.given[p] = HandleAction(asked, p, a).given[p]]
    BY DEF OtherAnswers
  <2>3. "given" \in DOMAIN game /\ IsOver(game.given, game.people) /\ IsOver(game, DOMAIN game)
    BY <2>1, GameOfKind
       DEF HasAnswers, RankItGame, CompleteItGame, DrawItGame, PredictThemGame, IsOver
  <2>4. asked.kind = game.kind /\ "given" \in DOMAIN asked /\ IsOver(asked.given, game.people)
    BY <2>1, <2>3, GameOfKind DEF AskedOf, IsOver, HasAnswers, PredictThemGame
  <2>5. a.data # NoAnswer
    BY <2>1, <2>2, MinigamesAssumption
  <2> HIDE DEF asked
  <2>6. HandleAction(asked, p, a).given[p] # NoAnswer
    BY <2>1, <2>2, <2>4, <2>5, StoredAnswer DEF HasAnswers
  <2>7. OtherAnswer(h, game, p)
    BY <2>2, <2>3, <2>6, OtherAnswerIs
  <2> QED BY <2>1, <2>7, GameOfKind, RankItHides, CompleteItHides, DrawItHides, PredictThemHides
          DEF HasAnswers
<1> QED BY <1>1, PlayCorrect, PTL


-----------------------------------------------------------------------------
(* What the others see of a prompt, or of the bomb's solution *)

\* Two states of a game that differ in p's prompt only.
OtherPrompt(h, g, p) ==
    /\ \A field \in DOMAIN g \ {"prompts"} : h[field] = g[field]
    /\ \A q \in DOMAIN g.prompts : q # p => h.prompts[q] = g.prompts[q]

\* Putting another prompt in the place of the one dealt.
LEMMA OtherPromptIs ==
    ASSUME NEW g, NEW fields, "prompts" \in fields, IsOver(g, fields),
           NEW people, IsOver(g.prompts, people), NEW p \in people, NEW variant
    PROVE  OtherPrompt([g EXCEPT !.prompts[p] = variant], g, p)
BY DEF OtherPrompt, IsOver

\* Nobody but p is shown p's prompt.
Private(h, g, p, reveal) ==
    /\ TvView(h, reveal) = TvView(g, reveal)
    /\ \A q \in Player \ {p} : PlayerView(h, q, reveal) = PlayerView(g, q, reveal)

\* Games of one answer each: a prompt is in its own participant's view only.
LEMMA AnswerGamesPrivate ==
    ASSUME NEW g, RankItGame(g) \/ CompleteItGame(g) \/ DrawItGame(g),
           NEW p, NEW h, OtherPrompt(h, g, p), NEW reveal \in BOOLEAN
    PROVE  Private(h, g, p, reveal)
<1>1. /\ h.kind = g.kind /\ h.people = g.people /\ h.given = g.given /\ h.status = g.status
      /\ \A q \in g.people : q # p => h.prompts[q] = g.prompts[q]
  BY DEF RankItGame, CompleteItGame, DrawItGame, OtherPrompt, IsOver
<1>2. CASE RankItGame(g)
  <2>1. g.kind = "RANK_IT" /\ h.orders = g.orders
    BY <1>2 DEF RankItGame, OtherPrompt, IsOver
  <2>2. RankItTvView(h, reveal) = RankItTvView(g, reveal)
    BY <1>1 DEF RankItTvView
  <2>3. RankItSpectatorView(h, reveal) = RankItSpectatorView(g, reveal)
    BY <1>1 DEF RankItTvView, RankItSpectatorView
  <2>4. \A q \in g.people : q # p => RankItPlayerView(h, q, reveal) = RankItPlayerView(g, q, reveal)
    BY <1>1, <2>1 DEF RankItPlayerView
  <2> QED BY <1>1, <2>1, <2>2, <2>3, <2>4
          DEF Private, TvView, PlayerView, ParticipantView, SpectatorView
<1>3. CASE CompleteItGame(g)
  <2>1. g.kind = "COMPLETE_IT"
    BY <1>3 DEF CompleteItGame
  <2>2. CompleteItTvView(h, reveal) = CompleteItTvView(g, reveal)
    BY <1>1 DEF CompleteItTvView
  <2>3. CompleteItSpectatorView(h, reveal) = CompleteItSpectatorView(g, reveal)
    BY <1>1 DEF CompleteItTvView, CompleteItSpectatorView
  <2>4. \A q \in g.people : q # p =>
            CompleteItPlayerView(h, q, reveal) = CompleteItPlayerView(g, q, reveal)
    BY <1>1 DEF CompleteItPlayerView
  <2> QED BY <1>1, <2>1, <2>2, <2>3, <2>4
          DEF Private, TvView, PlayerView, ParticipantView, SpectatorView
<1>4. CASE DrawItGame(g)
  <2>1. g.kind = "DRAW_IT"
    BY <1>4 DEF DrawItGame
  <2>2. \A shown \in BOOLEAN : DrawItTvView(h, shown) = DrawItTvView(g, shown)
    BY <1>1 DEF DrawItTvView
  <2>3. DrawItSpectatorView(h, reveal) = DrawItSpectatorView(g, reveal)
    BY <1>1, <2>2 DEF DrawItSpectatorView
  <2>4. \A q \in g.people : q # p => DrawItPlayerView(h, q, reveal) = DrawItPlayerView(g, q, reveal)
    BY <1>1, <2>2 DEF DrawItPlayerView
  <2> QED BY <1>1, <2>1, <2>2, <2>3, <2>4
          DEF Private, TvView, PlayerView, ParticipantView, SpectatorView
<1> QED BY <1>2, <1>3, <1>4

\* PREDICT_THEM: the same; the results are the votes and predictions.
LEMMA PredictThemPrivate ==
    ASSUME NEW g, PredictThemGame(g), NEW p, NEW h, OtherPrompt(h, g, p), NEW reveal \in BOOLEAN
    PROVE  Private(h, g, p, reveal)
<1>1. /\ g.kind = "PREDICT_THEM" /\ h.kind = g.kind /\ h.people = g.people
      /\ h.selected = g.selected /\ h.audience = g.audience /\ h.given = g.given
      /\ h.step = g.step
      /\ \A q \in g.selected : q # p => h.prompts[q] = g.prompts[q]
  BY DEF PredictThemGame, OtherPrompt, IsOver
<1>2. \A choice : Votes(h, choice) = Votes(g, choice)
  BY <1>1 DEF Votes
<1>3. Majority(h) = Majority(g)
  BY <1>2 DEF Majority
<1>4. PredictThemResult(h) = PredictThemResult(g)
  BY <1>1, <1>2, <1>3 DEF PredictThemResult
<1>5. PredictThemTvView(h, reveal) = PredictThemTvView(g, reveal)
  BY <1>1, <1>4 DEF PredictThemTvView
<1>6. PredictThemSpectatorView(h, reveal) = PredictThemSpectatorView(g, reveal)
  BY <1>1, <1>4 DEF PredictThemSpectatorView
<1>7. \A q \in g.people : q # p =>
          PredictThemPlayerView(h, q, reveal) = PredictThemPlayerView(g, q, reveal)
  BY <1>1, <1>4 DEF PredictThemPlayerView
<1> QED BY <1>1, <1>5, <1>6, <1>7
        DEF Private, TvView, PlayerView, ParticipantView, SpectatorView

\* DESCRIBE_IT: the same; the results are both words.
LEMMA DescribeItPrivate ==
    ASSUME NEW g, DescribeItGame(g), NEW p, NEW h, OtherPrompt(h, g, p), NEW reveal \in BOOLEAN
    PROVE  Private(h, g, p, reveal)
<1>1. /\ g.kind = "DESCRIBE_IT" /\ h.kind = g.kind /\ h.people = g.people
      /\ h.step = g.step /\ h.order = g.order /\ h.index = g.index /\ h.turns = g.turns
      /\ \A q \in g.people : q # p => h.prompts[q] = g.prompts[q]
  BY DEF DescribeItGame, OtherPrompt, IsOver
<1>2. DescribeItProgress(h) = DescribeItProgress(g)
  BY <1>1 DEF DescribeItProgress
<1>3. DescribeItTvView(h, reveal) = DescribeItTvView(g, reveal)
  BY <1>2 DEF DescribeItTvView
<1>4. \A q : Speaks(h, q) = Speaks(g, q)
  BY <1>1 DEF Speaks
<1>5. \A q \in g.people : q # p =>
          DescribeItPlayerView(h, q, reveal) = DescribeItPlayerView(g, q, reveal)
  BY <1>1, <1>2, <1>4 DEF DescribeItPlayerView
<1> QED BY <1>1, <1>3, <1>5
        DEF Private, TvView, PlayerView, ParticipantView, SpectatorView, DescribeItSpectatorView

\* DEFEND_IT: the same; the results are both statements.
LEMMA DefendItPrivate ==
    ASSUME NEW g, DefendItGame(g), NEW p, NEW h, OtherPrompt(h, g, p), NEW reveal \in BOOLEAN
    PROVE  Private(h, g, p, reveal)
<1>1. /\ g.kind = "DEFEND_IT" /\ h.kind = g.kind /\ h.people = g.people
      /\ h.step = g.step /\ h.order = g.order /\ h.index = g.index /\ h.turns = g.turns
      /\ h.asks = g.asks
      /\ \A q \in g.people : q # p => h.prompts[q] = g.prompts[q]
  BY DEF DefendItGame, OtherPrompt, IsOver
<1>2. \A q : (Defends(h, q) <=> Defends(g, q)) /\ (Asks(h, q) <=> Asks(g, q))
             /\ (TurnOver(h, q) <=> TurnOver(g, q))
  BY <1>1 DEF Defends, Asks, TurnOver
<1>3. DefendItProgress(h) = DefendItProgress(g)
  BY <1>1, <1>2 DEF DefendItProgress
<1>4. DefendItTvView(h, reveal) = DefendItTvView(g, reveal)
  BY <1>3 DEF DefendItTvView
<1>5. \A q \in g.people : q # p =>
          DefendItPlayerView(h, q, reveal) = DefendItPlayerView(g, q, reveal)
  BY <1>1, <1>2, <1>3 DEF DefendItPlayerView
<1> QED BY <1>1, <1>4, <1>5
        DEF Private, TvView, PlayerView, ParticipantView, SpectatorView, DefendItSpectatorView

\* The board does not show its solution, only what was found out of it.
LEMMA SolutionPrivate ==
    ASSUME NEW g, BombGame(g), NEW h, \A field \in DOMAIN g \ {"solution"} : h[field] = g[field],
           NEW q
    PROVE  PlayerView(h, q, FALSE) = PlayerView(g, q, FALSE)
<1>1. /\ g.kind = "BOMB_PROTOCOL" /\ h.kind = g.kind /\ h.people = g.people
      /\ h.operator = g.operator /\ h.clues = g.clues /\ h.board = g.board
      /\ h.progress = g.progress /\ h.strikes = g.strikes /\ h.status = g.status
  BY DEF BombGame, IsOver
<1>2. BombPublic(h) = BombPublic(g)
  BY <1>1 DEF BombPublic
<1>3. BombPlayerView(h, q) = BombPlayerView(g, q) /\ BombSpectatorView(h) = BombSpectatorView(g)
  BY <1>1, <1>2 DEF BombPlayerView, BombSpectatorView
<1> QED BY <1>1, <1>3 DEF PlayerView, ParticipantView, SpectatorView

\* Nobody is shown another's prompt, nor the solution of the bomb.
THEOREM PromptsKept == Spec => []PromptsStayPrivate
<1>1. GameInv => PromptsStayPrivate
  <2> SUFFICES ASSUME GameInv PROVE PromptsStayPrivate
    OBVIOUS
  <2>1. ASSUME HasPrompts, NEW p \in DOMAIN game.prompts, NEW variant, NEW h,
               h = [game EXCEPT !.prompts[p] = variant]
        PROVE  Private(h, game, p, Revealed)
    <3>1. IsGame(game) /\ Revealed \in BOOLEAN
      BY <2>1 DEF GameInv, NoGame, HasPrompts, Revealed
    <3>2. /\ "prompts" \in DOMAIN game /\ IsOver(game, DOMAIN game)
          /\ IsOver(game.prompts, DOMAIN game.prompts)
      BY <2>1, <3>1, GameOfKind
         DEF HasPrompts, RankItGame, CompleteItGame, DrawItGame, PredictThemGame,
             DescribeItGame, DefendItGame, IsOver
    <3>3. OtherPrompt(h, game, p)
      BY <2>1, <3>2, OtherPromptIs
    <3> QED BY <2>1, <3>1, <3>3, GameOfKind, AnswerGamesPrivate, PredictThemPrivate,
               DescribeItPrivate, DefendItPrivate DEF HasPrompts
  <2>2. HasPrompts => \A p \in DOMAIN game.prompts : \A variant \in {"crew", "hacker"} :
            Private([game EXCEPT !.prompts[p] = variant], game, p, Revealed)
    BY <2>1
  <2>3. HasPrompts => \A p \in DOMAIN game.prompts : \A variant \in {"crew", "hacker"} :
            LET g == [game EXCEPT !.prompts[p] = variant]
            IN  /\ TvView(g, Revealed) = TvView(game, Revealed)
                /\ \A q \in Player \ {p} :
                      PlayerView(g, q, Revealed) = PlayerView(game, q, Revealed)
    BY <2>2, Zenon DEF Private
  <2>4. game.kind = "BOMB_PROTOCOL" => \A wire2 \in Wire : \A code \in Code :
            LET g == [game EXCEPT !.solution.wire = wire2, !.solution.code = code]
            IN  \A q \in Player : PlayerView(g, q, FALSE) = PlayerView(game, q, FALSE)
    <3> HAVE game.kind = "BOMB_PROTOCOL"
    <3> TAKE wire2 \in Wire
    <3> TAKE code \in Code
    <3> DEFINE h == [game EXCEPT !.solution.wire = wire2, !.solution.code = code]
    <3>1. BombGame(game)
      BY GameOfKind DEF GameInv, NoGame
    <3>2. \A field \in DOMAIN game \ {"solution"} : h[field] = game[field]
      OBVIOUS
    <3> HIDE DEF h
    <3>3. \A q \in Player : PlayerView(h, q, FALSE) = PlayerView(game, q, FALSE)
      BY <3>1, <3>2, SolutionPrivate
    <3> QED BY <3>3 DEF h
  <2> QED BY <2>3, <2>4, Zenon DEF PromptsStayPrivate
<1> QED BY <1>1, PlayCorrect, PTL

-----------------------------------------------------------------------------
(* The screens *)

\* A set of offers and the game's checks agree during play.
Agrees(offers, g, p) ==
    /\ \A a \in offers : ValidateAction(g, p, a) \/ (g.kind = "DRAW_IT" /\ ~IsDrawing(a.data))
    /\ \A a \in Inputs[g.kind] : ValidateAction(g, p, a) =>
          \E b \in offers : HandleAction(g, p, b) = HandleAction(g, p, a)

\* RANK_IT: the screen's orders are those of all cards.
LEMMA RankItScreen ==
    ASSUME NEW g, RankItGame(g), ~IsComplete(g), "RANK_IT" \in Kinds, NEW p \in g.people
    PROVE  Agrees(PlayerRankIt(ParticipantView(g, p, FALSE)), g, p)
<1> DEFINE offers == PlayerRankIt(ParticipantView(g, p, FALSE))
<1>1. g.kind = "RANK_IT" /\ g.status = "ACTIVE" /\ IsOrder(g.orders[p])
  BY DEF RankItGame, IsComplete
<1>2. offers = IF g.given[p] # NoAnswer THEN {}
               ELSE {Action("SUBMIT_RANKING", order) : order \in Orders(Card)}
  BY <1>1 DEF ParticipantView, RankItPlayerView, PlayerRankIt, IsOrder
<1> HIDE DEF offers
<1>3. Cardinality(Card) \in Nat
  BY GameScreensAssumption, FS_CardinalityType
<1>4. ASSUME NEW a \in offers PROVE ValidateAction(g, p, a)
  <2>1. PICK order \in Orders(Card) : a = Action("SUBMIT_RANKING", order)
    BY <1>2, <1>4
  <2>2. IsOrder(order)
    BY <1>3 DEF Orders, IsOrder
  <2>3. a.type = "SUBMIT_RANKING" /\ a.data = order /\ g.given[p] = NoAnswer
    BY <1>2, <1>4, <2>1 DEF Action
  <2> QED BY <1>1, <2>2, <2>3 DEF ValidateAction, RankItValid
<1>5. ASSUME NEW a \in Inputs[g.kind], ValidateAction(g, p, a)
      PROVE  \E b \in offers : HandleAction(g, p, b) = HandleAction(g, p, a)
  <2> DEFINE b == Action("SUBMIT_RANKING", a.data)
  <2>1. IsOrder(a.data) /\ g.given[p] = NoAnswer
    BY <1>1, <1>5 DEF ValidateAction, RankItValid
  <2>2. a.data \in Seq(Card)
    BY <1>1, <1>5, GameScreensAssumption
  <2>3. a.data \in Orders(Card)
    BY <2>1, <2>2 DEF Orders, IsOrder
  <2>4. b.data = a.data
    BY DEF Action
  <2>5. HandleAction(g, p, b) = HandleAction(g, p, a)
    BY <1>1, <2>4 DEF HandleAction, RankItAct
  <2> QED BY <1>2, <2>1, <2>3, <2>5
<1> QED BY <1>4, <1>5 DEF Agrees, offers

\* COMPLETE_IT: a draft that fits is a text that fits.
LEMMA CompleteItScreen ==
    ASSUME NEW g, CompleteItGame(g), ~IsComplete(g), NEW p \in g.people
    PROVE  Agrees(PlayerCompleteIt(ParticipantView(g, p, FALSE)), g, p)
<1> DEFINE offers == PlayerCompleteIt(ParticipantView(g, p, FALSE))
           drafts == {d \in Draft : d.characters > 0 /\ ~TooLong(d)}
<1>1. g.kind = "COMPLETE_IT" /\ g.status = "ACTIVE"
  BY DEF CompleteItGame, IsComplete
<1>2. offers = IF g.given[p] # NoAnswer THEN {}
               ELSE {Action("SUBMIT_TEXT", [draft EXCEPT !.blanks = 0]) : draft \in drafts}
  BY <1>1 DEF ParticipantView, CompleteItPlayerView, PlayerCompleteIt
<1> HIDE DEF offers
<1>3. MaxCharacters \in Nat
  BY GameScreensAssumption
<1>4. ASSUME NEW a \in offers PROVE ValidateAction(g, p, a)
  <2>1. PICK draft \in drafts : a = Action("SUBMIT_TEXT", [draft EXCEPT !.blanks = 0])
    BY <1>2, <1>4
  <2>2. draft.characters \in 1 .. MaxCharacters
    BY <1>3 DEF Draft, TooLong
  <2>3. a.type = "SUBMIT_TEXT" /\ a.data.characters = draft.characters /\ g.given[p] = NoAnswer
    BY <1>2, <1>4, <2>1 DEF Action, Draft
  <2> QED BY <1>1, <2>2, <2>3 DEF ValidateAction, CompleteItValid, NormalizeAnswer
<1>5. ASSUME NEW a \in Inputs[g.kind], ValidateAction(g, p, a)
      PROVE  \E b \in offers : HandleAction(g, p, b) = HandleAction(g, p, a)
  <2> DEFINE draft == [blanks |-> 0, characters |-> a.data.characters]
             b == Action("SUBMIT_TEXT", [draft EXCEPT !.blanks = 0])
  <2>1. a.data.characters \in 1 .. MaxCharacters /\ g.given[p] = NoAnswer
    BY <1>1, <1>5 DEF ValidateAction, CompleteItValid, NormalizeAnswer
  <2>2. draft \in drafts
    BY <1>3, <2>1 DEF Draft, TooLong
  <2>3. b.data.characters = a.data.characters
    BY DEF Action
  <2>4. HandleAction(g, p, b) = HandleAction(g, p, a)
    BY <1>1, <2>3 DEF HandleAction, CompleteItAct, NormalizeAnswer
  <2>5. b \in offers
    BY <1>2, <2>1, <2>2
  <2> QED BY <2>4, <2>5
<1> QED BY <1>4, <1>5 DEF Agrees, offers

\* DRAW_IT: every valid drawing fits on the canvas.
LEMMA DrawItScreen ==
    ASSUME NEW g, DrawItGame(g), ~IsComplete(g), "DRAW_IT" \in Kinds, NEW p \in g.people
    PROVE  Agrees(PlayerDrawIt(ParticipantView(g, p, FALSE)), g, p)
<1> DEFINE offers == PlayerDrawIt(ParticipantView(g, p, FALSE))
<1>1. g.kind = "DRAW_IT" /\ g.status = "ACTIVE"
  BY DEF DrawItGame, IsComplete
<1>2. offers = IF g.given[p] # NoAnswer THEN {}
               ELSE {Action("SUBMIT_DRAWING", strokes) : strokes \in Canvas}
  BY <1>1, GameScreensAssumption DEF ParticipantView, DrawItPlayerView, PlayerDrawIt
<1> HIDE DEF offers
<1>3. ASSUME NEW a \in offers PROVE ValidateAction(g, p, a) \/ ~IsDrawing(a.data)
  <2>1. PICK strokes \in Canvas : a = Action("SUBMIT_DRAWING", strokes)
    BY <1>2, <1>3
  <2>2. a.type = "SUBMIT_DRAWING" /\ g.given[p] = NoAnswer
    BY <1>2, <1>3, <2>1 DEF Action
  <2> QED BY <1>1, <2>2 DEF ValidateAction, DrawItValid
<1>4. ASSUME NEW a \in Inputs[g.kind], ValidateAction(g, p, a)
      PROVE  \E b \in offers : HandleAction(g, p, b) = HandleAction(g, p, a)
  <2> DEFINE b == Action("SUBMIT_DRAWING", a.data)
  <2>1. IsDrawing(a.data) /\ g.given[p] = NoAnswer
    BY <1>1, <1>4 DEF ValidateAction, DrawItValid
  <2>2. a.data \in Seq(Nat)
    BY <1>1, <1>4, GameScreensAssumption
  <2>3. /\ Len(a.data) \in 0 .. MaxStrokes
        /\ \A i \in 1 .. Len(a.data) : a.data[i] \in 1 .. MaxPoints
    BY <2>1, <2>2, GameScreensAssumption DEF IsDrawing
  <2>4. a.data \in [1 .. Len(a.data) -> 1 .. MaxPoints]
    BY <2>2, <2>3
  <2>5. a.data \in Canvas
    BY <2>3, <2>4 DEF Canvas
  <2>6. b.data = a.data
    BY DEF Action
  <2>7. HandleAction(g, p, b) = HandleAction(g, p, a)
    BY <1>1, <2>6 DEF HandleAction, DrawItAct
  <2> QED BY <1>2, <2>1, <2>5, <2>7
<1> QED BY <1>1, <1>3, <1>4 DEF Agrees, offers

\* PREDICT_THEM: the screen knows the player's group and the step.
LEMMA PredictThemScreen ==
    ASSUME NEW g, PredictThemGame(g), ~IsComplete(g), NEW p \in g.people
    PROVE  Agrees(PlayerPredictThem(ParticipantView(g, p, FALSE)), g, p)
<1> DEFINE v == ParticipantView(g, p, FALSE)
           offers == PlayerPredictThem(v)
<1>1. g.kind = "PREDICT_THEM" /\ g.step \in {"AUDIENCE_VOTE", "PREDICTION"}
      /\ (p \in g.audience <=> p \notin g.selected)
  BY DEF PredictThemGame, IsComplete
<1>2. /\ "group" \in DOMAIN v /\ v.submission = g.given[p] /\ v.step = g.step
      /\ v.group = IF p \in g.audience THEN "AUDIENCE" ELSE "SELECTED"
  BY <1>1 DEF ParticipantView, PredictThemPlayerView
<1> HIDE DEF v
<1>3. \A a : a \in offers <=>
          /\ g.given[p] = NoAnswer
          /\ \E choice \in Choice :
                \/ /\ p \in g.audience /\ g.step = "AUDIENCE_VOTE"
                   /\ a = Action("SUBMIT_AUDIENCE_VOTE", choice)
                \/ /\ p \in g.selected /\ g.step = "PREDICTION"
                   /\ a = Action("SUBMIT_PREDICTION", choice)
  BY <1>1, <1>2 DEF PlayerPredictThem
<1> HIDE DEF offers
<1>4. ASSUME NEW a \in offers PROVE ValidateAction(g, p, a)
  BY <1>1, <1>3, <1>4 DEF ValidateAction, PredictThemValid, Action
<1>5. ASSUME NEW a \in Inputs[g.kind], ValidateAction(g, p, a)
      PROVE  \E b \in offers : HandleAction(g, p, b) = HandleAction(g, p, a)
  <2> DEFINE b == Action(a.type, a.data)
  <2>1. PredictThemValid(g, p, a)
    BY <1>1, <1>5 DEF ValidateAction
  <2>2. b \in offers
    BY <1>3, <2>1 DEF PredictThemValid
  <2>3. b.type = a.type /\ b.data = a.data
    BY DEF Action
  <2> HIDE DEF b
  <2>4. HandleAction(g, p, b) = HandleAction(g, p, a)
    BY <1>1, <2>3 DEF HandleAction, PredictThemAct
  <2> QED BY <2>2, <2>4
<1> QED BY <1>4, <1>5 DEF Agrees, offers, v

\* DESCRIBE_IT: the screen knows whose turn it is.
LEMMA DescribeItScreen ==
    ASSUME NEW g, DescribeItGame(g), NEW p \in g.people
    PROVE  Agrees(PlayerDescribeIt(ParticipantView(g, p, FALSE)), g, p)
<1> DEFINE v == ParticipantView(g, p, FALSE)
           offers == PlayerDescribeIt(v)
<1>1. g.kind = "DESCRIBE_IT"
  BY DEF DescribeItGame
<1>2. "progress" \in DOMAIN v /\ v.progress.step = g.step /\ v.yours = Speaks(g, p)
  BY <1>1 DEF ParticipantView, DescribeItPlayerView, DescribeItProgress
<1> HIDE DEF v
<1>3. \A a : a \in offers <=> Speaks(g, p) /\ a = Action("FINISH_SPEAKING", "none")
  BY <1>2 DEF PlayerDescribeIt, Speaks
<1> HIDE DEF offers
<1>4. ASSUME NEW a \in offers PROVE ValidateAction(g, p, a)
  BY <1>1, <1>3, <1>4 DEF ValidateAction, DescribeItValid, Action
<1>5. ASSUME NEW a \in Inputs[g.kind], ValidateAction(g, p, a)
      PROVE  \E b \in offers : HandleAction(g, p, b) = HandleAction(g, p, a)
  <2>1. Action("FINISH_SPEAKING", "none") \in offers
    BY <1>1, <1>3, <1>5 DEF ValidateAction, DescribeItValid
  <2> QED BY <1>1, <2>1 DEF HandleAction, DescribeItAct
<1> QED BY <1>4, <1>5 DEF Agrees, offers, v

\* DEFEND_IT: the screen knows who is to do what.
LEMMA DefendItScreen ==
    ASSUME NEW g, DefendItGame(g), NEW p \in g.people
    PROVE  Agrees(PlayerDefendIt(ParticipantView(g, p, FALSE)), g, p)
<1> DEFINE v == ParticipantView(g, p, FALSE)
           offers == PlayerDefendIt(v)
<1>1. g.kind = "DEFEND_IT"
  BY DEF DefendItGame
<1>2. /\ "progress" \in DOMAIN v /\ v.progress.step = g.step
      /\ v.defence = (g.step = "DEFENCE" /\ Defends(g, p))
      /\ v.asks = (g.step = "FOLLOW_UP_QUESTION" /\ Asks(g, p))
      /\ v.responds = (g.step = "FOLLOW_UP_RESPONSE" /\ Defends(g, p))
  BY <1>1 DEF ParticipantView, DefendItPlayerView, DefendItProgress
<1> HIDE DEF v
<1>3. \A a : a \in offers <=>
          \/ g.step = "DEFENCE" /\ Defends(g, p) /\ a = Action("FINISH_DEFENCE", "none")
          \/ g.step = "FOLLOW_UP_QUESTION" /\ Asks(g, p)
             /\ a = Action("FINISH_FOLLOW_UP_QUESTION", "none")
          \/ g.step = "FOLLOW_UP_RESPONSE" /\ Defends(g, p)
             /\ a = Action("FINISH_FOLLOW_UP_RESPONSE", "none")
  BY <1>2 DEF PlayerDefendIt
<1> HIDE DEF offers
<1>4. ASSUME NEW a \in offers PROVE ValidateAction(g, p, a)
  BY <1>1, <1>3, <1>4 DEF ValidateAction, DefendItValid, Action
<1>5. ASSUME NEW a \in Inputs[g.kind], ValidateAction(g, p, a)
      PROVE  \E b \in offers : HandleAction(g, p, b) = HandleAction(g, p, a)
  <2> DEFINE b == Action(a.type, "none")
  <2>1. DefendItValid(g, p, a)
    BY <1>1, <1>5 DEF ValidateAction
  <2>2. b \in offers
    BY <1>3, <2>1 DEF DefendItValid
  <2>3. b.type = a.type
    BY DEF Action
  <2> HIDE DEF b
  <2>4. HandleAction(g, p, b) = HandleAction(g, p, a)
    BY <1>1, <2>3 DEF HandleAction, DefendItAct
  <2> QED BY <2>2, <2>4
<1> QED BY <1>4, <1>5 DEF Agrees, offers, v

\* BOMB_PROTOCOL: the operator's controls are those of the board in work.
LEMMA BombScreen ==
    ASSUME NEW g, BombGame(g), ~IsComplete(g), NEW p \in g.people, NEW reveal
    PROVE  Agrees(PlayerBombProtocol(ParticipantView(g, p, reveal)), g, p)
<1> DEFINE v == ParticipantView(g, p, reveal)
           offers == PlayerBombProtocol(v)
<1>1. /\ g.kind = "BOMB_PROTOCOL" /\ g.status = "ACTIVE"
      /\ g.board \in {"SYMBOLS", "WIRES", "CODE_SEQUENCE"}
  BY DEF BombGame, IsComplete
<1>2. /\ v.role = IF p = g.operator THEN "OPERATOR" ELSE "ANALYST"
      /\ v.public.status = g.status /\ v.public.board = g.board
  BY <1>1 DEF ParticipantView, BombPlayerView, BombPublic
<1> HIDE DEF v
<1>3. \A a : a \in offers <=>
          /\ p = g.operator
          /\ \/ g.board = "SYMBOLS" /\ \E s \in Symbol : a = Action("PRESS_SYMBOL", s)
             \/ g.board = "WIRES" /\ \E w \in Wire : a = Action("CUT_WIRE", w)
             \/ g.board = "CODE_SEQUENCE" /\ \E d \in Code : a = Action("SUBMIT_CODE", d)
  BY <1>1, <1>2 DEF PlayerBombProtocol, PlayerBombProtocolOperator
<1> HIDE DEF offers
<1>4. ASSUME NEW a \in offers PROVE ValidateAction(g, p, a)
  BY <1>1, <1>3, <1>4 DEF ValidateAction, BombValid, Action
<1>5. ASSUME NEW a \in Inputs[g.kind], ValidateAction(g, p, a)
      PROVE  \E b \in offers : HandleAction(g, p, b) = HandleAction(g, p, a)
  <2> DEFINE b == Action(a.type, a.data)
  <2>1. BombValid(g, p, a)
    BY <1>1, <1>5 DEF ValidateAction
  <2>2. b \in offers
    BY <1>3, <2>1 DEF BombValid
  <2>3. b.type = a.type /\ b.data = a.data
    BY DEF Action
  <2> HIDE DEF b
  <2>4. HandleAction(g, p, b) = HandleAction(g, p, a)
    BY <1>1, <2>3 DEF HandleAction, BombAct
  <2> QED BY <2>2, <2>4
<1> QED BY <1>4, <1>5 DEF Agrees, offers, v

\* With the results nothing is offered, but for the bomb that is still live.
LEMMA NothingOffered ==
    ASSUME GameInv, phase = "RESULTS", NEW p \in game.people, PlayerMinigameRouter(p) # {}
    PROVE  Special /\ result.reason # "completed"
<1> DEFINE v == ParticipantView(game, p, TRUE)
<1>1. IsGame(game)
  BY DEF GameInv
<1>2. /\ PlayerView(game, p, phase = "RESULTS") = v
  BY DEF PlayerView
<1>3. CASE game.kind = "RANK_IT"
  <2>1. v.status = "REVEALED"
    BY <1>3 DEF ParticipantView, RankItPlayerView
  <2> HIDE DEF v
  <2> QED BY <1>2, <1>3, <2>1 DEF PlayerMinigameRouter, PlayerRankIt
<1>4. CASE game.kind = "COMPLETE_IT"
  <2>1. v.status = "REVEALED"
    BY <1>4 DEF ParticipantView, CompleteItPlayerView
  <2> HIDE DEF v
  <2> QED BY <1>2, <1>4, <2>1 DEF PlayerMinigameRouter, PlayerCompleteIt
<1>5. CASE game.kind = "DRAW_IT"
  <2>1. v.status = "REVEALED"
    BY <1>5 DEF ParticipantView, DrawItPlayerView, DrawItTvView
  <2> HIDE DEF v
  <2> QED BY <1>2, <1>5, <2>1 DEF PlayerMinigameRouter, PlayerDrawIt
<1>6. CASE game.kind = "PREDICT_THEM"
  <2>1. "group" \notin DOMAIN v
    BY <1>6 DEF ParticipantView, PredictThemPlayerView, PredictThemResult
  <2> HIDE DEF v
  <2> QED BY <1>2, <1>6, <2>1 DEF PlayerMinigameRouter, PlayerPredictThem
<1>7. CASE game.kind = "DESCRIBE_IT"
  <2>1. "progress" \notin DOMAIN v
    BY <1>7 DEF ParticipantView, DescribeItPlayerView, DescribeItReveal
  <2> HIDE DEF v
  <2> QED BY <1>2, <1>7, <2>1 DEF PlayerMinigameRouter, PlayerDescribeIt
<1>8. CASE game.kind = "DEFEND_IT"
  <2>1. "progress" \notin DOMAIN v
    BY <1>8 DEF ParticipantView, DefendItPlayerView, DefendItReveal
  <2> HIDE DEF v
  <2> QED BY <1>2, <1>8, <2>1 DEF PlayerMinigameRouter, PlayerDefendIt
<1>9. CASE game.kind = "BOMB_PROTOCOL"
  <2>1. v.public.status = game.status
    BY <1>9 DEF ParticipantView, BombPlayerView, BombPublic
  <2> HIDE DEF v
  <2>2. game.status = "ACTIVE"
    BY <1>2, <1>9, <2>1 DEF PlayerMinigameRouter, PlayerBombProtocol, PlayerBombProtocolOperator
  <2> QED BY <1>9, <2>2 DEF GameInv, IsComplete, Special
<1> QED BY <1>1, <1>3, <1>4, <1>5, <1>6, <1>7, <1>8, <1>9, GameOfKind

\* During play the screens and the games' checks agree.
LEMMA ScreensAgree ==
    ASSUME GameInv, phase = "PLAY", NEW p \in game.people
    PROVE  Agrees(PlayerMinigameRouter(p), game, p)
<1>1. IsGame(game) /\ game.kind \in Kinds /\ ~IsComplete(game)
  BY DEF GameInv
<1>2. PlayerView(game, p, phase = "RESULTS") = ParticipantView(game, p, FALSE)
  BY DEF PlayerView
<1>3. CASE game.kind = "RANK_IT" /\ RankItGame(game)
  BY <1>1, <1>2, <1>3, RankItScreen DEF PlayerMinigameRouter
<1>4. CASE game.kind = "COMPLETE_IT" /\ CompleteItGame(game)
  BY <1>1, <1>2, <1>4, CompleteItScreen DEF PlayerMinigameRouter
<1>5. CASE game.kind = "DRAW_IT" /\ DrawItGame(game)
  BY <1>1, <1>2, <1>5, DrawItScreen DEF PlayerMinigameRouter
<1>6. CASE game.kind = "PREDICT_THEM" /\ PredictThemGame(game)
  BY <1>1, <1>2, <1>6, PredictThemScreen DEF PlayerMinigameRouter
<1>7. CASE game.kind = "DESCRIBE_IT" /\ DescribeItGame(game)
  BY <1>1, <1>2, <1>7, DescribeItScreen DEF PlayerMinigameRouter
<1>8. CASE game.kind = "DEFEND_IT" /\ DefendItGame(game)
  BY <1>1, <1>2, <1>8, DefendItScreen DEF PlayerMinigameRouter
<1>9. CASE game.kind = "BOMB_PROTOCOL" /\ BombGame(game)
  BY <1>1, <1>2, <1>9, BombScreen DEF PlayerMinigameRouter
<1> QED BY <1>1, <1>3, <1>4, <1>5, <1>6, <1>7, <1>8, <1>9, GameOfKind

\* The screens offer what the games accept.
THEOREM ScreensCorrect == Spec => []GameScreensOfferWhatIsAccepted
<1>1. GameInv => GameScreensOfferWhatIsAccepted
  <2> SUFFICES ASSUME GameInv, NEW p \in game.people
               PROVE  /\ phase = "PLAY" => Agrees(PlayerMinigameRouter(p), game, p)
                      /\ phase = "RESULTS" /\ PlayerMinigameRouter(p) # {} =>
                             Special /\ result.reason # "completed"
    BY DEF GameScreensOfferWhatIsAccepted, Agrees, TooMuchDrawn
  <2> QED BY ScreensAgree, NothingOffered
<1> QED BY <1>1, PlayCorrect, PTL
=============================================================================
