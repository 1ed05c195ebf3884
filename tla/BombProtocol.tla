---------------------------- MODULE BombProtocol ----------------------------
(***************************************************************************)
(* BOMB_PROTOCOL (minigames/bomb-protocol.ts), the special game: one       *)
(* participant operates the board by what the others, who each hold some   *)
(* of the clues, say.                                                      *)
(***************************************************************************)
EXTENDS MinigameModule

CONSTANTS
    Symbol,     \* the symbols on the board, each once in the solution
    Wire,       \* the wires
    Code,       \* the codes that can be entered
    MaxStrikes  \* BOMB_PROTOCOL_MAX_STRIKES

\* solution: the order of the symbols, the wire and the code.  clues: per analyst, the
\* parts of the solution the analyst can read.
BombStart(people, operator, solution, clues) ==
    [kind |-> "BOMB_PROTOCOL", people |-> people, operator |-> operator,
     solution |-> solution, clues |-> clues, board |-> "SYMBOLS", progress |-> 0,
     strikes |-> 0, status |-> "ACTIVE"]

\* Dealt out in turn: every clue of a board is with exactly one analyst.
Distribute(analysts, clues) ==
    [i \in DOMAIN analysts |-> {c \in DOMAIN clues : (c - i) % Len(analysts) = 0}]

BombMayStart(people, operator, solution) ==
    /\ Cardinality(people) \in 3 .. 5 /\ operator \in people
    /\ solution.wire \in Wire /\ solution.code \in Code
    /\ \A i \in DOMAIN solution.symbols : solution.symbols[i] \in Symbol

AddStrike(g) ==
    LET strikes == IF g.strikes < MaxStrikes THEN g.strikes + 1 ELSE MaxStrikes
    IN  [g EXCEPT !.strikes = strikes,
                  !.status = IF strikes = MaxStrikes THEN "FAILURE" ELSE "ACTIVE"]

BombValid(g, p, a) ==
    /\ g.status = "ACTIVE" /\ p = g.operator
    /\ \/ a.type = "PRESS_SYMBOL" /\ g.board = "SYMBOLS" /\ a.data \in Symbol
       \/ a.type = "CUT_WIRE" /\ g.board = "WIRES" /\ a.data \in Wire
       \/ a.type = "SUBMIT_CODE" /\ g.board = "CODE_SEQUENCE" /\ a.data \in Code

PressSymbol(g, symbol) ==
    IF symbol # g.solution.symbols[g.progress + 1] THEN AddStrike(g)
    ELSE [g EXCEPT !.progress = @ + 1,
                   !.board = IF g.progress + 1 = Len(g.solution.symbols) THEN "WIRES" ELSE @]

CutWire(g, wire) ==
    IF wire = g.solution.wire THEN [g EXCEPT !.board = "CODE_SEQUENCE"] ELSE AddStrike(g)

SubmitCode(g, code) ==
    IF code = g.solution.code THEN [g EXCEPT !.status = "SUCCESS"] ELSE AddStrike(g)

BombAct(g, p, a) ==
    CASE a.type = "PRESS_SYMBOL" -> PressSymbol(g, a.data)
      [] a.type = "CUT_WIRE" -> CutWire(g, a.data)
      [] OTHER -> SubmitCode(g, a.data)

BombPublic(g) ==
    [people |-> g.people, operator |-> g.operator, board |-> g.board, status |-> g.status,
     strikes |-> g.strikes, pressed |-> IF g.board = "SYMBOLS" THEN g.progress ELSE 0]

BombTvView(g) == BombPublic(g)

\* The board does not show its solution; a clue is shown to the analyst who holds it,
\* while its board is on.
BombPlayerView(g, p) ==
    IF p = g.operator THEN [role |-> "OPERATOR", public |-> BombPublic(g), clues |-> {}]
    ELSE [role |-> "ANALYST", public |-> BombPublic(g), clues |-> g.clues[p][g.board]]

BombSpectatorView(g) == BombPublic(g)
=============================================================================
