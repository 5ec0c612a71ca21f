------------------------------ MODULE MCSession ------------------------------
(* Two sessions on one of two repositories, in scenes: each scene bounds what *)
(* else happens while they go about their work.                               *)
EXTENDS Session, TLC

CONSTANTS src, env, r1, r2

Nothing == [setups |-> 0, opens |-> 0, checks |-> 0, saves |-> 0, deaths |-> 0,
            cleanups |-> 0, others |-> 0, hooks |-> 0, edits |-> 0]

MCScenes == {
    [Nothing EXCEPT !.setups = 2, !.opens = 2, !.deaths = 1, !.cleanups = 1],
    [Nothing EXCEPT !.opens = 2, !.checks = 3, !.deaths = 1],
    [Nothing EXCEPT !.opens = 2, !.saves = 1, !.hooks = 1, !.deaths = 1],
    [Nothing EXCEPT !.opens = 1, !.saves = 1, !.hooks = 1, !.others = 2, !.cleanups = 1],
    [Nothing EXCEPT !.opens = 1, !.edits = 4, !.cleanups = 1] }

Symmetry == Permutations(Sessions)

MCContracts == {Content(TRUE, TRUE, {src, env}, {env}), Content(TRUE, FALSE, {src}, {env})}
==============================================================================
