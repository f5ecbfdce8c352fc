---------------------------- MODULE RowLifecycle ----------------------------
(***************************************************************************)
(* What the index promises of each observation, whatever happens on the    *)
(* mesh: the states LocalIndex.inspect_by_id reports and the moves between *)
(* them.  A tombstone is stronger than a shadow and than a later copy of   *)
(* the observation; only physical removal ends it.                         *)
(***************************************************************************)
CONSTANTS Obs

VARIABLE state

States == {"absent", "live", "shadowed", "tombstoned"}

Moves ==
  {<<"absent", "live">>, <<"absent", "tombstoned">>,
   <<"live", "shadowed">>, <<"live", "tombstoned">>, <<"live", "absent">>,
   <<"shadowed", "live">>, <<"shadowed", "tombstoned">>, <<"shadowed", "absent">>,
   <<"tombstoned", "absent">>}

Init == state \in [Obs -> {"absent"}]

\* One transaction of the index may move several rows.
Next ==
  /\ state' \in [Obs -> States]
  /\ \A o \in Obs : state'[o] = state[o] \/ <<state[o], state'[o]>> \in Moves

Spec == Init /\ [][Next]_state
=============================================================================
