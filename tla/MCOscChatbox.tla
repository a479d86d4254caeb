---------------------------- MODULE MCOscChatbox ----------------------------
(***************************************************************************)
(* Small instances of OscChatbox for TLC.                                  *)
(***************************************************************************)
EXTENDS OscChatbox, TLC

CONSTANTS en, ja

MCOneRoute == {<<en>>}
MCNoRoute  == {<< >>}
MCTwoRoutes == {<<en, ja>>}

Preferred == "preferred_only"

\* Enabled or not, mute sync on or off, one strategy.
MCConfigs ==
  [enabled : BOOLEAN, mute_sync_enabled : BOOLEAN,
   translation_strategy : {Preferred}]

\* Enabled, mute sync off.
MCOpen == [enabled : {TRUE}, mute_sync_enabled : {FALSE},
           translation_strategy : {Preferred}]

MCStrategies == [enabled : {TRUE}, mute_sync_enabled : {FALSE},
                 translation_strategy :
                    {Preferred, "round_robin", "all_languages"}]

\* Manual sends differ in their identity only.
Symmetry == Permutations(Manuals)
=============================================================================
