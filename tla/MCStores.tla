------------------------------- MODULE MCStores -------------------------------
(***************************************************************************)
(* The run of the two stores that are fed from outside, candles and news.  *)
(* They share nothing, so a behaviour is about one of them and their       *)
(* states add up; in the other one no call is open and no fairness asks    *)
(* for a step.                                                             *)
(***************************************************************************)
EXTENDS MCCandleRevisions, MCExternalItems

VARIABLE focus

stores == <<vars, itemVars, focus>>

StoresInit ==
    /\ focus \in {"candles", "news"}
    /\ Init
    /\ ItemsInit

StoresNext ==
    /\ UNCHANGED focus
    /\ \/ focus = "candles" /\ Next /\ UNCHANGED itemVars
       \/ focus = "news" /\ ItemsNext /\ UNCHANGED vars

StoresSpec == StoresInit /\ [][StoresNext]_stores /\ Fairness /\ ItemsFairness
=============================================================================
