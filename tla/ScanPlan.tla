------------------------------ MODULE ScanPlan ------------------------------
(***************************************************************************)
(* What the scanner decides before its loop: the strategies that are       *)
(* active, the timeframes each of them uses and watches, and the smallest  *)
(* watched timeframe that drives the loop (timeframe_resolver.py).         *)
(*                                                                         *)
(* A timeframe is [level, name, seconds, index]; its storage key is the    *)
(* pair of its name and its source.  A strategy is [name, debug, frames,   *)
(* watch], with frames the sequence get_timeframes returns and watch the   *)
(* levels of get_watch_levels.                                             *)
(***************************************************************************)
EXTENDS Integers, Sequences, SequencesExt

StorageKey(tf) == <<tf.name, tf.index>>

(* A registered strategy is loaded when it is no debugging aid, or these   *)
(* are asked for, and when it is on the list, or the list is empty.        *)
Active(registered, enabled, debug) ==
    {st \in registered : /\ debug \/ ~ st.debug
                         /\ enabled = {} \/ st.name \in enabled}

(* One profile gives a level, and a name, to one timeframe only.           *)
ProfileOK(frames) ==
    \A i, j \in DOMAIN frames :
        i # j => frames[i].level # frames[j].level /\ frames[i].name # frames[j].name

Levels(st) == {tf.level : tf \in ToSet(st.frames)}

StorageKeys(frames) == {StorageKey(tf) : tf \in frames}
KeysOf(st, levels) == StorageKeys({tf \in ToSet(st.frames) : tf.level \in levels})

(* The frames of all strategies; a key stands for one timeframe.           *)
Required(loaded) == UNION {ToSet(st.frames) : st \in loaded}
KeysAgree(loaded) ==
    \A f, g \in Required(loaded) :
        StorageKey(f) = StorageKey(g) => f.seconds = g.seconds

Resolvable(loaded) ==
    /\ loaded # {}
    /\ \A st \in loaded : ProfileOK(st.frames) /\ st.watch \subseteq Levels(st)
    /\ KeysAgree(loaded)

RequiredKeys(loaded) == StorageKeys(Required(loaded))
WatchedKeys(loaded) == UNION {KeysOf(st, st.watch) : st \in loaded}

(* What may drive the loop: min over a set takes any of the shortest.      *)
Bases(loaded) ==
    LET watched == {f \in Required(loaded) : StorageKey(f) \in WatchedKeys(loaded)}
    IN  {f \in watched : \A g \in watched : f.seconds <= g.seconds}

(* The strategies a scan with these updated keys runs.  The variant wants  *)
(* all keys a strategy watches to be updated.                              *)
AllUpdated(loaded, updated) ==
    {st \in loaded : KeysOf(st, st.watch) \subseteq updated}
Dispatched(loaded, updated) ==
    {st \in loaded : KeysOf(st, st.watch) \cap updated # {}}
=============================================================================
