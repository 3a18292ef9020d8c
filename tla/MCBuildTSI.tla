---------------------------- MODULE MCBuildTSI ----------------------------
(***************************************************************************)
(* Model-checking instance of BuildTSI: two shards, composite keys of two  *)
(* series.  Shard 1 has a parsable TSM file with three keys of two series  *)
(* (a full batch and a remainder at BatchSize 2), a TSM file that does not *)
(* parse, and a WAL adding a third series.  Shard 2 has one TSM file and   *)
(* no WAL directory.                                                       *)
(***************************************************************************)
EXTENDS BuildTSI

MCKeys == {"cpu,host=a#usage", "cpu,host=a#value", "cpu,host=b#value", "mem,host=a#value"}
MCSeries == {"cpu,host=a", "cpu,host=b", "mem,host=a"}
MCSeriesOf == [k \in MCKeys |->
                 CASE k = "cpu,host=a#usage" -> "cpu,host=a"
                   [] k = "cpu,host=a#value" -> "cpu,host=a"
                   [] k = "cpu,host=b#value" -> "cpu,host=b"
                   [] k = "mem,host=a#value" -> "mem,host=a"]
MCTSMFiles ==
    <<  << [ok |-> TRUE, keys |-> <<"cpu,host=a#usage", "cpu,host=a#value", "cpu,host=b#value">>],
           [ok |-> FALSE, keys |-> <<>>] >>,
        << [ok |-> TRUE, keys |-> <<"cpu,host=b#value">>] >> >>
MCWAL == <<{"mem,host=a#value", "cpu,host=a#value"}, NoWAL>>
====
