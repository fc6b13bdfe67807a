-------------------------- MODULE MCConfigWatcher --------------------------
(* The watcher with two good configurations, one that parses and cannot be *)
(* built, and half-written files: one that does not parse, and one that    *)
(* has been cut behind a table and is a good configuration too.            *)
EXTENDS ConfigWatcher

MCAccepted == {"first", "second", "cut"}
MCParsable == MCAccepted \cup {"unbuildable"}
MCPartials == {"garbage", "cut"}
MCContents == MCParsable \cup MCPartials
=============================================================================
