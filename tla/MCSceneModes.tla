---- MODULE MCSceneModes ----
EXTENDS SceneModes
====
