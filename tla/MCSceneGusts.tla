---- MODULE MCSceneGusts ----
EXTENDS SceneGusts
====
