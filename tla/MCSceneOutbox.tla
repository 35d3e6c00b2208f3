---------------------------- MODULE MCSceneOutbox ----------------------------
\* The instance of SceneOutbox for TLC.
EXTENDS SceneOutbox
==============================================================================
