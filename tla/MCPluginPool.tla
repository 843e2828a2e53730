---------------------------- MODULE MCPluginPool ----------------------------
EXTENDS PluginPool

CONSTANTS t1, t2

MCTasks == {t1, t2}
=============================================================================
