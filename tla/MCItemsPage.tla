---------------------------- MODULE MCItemsPage ----------------------------
EXTENDS ItemsPage

MCBlocks == 0 .. 1
MCTotals == {0, 3}
MCScrolls == {0, 1}
============================================================================
