---------------------------- MODULE MCThreadPool ----------------------------
EXTENDS ThreadPool

\* A product, a node without computation and an operation on rows.
SmallGraph == <<"mul_mat", "none", "rows">>
=============================================================================
