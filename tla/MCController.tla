----------------------------- MODULE MCController -----------------------------
EXTENDS Controller
CONSTANTS w1, w2, c1, c2
=============================================================================
