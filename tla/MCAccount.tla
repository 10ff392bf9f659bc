------------------------------ MODULE MCAccount ------------------------------
EXTENDS Account, TLC

\* The free product, two paid ones; deployments that name them all, that miss
\* one variable, and that point POLAR_PRODUCT_FREE at a product that costs.
MCPrice == "prodF" :> 0 @@ "prodP" :> 1 @@ "prodM" :> 2
Complete == [free |-> "prodF", pro |-> "prodP", max |-> "prodM"]
MCEnvs == {Complete, [Complete EXCEPT !.max = Unset], [Complete EXCEPT !.free = "prodP"]}
=============================================================================
