----------------------------- MODULE MCMigration ------------------------------
EXTENDS Migration, TLC

\* A bundle's first edition, and one in which page p has changed.
BundlePages == ("e1" :> ("p" :> "a" @@ "q" :> "b")) @@ ("e2" :> ("p" :> "b" @@ "q" :> "b"))
===============================================================================
