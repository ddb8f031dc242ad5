---------------------------- MODULE MCDashboard ----------------------------
(* Instances of Dashboard with a model that is free by its suffix and one    *)
(* that is free by its price until the catalog is edited, or not at all.     *)
EXTENDS Dashboard

EitherKey == BOOLEAN
WithKey == {TRUE}

MCModels == {"small:free", "large"}
MCSuffixed == {"small:free"}

Priced(id, price) == [id |-> id, price |-> price]
AllFree == <<Priced("small:free", "some"), Priced("large", "zero")>>
OnePaid == <<Priced("small:free", "some"), Priced("large", "some")>>
Twice == <<Priced("large", "some"), Priced("large", "zero")>>

MCCatalogs == {OnePaid, Twice}
=============================================================================
