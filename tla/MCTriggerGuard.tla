---------------------------- MODULE MCTriggerGuard ----------------------------
(* Three tables, so that a write back can take a detour over two of them.   *)
EXTENDS TriggerGuard

MCTables   == {"orders", "audit", "stock"}
MCTriggers == {"orders_check", "orders_stmt", "audit_check", "stock_stmt"}
MCTableOf  == [tr \in MCTriggers |->
                  CASE tr = "audit_check" -> "audit"
                    [] tr = "stock_stmt"  -> "stock"
                    [] OTHER              -> "orders"]
MCRowLevel == {"orders_check", "audit_check"}

KnownKinds == {"dml", "drop"}
DdlKinds   == KnownKinds \cup {"drop if exists", "alter"}
=============================================================================
