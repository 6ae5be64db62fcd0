----------------------------- MODULE Validation ------------------------------
(***************************************************************************)
(* The rules of the requests of the Product API (api/product/              *)
(* product.pb.validate.go).  Validate stops at the first field that breaks *)
(* its rule, ValidateAll goes on and wraps the errors of all of them in a  *)
(* multi-error; both accept a nil message.                                 *)
(*                                                                         *)
(* <Message>Errors(m) are the errors of m, in the order its fields are     *)
(* looked at.  The name of the field stands for the whole error.           *)
(***************************************************************************)
EXTENDS Integers, Sequences

CONSTANT Nil  \* a nil message; no error

ASSUME ErrorAssumption == Nil \notin {"Page", "Limit"}

Unless(rule, field) == IF rule THEN <<>> ELSE <<field>>

PageFromZeroErrors(m) ==
  Unless(m.page >= 0, "Page") \o Unless(m.limit \in 1..100, "Limit")

ListProductsRequestErrors(m) ==
  Unless(m.page >= 1, "Page") \o Unless(m.limit \in 1..100, "Limit")

(* No validation rules for Uid. *)
GetProductRequestErrors(m) == <<>>

(* No validation rules for Name, Status, Price, Sku. *)
CreateProductRequestErrors(m) == <<>>

(* No validation rules for Uid, Name, Sku, Status, Price. *)
UpdateProductRequestErrors(m) == <<>>

(* No validation rules for Uid. *)
DeleteProductRequestErrors(m) == <<>>

(* No validation rules for Type. *)
ExportProductsRequestErrors(m) == <<>>

(* No validation rules for Sku. *)
GetProductFromCacheRequestErrors(m) == <<>>

CheckKafkaRequestErrors(m) == <<>>

Errors(m) ==
  CASE m = Nil -> <<>>
    [] m.op = "ListProducts" -> ListProductsRequestErrors(m)
    [] m.op = "GetProduct" -> GetProductRequestErrors(m)
    [] m.op = "CreateProduct" -> CreateProductRequestErrors(m)
    [] m.op = "UpdateProduct" -> UpdateProductRequestErrors(m)
    [] m.op = "DeleteProduct" -> DeleteProductRequestErrors(m)
    [] m.op = "ExportProducts" -> ExportProductsRequestErrors(m)
    [] m.op = "GetProductFromCache" -> GetProductFromCacheRequestErrors(m)
    [] m.op = "CheckKafka" -> CheckKafkaRequestErrors(m)

validate(m, all) ==
  IF Errors(m) = <<>> THEN Nil ELSE IF all THEN Errors(m) ELSE Head(Errors(m))

Validate(m) == validate(m, FALSE)
=============================================================================
