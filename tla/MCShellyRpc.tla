----------------------------- MODULE MCShellyRpc -----------------------------
(* A small instance of ShellyRpc: items of every kind, posted alone and in     *)
(* batches of up to three, asked for by GET, and requests that are refused.    *)
EXTENDS ShellyRpc

McItem(method, id, include) == [object |-> TRUE, method |-> method, id |-> id, include |-> include]
NoObject == [object |-> FALSE, method |-> Absent, id |-> None, include |-> "all"]

Em(id) == McItem("EM.GetStatus", id, "all")
Alias(id) == McItem("MQTT.GetStatus", id, "all")
Unknown(id) == McItem("EM.Reset", id, "all")
Bad(id) == McItem("Shelly.GetComponents", id, "number")

Request(route, form, items) == [route |-> route, form |-> form, items |-> items]

McRequests ==
    {Request("post", "single", <<item>>) :
        item \in {Em(1), McItem(NotString, 1, "all"), McItem("Shelly.GetComponents", 1, "config")}}
    \cup {Request("post", "batch", items) :
        items \in {<<Em(1), Unknown(2), Em(3)>>, <<Alias(1), NoObject>>,
                   <<McItem(Absent, 1, "all"), Bad(2), Em(3)>>}}
    \cup {Request("get_batch", "batch", <<Alias(None), NoObject, McItem(NotString, None, "all"), Em(None)>>)}
    \cup {Request("get", form, <<McItem(Absent, None, "all")>>) : form \in {"query", "path"}}
    \cup {Request("get", "path", <<McItem("EM.Reset", None, "all")>>)}
    \cup {Request(route, form, <<>>) :
        route \in {"post", "get_batch"}, form \in {"malformed", "scalar"}}
    \cup {Request("get_batch", "iterable", <<>>)}
    \cup {Request("shelly", "single", <<McItem("GET /shelly", None, "all")>>),
          Request("debug", "single", <<>>)}
===============================================================================
