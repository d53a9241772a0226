--------------------------- MODULE ShellyResponses ---------------------------
(***************************************************************************)
(* What the RPC methods answer (app/shelly/responses.py).  Of a payload the*)
(* model keeps what depends on the meter; constants of the device and its  *)
(* configuration are left out.  Numbers are whole, and power factors in    *)
(* hundredths, which rounding to the payload's digits leaves as they are.  *)
(***************************************************************************)
EXTENDS Meter

\* build_em_status.
EmStatus(m) ==
    [voltage |-> m.voltage, current |-> m.current, pf |-> m.pf, freq |-> m.freq,
     act_power |-> m.act_power, aprt_power |-> m.aprt_power, n_current |-> m.n_current,
     total_current |-> m.current["a"] + m.current["b"] + m.current["c"],
     errors |-> IF m.alfen_ok THEN {} ELSE m.alfen_errors]

\* Mutated forms, here and below, change the definition after them the way a
\* plausible mistake would.  Nothing uses them but the mutation runs.
EmDataStatus_Swapped(m) == [act |-> [m.energy.act EXCEPT !["c"] = m.energy.act["b"]],
                            ret |-> m.energy.ret]

\* build_emdata_status.
EmDataStatus(m) == [act |-> m.energy.act, ret |-> m.energy.ret]

\* build_sys_status: the time of the last update, or now before the first one.
SysStatus(m, now) ==
    [unixtime |-> now,
     last_sync_ts |-> IF m.last_update_ts = 0 THEN now ELSE m.last_update_ts]

\* build_full_status.
FullStatus(m, now) ==
    [em |-> EmStatus(m), emdata |-> EmDataStatus(m), sys |-> SysStatus(m, now)]

-------------------------------------------------------------------------------
(* dispatch_method. *)

Methods == {"Shelly.GetDeviceInfo", "Shelly.GetStatus", "Shelly.GetConfig",
    "Shelly.ListMethods", "Shelly.GetComponents", "EM.GetStatus", "EM.GetConfig",
    "EMData.GetStatus", "EMData.GetConfig", "Wifi.GetStatus", "Sys.GetStatus",
    "Eth.GetStatus", "Cloud.GetStatus", "Mqtt.GetStatus", "WS.GetStatus",
    "BLE.GetStatus", "Modbus.GetStatus", "Temperature.GetStatus"}

Canonical(method) ==
    CASE method = "GetDeviceInfo" -> "Shelly.GetDeviceInfo"
      [] method = "GetStatus" -> "Shelly.GetStatus"
      [] method = "GetConfig" -> "Shelly.GetConfig"
      [] method = "WiFi.GetStatus" -> "Wifi.GetStatus"
      [] method = "MQTT.GetStatus" -> "Mqtt.GetStatus"
      [] method = "Ws.GetStatus" -> "WS.GetStatus"
      [] method = "Ble.GetStatus" -> "BLE.GetStatus"
      [] OTHER -> method

\* How dispatch_method ends.  An "include" that is neither a list nor a string is
\* searched, and raises; only Shelly.GetComponents looks at it.
Outcome(method, include) ==
    CASE Canonical(method) \notin Methods -> "KeyError"
      [] Canonical(method) = "Shelly.GetComponents" /\ include = "number" -> "Exception"
      [] OTHER -> "result"

\* Methods whose result holds floats of the meter.  Shelly.GetComponents leaves them
\* out when only the configuration is asked for.
ShowsNumbers(method, include) ==
    \/ Canonical(method) \in {"Shelly.GetStatus", "EM.GetStatus", "EMData.GetStatus"}
    \/ Canonical(method) = "Shelly.GetComponents" /\ include # "config"
===============================================================================
