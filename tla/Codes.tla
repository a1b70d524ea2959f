------------------------------- MODULE Codes -------------------------------
(***************************************************************************)
(* The constants of codes.go but for the long list of EV_KEY, of which     *)
(* only what the code depends on is here: the names of a block in their    *)
(* order, with their values.  Names are split as in Generator.             *)
(***************************************************************************)
EXTENDS Integers, Sequences

\* Names with the values from v on.
LOCAL Run(p, v, rests) == [i \in DOMAIN rests |-> <<<<p, rests[i]>>, v + i - 1>>]

LOCAL Limits(p, max) == <<<<<<p, "MAX">>, max>>, <<<<p, "CNT">>, max + 1>>>>

EvType ==
  Run("EV", 0, <<"SYN", "KEY", "REL", "ABS", "MSC", "SW">>)
    \o Run("EV", 17, <<"LED", "SND">>)
    \o Run("EV", 20, <<"REP", "FF", "PWR", "FF_STATUS">>) \o Limits("EV", 31)

ABS ==
  Run("ABS", 0, <<"X", "Y", "Z", "RX", "RY", "RZ", "THROTTLE", "RUDDER", "WHEEL", "GAS",
             "BRAKE">>)
    \o Run("ABS", 16, <<"HAT0X", "HAT0Y", "HAT1X", "HAT1Y", "HAT2X", "HAT2Y", "HAT3X",
             "HAT3Y", "PRESSURE", "DISTANCE", "TILT_X", "TILT_Y", "TOOL_WIDTH">>)
    \o Run("ABS", 32, <<"VOLUME", "PROFILE", "SND_PROFILE">>)
    \o Run("ABS", 40, <<"MISC">>)
    \o Run("ABS", 46, <<"RESERVED", "MT_SLOT", "MT_TOUCH_MAJOR", "MT_TOUCH_MINOR",
             "MT_WIDTH_MAJOR", "MT_WIDTH_MINOR", "MT_ORIENTATION", "MT_POSITION_X",
             "MT_POSITION_Y", "MT_TOOL_TYPE", "MT_BLOB_ID", "MT_TRACKING_ID",
             "MT_PRESSURE", "MT_DISTANCE", "MT_TOOL_X", "MT_TOOL_Y">>)
    \o Limits("ABS", 63)

LED == Run("LED", 0, <<"NUML", "CAPSL", "SCROLLL", "COMPOSE", "KANA", "SLEEP", "SUSPEND",
                       "MUTE", "MISC", "MAIL", "CHARGING">>) \o Limits("LED", 15)

MSC == Run("MSC", 0, <<"SERIAL", "PULSELED", "GESTURE", "RAW", "SCAN", "TIMESTAMP">>)
         \o Limits("MSC", 7)

REL == Run("REL", 0, <<"X", "Y", "Z", "RX", "RY", "RZ", "HWHEEL", "DIAL", "WHEEL", "MISC",
                       "RESERVED", "WHEEL_HI_RES", "HWHEEL_HI_RES">>) \o Limits("REL", 15)

REP == Run("REP", 0, <<"DELAY", "PERIOD">>) \o Limits("REP", 1)

\* The profiles are no codes of EV_SND, but have its prefix.
SND == Run("SND", 0, <<"CLICK", "BELL", "TONE">>) \o Limits("SND", 7)
         \o Run("SND", 0, <<"PROFILE_SILENT", "PROFILE_VIBRATE", "PROFILE_RING">>)

\* SW_RADIO is an alias, and SW_MAX has the value of a switch.
SW == Run("SW", 0, <<"LID", "TABLET_MODE", "HEADPHONE_INSERT", "RFKILL_ALL">>)
        \o Run("SW", 3, <<"RADIO", "MICROPHONE_INSERT", "DOCK", "LINEOUT_INSERT",
             "JACK_PHYSICAL_INSERT", "VIDEOOUT_INSERT", "CAMERA_LENS_COVER", "KEYPAD_SLIDE",
             "FRONT_PROXIMITY", "ROTATE_LOCK", "LINEIN_INSERT", "MUTE_DEVICE",
             "PEN_INSERTED", "MACHINE_COVER", "USB_INSERT">>)
        \o Limits("SW", 17)

SYN == Run("SYN", 0, <<"REPORT", "CONFIG", "MT_REPORT", "DROPPED">>) \o Limits("SYN", 15)

BusType ==
  Run("BUS", 1, <<"PCI", "ISAPNP", "USB", "HIL", "BLUETOOTH", "VIRTUAL">>)
    \o Run("BUS", 16, <<"ISA", "I8042", "XTKBD", "RS232", "GAMEPORT", "PARPORT", "AMIGA",
         "ADB", "I2C", "HOST", "GSC", "ATARI", "SPI", "RMI", "CEC", "INTEL_ISHTP",
         "AMD_SFH", "SDW">>)

InputProp ==
  Run("INPUT_PROP", 0, <<"POINTER", "DIRECT", "BUTTONPAD", "SEMI_MT", "TOPBUTTONPAD",
                         "POINTING_STICK", "ACCELEROMETER", "PRESSUREPAD">>)
    \o Limits("INPUT_PROP", 31)

\* Constants that have a use.
EV_SYN == 0
EV_KEY == 1
EV_REL == 2
EV_ABS == 3
EV_MSC == 4
EV_SW  == 5
EV_LED == 17
EV_SND == 18
EV_FF  == 21
EV_MAX == 31
SYN_MAX == 15
REL_MAX == 15
ABS_MAX == 63
MSC_MAX == 7
SW_MAX  == 17
LED_MAX == 15
SND_MAX == 7
INPUT_PROP_MAX == 31
KEY_A == 30
KEY_Z == 44
KEY_SPACE == 57
KEY_MAX == 767

KEY_BRIGHTNESS_MIN == 592
KEY_BRIGHTNESS_MAX == 593
=============================================================================
