-------------------------- MODULE ResourceMethods --------------------------
(***************************************************************************)
(* The methods of the component and service clients and the robot API of    *)
(* RobotClient, each with what it makes of the robot's answer:              *)
(*   nothing    waits for the answer and drops it                           *)
(*   field      the answer, or a part of it, as it came                     *)
(*   orEmpty    {} for what is missing                                      *)
(*   wanted     throws when the part it is about is missing                 *)
(*   parsed     throws when that part is missing or does not make sense     *)
(*   labels     throws when the labels do not match the positions           *)
(*   collected  reads a stream to its end and puts its chunks together      *)
(*   queued     pushes what a stream brings on a queue of the application   *)
(*   each       a generator that yields what a stream brings                *)
(*   present    one that leaves out the messages without their payload      *)
(* A method has the name of its rpc: the path SessionTransport looks up.    *)
(***************************************************************************)

Of(class, gives, rpcs) == {[class |-> class, rpc |-> rpc, gives |-> gives] : rpc \in rpcs}

(* getStatusFromClient and doCommandFromClient: what every client has but   *)
(* that of the ML model service.                                            *)
Common(class) == Of(class, "orEmpty", {"GetStatus", "DoCommand"})

-----------------------------------------------------------------------------
(* Components *)

ArmClient ==
    Common("Arm")
    \union Of("Arm", "nothing", {"MoveToPosition", "MoveToJointPositions", "Stop"})
    \union Of("Arm", "wanted", {"GetEndPosition", "GetJointPositions"})
    \union Of("Arm", "field", {"GetGeometries", "Get3DModels", "IsMoving"})
    \union Of("Arm", "parsed", {"GetKinematics"})

AudioInClient ==
    Common("AudioIn")
    \union Of("AudioIn", "present", {"GetAudio"})
    \union Of("AudioIn", "field", {"GetProperties"})

AudioOutClient ==
    Common("AudioOut")
    \union Of("AudioOut", "nothing", {"Play", "PlayStream"})
    \union Of("AudioOut", "field", {"GetProperties"})

BaseClient ==
    Common("Base")
    \union Of("Base", "nothing", {"MoveStraight", "Spin", "SetPower", "SetVelocity", "Stop"})
    \union Of("Base", "field", {"GetGeometries", "IsMoving", "GetProperties"})

BoardPins ==
    Of("Board", "nothing", {"SetGPIO", "SetPWM", "SetPWMFrequency"})
    \union Of("Board", "field", {"GetGPIO", "PWM", "PWMFrequency"})

BoardReaders ==
    Of("Board", "nothing", {"WriteAnalog", "SetPowerMode"})
    \union Of("Board", "field", {"ReadAnalogReader", "GetDigitalInterruptValue"})
    \union Of("Board", "queued", {"StreamTicks"})
    \union Common("Board")

ButtonClient ==
    Common("Button")
    \union Of("Button", "nothing", {"Push"})

CameraClient ==
    Common("Camera")
    \union Of("Camera", "field", {"GetGeometries", "GetImages", "GetPointCloud", "GetProperties"})

EncoderClient ==
    Common("Encoder")
    \union Of("Encoder", "nothing", {"ResetPosition"})
    \union Of("Encoder", "field", {"GetProperties", "GetPosition"})

GantryClient ==
    Common("Gantry")
    \union Of("Gantry", "nothing", {"MoveToPosition", "Stop"})
    \union Of("Gantry", "field", {"GetGeometries", "GetPosition", "Home", "GetLengths", "IsMoving"})
    \union Of("Gantry", "parsed", {"GetKinematics"})

GenericComponentClient ==
    Common("GenericComponent")
    \union Of("GenericComponent", "field", {"GetGeometries"})

GripperClient ==
    Common("Gripper")
    \union Of("Gripper", "nothing", {"Open", "Grab", "Stop", "GoToInputs"})
    \union Of("Gripper", "field",
              {"GetGeometries", "IsMoving", "IsHoldingSomething", "GetCurrentInputs"})

InputControllerClient ==
    Common("InputController")
    \union Of("InputController", "field", {"GetEvents"})
    \union Of("InputController", "nothing", {"TriggerEvent"})

MotorClient ==
    Of("Motor", "nothing", {"SetPower", "GoFor", "GoTo", "SetRPM", "ResetZeroPosition", "Stop"})
    \union Of("Motor", "field", {"GetProperties"})

MotorReadings ==
    Of("Motor", "field", {"GetPosition", "IsPowered", "IsMoving"})
    \union Common("Motor")

MovementSensorClient ==
    Of("MovementSensor", "wanted", {"GetLinearVelocity", "GetAngularVelocity", "GetOrientation"})
    \union Of("MovementSensor", "field",
              {"GetCompassHeading", "GetPosition", "GetProperties", "GetAccuracy"})

(* getReadings leaves out the readings that have no value. *)
MovementSensorReadings ==
    Of("MovementSensor", "wanted", {"GetLinearAcceleration"})
    \union Of("MovementSensor", "orEmpty", {"GetReadings"})
    \union Common("MovementSensor")

PoseTrackerClient ==
    Common("PoseTracker")
    \union Of("PoseTracker", "field", {"GetGeometries"})

PowerSensorClient ==
    Common("PowerSensor")
    \union Of("PowerSensor", "field", {"GetVoltage", "GetCurrent", "GetPower"})
    \union Of("PowerSensor", "orEmpty", {"GetReadings"})

SensorClient ==
    Common("Sensor")
    \union Of("Sensor", "orEmpty", {"GetReadings"})

ServoClient ==
    Common("Servo")
    \union Of("Servo", "nothing", {"Move", "Stop"})
    \union Of("Servo", "field", {"GetPosition", "IsMoving"})

SwitchClient ==
    Common("Switch")
    \union Of("Switch", "nothing", {"SetPosition"})
    \union Of("Switch", "field", {"GetPosition"})
    \union Of("Switch", "labels", {"GetNumberOfPositions"})

-----------------------------------------------------------------------------
(* Services *)

DataManagerClient ==
    Common("DataManager")
    \union Of("DataManager", "nothing", {"Sync", "UploadBinaryDataToDatasets"})

DiscoveryClient ==
    Common("Discovery")
    \union Of("Discovery", "field", {"DiscoverResources"})

GenericServiceClient == Common("GenericService")

MLModelClient == Of("MLModel", "field", {"Metadata", "Infer"})

MotionClient ==
    Of("Motion", "field", {"Move", "MoveOnMap", "MoveOnGlobe", "GetPlan", "ListPlanStatuses"})
    \union Of("Motion", "nothing", {"StopPlan"})

MotionPoses ==
    Of("Motion", "wanted", {"GetPose"})
    \union Common("Motion")

NavigationClient ==
    Common("Navigation")
    \union Of("Navigation", "nothing", {"SetMode", "AddWaypoint", "RemoveWaypoint"})
    \union Of("Navigation", "parsed", {"GetLocation"})
    \union Of("Navigation", "field",
              {"GetMode", "GetWaypoints", "GetObstacles", "GetPaths", "GetProperties"})

SlamClient ==
    Common("Slam")
    \union Of("Slam", "field", {"GetPosition", "GetProperties"})
    \union Of("Slam", "collected", {"GetPointCloudMap", "GetInternalState"})

VideoClient ==
    Common("Video")
    \union Of("Video", "each", {"GetVideo"})

VisionClient ==
    Of("Vision", "field",
       {"GetDetectionsFromCamera", "GetDetections", "GetClassificationsFromCamera",
        "GetClassifications", "GetObjectPointClouds"})

VisionCaptures ==
    Of("Vision", "field", {"GetProperties", "CaptureAllFromCamera"})
    \union Common("Vision")

WorldStateStoreClient ==
    Common("WorldStateStore")
    \union Of("WorldStateStore", "field", {"ListUUIDs"})
    \union Of("WorldStateStore", "wanted", {"GetTransform"})
    \union Of("WorldStateStore", "present", {"StreamTransformChanges"})

-----------------------------------------------------------------------------
(* The robot API of RobotClient: sessions, operations, frame system, models, *)
(* resources, status, version, modules and poses.                           *)
RobotApi ==
    Of("Robot", "nothing", {"CancelOperation", "BlockForOperation", "StopAll", "RestartModule"})
    \union Of("Robot", "wanted", {"TransformPose", "GetPose"})
    \union Of("Robot", "field",
              {"GetSessions", "GetOperations", "FrameSystemConfig", "TransformPCD",
               "GetModelsFromModules", "GetCloudMetadata", "ResourceNames",
               "ResourceRPCSubtypes", "GetMachineStatus", "GetVersion"})

ClientMethods ==
    UNION {ArmClient, AudioInClient, AudioOutClient, BaseClient, BoardPins, BoardReaders,
           ButtonClient, CameraClient, EncoderClient, GantryClient, GenericComponentClient,
           GripperClient, InputControllerClient, MotorClient, MotorReadings,
           MovementSensorClient, MovementSensorReadings, PoseTrackerClient, PowerSensorClient,
           SensorClient, ServoClient, SwitchClient, DataManagerClient, DiscoveryClient,
           GenericServiceClient, MLModelClient, MotionClient, MotionPoses, NavigationClient,
           SlamClient, VideoClient, VisionClient, VisionCaptures, WorldStateStoreClient}

AllMethods == ClientMethods \union RobotApi

Classes == {m.class : m \in ClientMethods}

Streaming(gives) == gives \in {"collected", "queued", "each", "present"}

(* A generator makes its request when its first value is asked for. *)
Lazy(gives) == gives \in {"each", "present"}

(* The paths applyHeartbeatMonitoredMethods falls back on. *)
DefaultMonitored ==
    ({"Arm"} \X {"MoveToPosition", "MoveToJointPositions", "MoveThroughJointPositions"})
    \union ({"Base"} \X {"MoveStraight", "Spin", "SetPower", "SetVelocity"})
    \union ({"Gantry"} \X {"MoveToPosition"})
    \union ({"Gripper"} \X {"Open", "Grab"})
    \union ({"Motor"} \X {"SetPower", "GoFor", "GoTo", "SetRPM"})
    \union ({"Servo"} \X {"Move"})

Path(m) == <<m.class, m.rpc>>
=============================================================================
